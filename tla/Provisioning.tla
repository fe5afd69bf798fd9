---------------------------- MODULE Provisioning ----------------------------
(***************************************************************************)
(* The provisioning queue: the jobs that push rendered parameters to a     *)
(* CPE through the GenieACS NBI, the batches that group the jobs of a bulk *)
(* request, the Redis stream that announces new jobs, and the executors of *)
(* the worker processes that run them.                                     *)
(*                                                                         *)
(* The HTTP server enqueues (ApplyToDevice, ApplyBulk, Approve).  Every    *)
(* worker process runs a polling goroutine (RunOnce: claim up to BatchSize *)
(* jobs, run them one after the other) and, when Redis answered at boot, a *)
(* stream goroutine (RunByID: run the job a message names).  The database  *)
(* statements are the atomic steps: whatever a goroutine read before a     *)
(* statement may be stale when it issues the next one.                     *)
(***************************************************************************)
EXTENDS Integers, FiniteSets

CONSTANTS
    Jobs,              \* identities of the rows of provisioning_jobs
    Batches,           \* identities of the rows of provisioning_batches
    NoBatch,           \* the NULL batch_id of a single job
    NoJob,             \* no job in the executor's hands
    BatchOf,           \* batch_id of each job
    Workers,           \* worker processes
    RedisUp,           \* Redis answered at boot: stream goroutines run
    MaxRetry,          \* Executor.maxRetry
    BatchSize,         \* provisioningBatchSize, of a claim and of a read
    ApprovalThreshold, \* devices above which a batch must be approved
    MaxFaults          \* bound on crashes, expired contexts and failed writes

ASSUME ConstantsAssumption ==
    /\ NoBatch \notin Batches
    /\ NoJob \notin Jobs
    /\ BatchOf \in [Jobs -> Batches \cup {NoBatch}]
    /\ RedisUp \in BOOLEAN
    /\ MaxRetry \in Nat
    /\ BatchSize \in Nat \ {0}
    /\ ApprovalThreshold \in Nat
    /\ MaxFaults \in Nat
    /\ IsFiniteSet(Jobs)
    /\ IsFiniteSet(Workers) /\ Workers # {}

VARIABLES
    status,   \* provisioning_jobs.status; "absent": no such row
    retries,  \* provisioning_jobs.retry_count
    due,      \* provisioning_jobs.scheduled_at <= NOW()
    batch,    \* rows of provisioning_batches
    todo,     \* devices an ApplyBulk call has still to turn into jobs
    stream,   \* jobs announced on the stream and not read by the group
    inbox,    \* jobs a stream goroutine has read and not fetched yet
    claimed,  \* jobs whose row an executor has read and not written back
    seen,     \* the retry_count in the row the executor read
    pc,       \* where the executor is: "ready", "mark", "recount" or "count"
    cur,      \* the job the executor is running
    outcome,  \* what execute() returned for it
    expired,  \* the executor's 90 s context is over
    count,    \* what the recount under way has counted
    sends,    \* history: pushes of the job the NBI accepted
    overlapped, \* history: batches whose last recount began while another ran
    faults    \* history: faults so far

jobVars   == <<status, retries, due>>
execVars  == <<inbox, claimed, seen, pc, cur, outcome, expired, count, overlapped>>
vars      == <<jobVars, batch, todo, stream, execVars, sends, faults>>

-----------------------------------------------------------------------------
JobStatus == {"absent", "queued", "running", "done", "failed"}
Terminal  == {"done", "failed"}

BatchStatus == {"absent", "queued", "awaiting_approval", "running", "done", "failed"}

\* Of the counters of a row, that of its done jobs.
BatchRow == [status : BatchStatus, done : Nat, approved : BOOLEAN]

\* What a recount is going to write.
Tally   == [status : BatchStatus, done : Nat]
Nothing == [status |-> "absent", done |-> 0]

Kinds     == IF RedisUp THEN {"poll", "stream"} ELSE {"poll"}
Executors == Workers \X Kinds
Poller(e) == e[2] = "poll"

\* One job for each device of the bulk request.
DevicesOf(b) == {j \in Jobs : BatchOf[j] = b}
JobsIn(b, st) == {j \in DevicesOf(b) : status[j] = st}

RequiresApproval(b) == Cardinality(DevicesOf(b)) > ApprovalThreshold

AtMost(S, n) == {T \in SUBSET S : Cardinality(T) =
                    IF Cardinality(S) < n THEN Cardinality(S) ELSE n}

Fault == faults < MaxFaults /\ faults' = faults + 1

\* A write the executor does not get through: its context has expired, or the
\* statement fails.  The code drops the error.
LostWrite(e) == IF expired[e] THEN UNCHANGED faults ELSE Fault

-----------------------------------------------------------------------------
Init ==
    /\ status  = [j \in Jobs |-> "absent"]
    /\ retries = [j \in Jobs |-> 0]
    /\ due     = [j \in Jobs |-> FALSE]
    /\ batch   = [b \in Batches |-> [status |-> "absent", done |-> 0, approved |-> FALSE]]
    /\ todo    = [b \in Batches |-> {}]
    /\ stream  = {}
    /\ inbox   = [e \in Executors |-> {}]
    /\ claimed = [e \in Executors |-> {}]
    /\ seen    = [e \in Executors |-> [j \in Jobs |-> 0]]
    /\ pc      = [e \in Executors |-> "ready"]
    /\ cur     = [e \in Executors |-> NoJob]
    /\ outcome = [e \in Executors |-> "ok"]
    /\ expired = [e \in Executors |-> FALSE]
    /\ count   = [e \in Executors |-> Nothing]
    /\ overlapped = {}
    /\ sends   = [j \in Jobs |-> 0]
    /\ faults  = 0

-----------------------------------------------------------------------------
(* The HTTP server.                                                        *)

\* Announcing is best effort: XADD may fail, and MAXLEN may later trim the
\* message away unread.  Each job is announced once, so the stream is a set.
Notify(j) ==
    IF RedisUp THEN stream' \in {stream, stream \cup {j}} ELSE UNCHANGED stream

InsertQueued(j) ==
    /\ status' = [status EXCEPT ![j] = "queued"]
    /\ due'    = [due EXCEPT ![j] = TRUE]

\* One queued job for one device; EnqueueFields does the same for inline edits.
ApplyToDevice(j) ==
    /\ BatchOf[j] = NoBatch
    /\ status[j] = "absent"
    /\ InsertQueued(j)
    /\ Notify(j)
    /\ UNCHANGED <<retries, batch, todo, execVars, sends, faults>>

\* ApplyBulk, past its gates: the batch row.
StartBulk(b) ==
    /\ batch[b].status = "absent"
    /\ DevicesOf(b) # {}
    /\ batch' = [batch EXCEPT ![b] =
                   [status |-> IF RequiresApproval(b) THEN "awaiting_approval" ELSE "queued",
                    done |-> 0, approved |-> FALSE]]
    /\ todo'  = [todo EXCEPT ![b] = DevicesOf(b)]
    /\ UNCHANGED <<jobVars, stream, execVars, sends, faults>>

\* ApplyBulk, a device whose parameters render: a queued job, announced unless
\* the batch waits for approval.
BulkQueue(b, j) ==
    /\ j \in todo[b]
    /\ todo' = [todo EXCEPT ![b] = @ \ {j}]
    /\ InsertQueued(j)
    /\ IF RequiresApproval(b) THEN UNCHANGED stream ELSE Notify(j)
    /\ UNCHANGED <<retries, batch, execVars, sends, faults>>

\* ApplyBulk, a device that does not resolve, has another model or does not
\* render: a job born failed.  The error of that insert is dropped (an unknown
\* device violates the foreign key), and then there is no row.
BulkReject(b, j) ==
    /\ j \in todo[b]
    /\ todo' = [todo EXCEPT ![b] = @ \ {j}]
    /\ status' \in {status, [status EXCEPT ![j] = "failed"]}
    /\ UNCHANGED <<retries, due, batch, stream, execVars, sends, faults>>

\* The insert of a queued job fails (or the server dies): ApplyBulk returns and
\* leaves the batch with the jobs made so far.
BulkAbort(b) ==
    /\ todo[b] # {}
    /\ Fault
    /\ todo' = [todo EXCEPT ![b] = {}]
    /\ UNCHANGED <<jobVars, batch, stream, execVars, sends>>

Approve(b) ==
    /\ batch[b].status = "awaiting_approval"
    /\ batch' = [batch EXCEPT ![b] = [@ EXCEPT !.status = "queued", !.approved = TRUE]]
    /\ UNCHANGED <<jobVars, todo, stream, execVars, sends, faults>>

-----------------------------------------------------------------------------
(* Taking work.                                                            *)

Idle(e) == pc[e] = "ready" /\ claimed[e] = {}

\* Faulty variant: the claim does not look at who is running.
ClaimableRunning == {j \in Jobs : status[j] \in {"queued", "running"} /\ due[j]}

Claimable == {j \in Jobs : status[j] = "queued" /\ due[j]}

\* Faulty variant: polling is left to workers that have no stream.
ClaimWithoutRedis(e) ==
    /\ ~RedisUp /\ Poller(e) /\ Idle(e)
    /\ \E S \in AtMost(Claimable, BatchSize) :
         /\ S # {}
         /\ status'  = [j \in Jobs |-> IF j \in S THEN "running" ELSE status[j]]
         /\ claimed' = [claimed EXCEPT ![e] = S]
         /\ seen'    = [seen EXCEPT ![e] =
                          [j \in Jobs |-> IF j \in S THEN retries[j] ELSE @[j]]]
    /\ UNCHANGED <<retries, due, batch, todo, stream, inbox, pc, cur, outcome,
                   expired, count, overlapped, sends, faults>>

\* RunOnce, first statement: FOR UPDATE SKIP LOCKED keeps two pollers from
\* claiming the same row.
ClaimBatch(e) ==
    /\ Poller(e) /\ Idle(e)
    /\ \E S \in AtMost(Claimable, BatchSize) :
         /\ S # {}
         /\ status'  = [j \in Jobs |-> IF j \in S THEN "running" ELSE status[j]]
         /\ claimed' = [claimed EXCEPT ![e] = S]
         /\ seen'    = [seen EXCEPT ![e] =
                          [j \in Jobs |-> IF j \in S THEN retries[j] ELSE @[j]]]
    /\ UNCHANGED <<retries, due, batch, todo, stream, inbox, pc, cur, outcome,
                   expired, count, overlapped, sends, faults>>

\* XREADGROUP ">": the messages leave the group's undelivered part for good;
\* the pending list is never read again, so an acknowledgement changes nothing.
ConsumeProvisioning(e) ==
    /\ ~Poller(e) /\ Idle(e) /\ inbox[e] = {}
    /\ \E S \in AtMost(stream, BatchSize) :
         /\ S # {}
         /\ inbox' = [inbox EXCEPT ![e] = S]
         /\ stream' = stream \ S
    /\ UNCHANGED <<jobVars, batch, todo, claimed, seen, pc, cur, outcome, expired,
                   count, overlapped, sends, faults>>

\* RunByID, GetByID: the row is read, not claimed.  A job in a terminal state is
\* skipped; so is one that cannot be read.
Fetch(e, j) ==
    /\ ~Poller(e) /\ Idle(e)
    /\ j \in inbox[e]
    /\ inbox' = [inbox EXCEPT ![e] = @ \ {j}]
    /\ \/ /\ status[j] \in {"queued", "running"}
          /\ claimed' = [claimed EXCEPT ![e] = {j}]
          /\ seen' = [seen EXCEPT ![e] = [@ EXCEPT ![j] = retries[j]]]
          /\ UNCHANGED faults
       \/ /\ IF status[j] \in {"queued", "running"} THEN Fault ELSE UNCHANGED faults
          /\ UNCHANGED <<claimed, seen>>
    /\ UNCHANGED <<jobVars, batch, todo, stream, pc, cur, outcome, expired, count,
                   overlapped, sends>>

-----------------------------------------------------------------------------
(* Running a job.                                                          *)

\* execute(): resolve the device and post the task.  "retry" is an error that
\* isRetryable (lookup, network, 5xx, a response lost after the NBI stored the
\* task), "final" is a 4xx.
Send(e, j) ==
    /\ pc[e] = "ready"
    /\ j \in claimed[e]
    /\ pc'  = [pc EXCEPT ![e] = "mark"]
    /\ cur' = [cur EXCEPT ![e] = j]
    /\ \/ /\ outcome' = [outcome EXCEPT ![e] = "retry"]
          /\ UNCHANGED sends
       \/ /\ ~expired[e]
          /\ outcome' = [outcome EXCEPT ![e] = "final"]
          /\ UNCHANGED sends
       \/ /\ ~expired[e]
          /\ \E o \in {"ok", "retry"} : outcome' = [outcome EXCEPT ![e] = o]
          /\ sends' = [sends EXCEPT ![j] = @ + 1]
    /\ UNCHANGED <<jobVars, batch, todo, stream, inbox, claimed, seen, expired, count,
                   overlapped, faults>>

\* The row is written back (or the write is lost): on to the recount.
Written(e) ==
    /\ claimed' = [claimed EXCEPT ![e] = @ \ {cur[e]}]
    /\ seen'    = [seen EXCEPT ![e] = [@ EXCEPT ![cur[e]] = 0]]
    /\ pc'      = [pc EXCEPT ![e] = "recount"]
    /\ outcome' = [outcome EXCEPT ![e] = "ok"]
    /\ UNCHANGED <<inbox, cur, expired, count, overlapped>>

\* Unconditional on the status the row has by now.
MarkDone(e) ==
    /\ pc[e] = "mark" /\ outcome[e] = "ok" /\ ~expired[e]
    /\ status' = [status EXCEPT ![cur[e]] = "done"]
    /\ Written(e)
    /\ UNCHANGED <<retries, due, batch, todo, stream, sends, faults>>

\* An error of MarkDone is an error of execute(), and a retryable one.
MarkDoneFails(e) ==
    /\ pc[e] = "mark" /\ outcome[e] = "ok"
    /\ LostWrite(e)
    /\ outcome' = [outcome EXCEPT ![e] = "retry"]
    /\ UNCHANGED <<jobVars, batch, todo, stream, inbox, claimed, seen, pc, cur,
                   expired, count, overlapped, sends>>

\* Faulty variant: one retry too many.
MayRetryOnceMore(e) == outcome[e] = "retry" /\ seen[e][cur[e]] <= MaxRetry

MayRetry(e) == outcome[e] = "retry" /\ seen[e][cur[e]] + 1 <= MaxRetry

\* Faulty variant: the job sent back keeps the status of the claim.
MarkFailedRunning(e) ==
    /\ pc[e] = "mark" /\ outcome[e] # "ok" /\ ~expired[e]
    /\ status'  = [status EXCEPT ![cur[e]] = IF MayRetry(e) THEN "running" ELSE "failed"]
    /\ retries' = [retries EXCEPT ![cur[e]] = IF MayRetry(e) THEN @ + 1 ELSE @]
    /\ due'     = [due EXCEPT ![cur[e]] = @ /\ ~MayRetry(e)]
    /\ Written(e)
    /\ UNCHANGED <<batch, todo, stream, sends, faults>>

\* Back to the queue 30 s * (retry_count + 1) later, or failed for good;
\* unconditional on the status the row has by now.
MarkFailed(e) ==
    /\ pc[e] = "mark" /\ outcome[e] # "ok" /\ ~expired[e]
    /\ IF MayRetry(e)
       THEN /\ status'  = [status EXCEPT ![cur[e]] = "queued"]
            /\ retries' = [retries EXCEPT ![cur[e]] = @ + 1]
            /\ due'     = [due EXCEPT ![cur[e]] = FALSE]
       ELSE /\ status'  = [status EXCEPT ![cur[e]] = "failed"]
            /\ UNCHANGED <<retries, due>>
    /\ Written(e)
    /\ UNCHANGED <<batch, todo, stream, sends, faults>>

\* The error of MarkFailed is dropped and the row stays as it was.
MarkFailedLost(e) ==
    /\ pc[e] = "mark" /\ outcome[e] # "ok"
    /\ LostWrite(e)
    /\ Written(e)
    /\ UNCHANGED <<jobVars, batch, todo, stream, sends>>

\* Faulty variant: a batch with nothing counted is taken for a cancelled one.
CountedOrCancelled(b) ==
    [status |-> IF JobsIn(b, "queued") # {} THEN "running"
                ELSE IF JobsIn(b, "done") # {} THEN "done"
                ELSE IF JobsIn(b, "failed") # {} THEN "failed" ELSE "cancelled",
     done   |-> Cardinality(JobsIn(b, "done"))]

\* What the statement counts, and the status that follows from it.  No job is
\* ever cancelled by the program; a running job counts nowhere.
Counted(b) ==
    [status |-> IF JobsIn(b, "queued") # {} THEN "running"
                ELSE IF JobsIn(b, "done") = {} /\ JobsIn(b, "failed") # {}
                THEN "failed" ELSE "done",
     done   |-> Cardinality(JobsIn(b, "done"))]

\* The executors whose recount of b has counted and not written.
Counting(b) == {e \in Executors : pc[e] = "count" /\ BatchOf[cur[e]] = b}

\* RecountFromJobs begins: one statement, whose snapshot is taken before it has
\* the lock of the batch row.  Jobs written since, and the counts another recount
\* writes in between, it does not see: READ COMMITTED reads again the row it
\* waited for, not the rows it counted.
TakeSnapshot(e) ==
    LET b == BatchOf[cur[e]]
    IN  /\ pc[e] = "recount" /\ b # NoBatch /\ ~expired[e]
        /\ pc'    = [pc EXCEPT ![e] = "count"]
        /\ count' = [count EXCEPT ![e] = Counted(b)]
        /\ overlapped' = IF Counting(b) = {} THEN overlapped \ {b} ELSE overlapped \cup {b}
        /\ UNCHANGED <<jobVars, batch, todo, stream, inbox, claimed, seen, cur, outcome,
                       expired, sends, faults>>

\* The end of a job's run.  The context ends with the last claimed job (RunOnce)
\* or with the job (RunByID).
EndRun(e) ==
    /\ pc'  = [pc EXCEPT ![e] = "ready"]
    /\ cur' = [cur EXCEPT ![e] = NoJob]
    /\ expired' = [expired EXCEPT ![e] = @ /\ claimed[e] # {}]
    /\ count'   = [count EXCEPT ![e] = Nothing]
    /\ UNCHANGED <<jobVars, todo, stream, inbox, claimed, seen, outcome, overlapped, sends>>

\* RecountFromJobs ends with the batch row; the error of a recount is dropped.
Recount(e) ==
    LET b == BatchOf[cur[e]]
    IN  /\ pc[e] = "count"
        /\ EndRun(e)
        /\ \/ /\ ~expired[e]
              /\ batch' = [batch EXCEPT ![b] = [@ EXCEPT !.status = count[e].status,
                                                       !.done   = count[e].done]]
              /\ UNCHANGED faults
           \/ LostWrite(e) /\ UNCHANGED batch

\* Faulty variant: RunByID does not recount.
SkipByStream(e) ==
    /\ pc[e] = "recount"
    /\ EndRun(e)
    /\ IF BatchOf[cur[e]] = NoBatch \/ ~Poller(e) THEN UNCHANGED faults ELSE LostWrite(e)
    /\ UNCHANGED batch

\* No recount: the job has no batch, or the statement never ran.
SkipRecount(e) ==
    /\ pc[e] = "recount"
    /\ EndRun(e)
    /\ IF BatchOf[cur[e]] = NoBatch THEN UNCHANGED faults ELSE LostWrite(e)
    /\ UNCHANGED batch

-----------------------------------------------------------------------------
(* Time and failures.                                                      *)

\* scheduled_at of a job sent back to the queue passes.
BackoffElapses(j) ==
    /\ status[j] = "queued" /\ ~due[j]
    /\ due' = [due EXCEPT ![j] = TRUE]
    /\ UNCHANGED <<status, retries, batch, todo, stream, execVars, sends, faults>>

\* provisioningJobTimeout: one context for all the jobs of a RunOnce.
ContextExpires(e) ==
    /\ ~Idle(e) /\ ~expired[e]
    /\ Fault
    /\ expired' = [expired EXCEPT ![e] = TRUE]
    /\ UNCHANGED <<jobVars, batch, todo, stream, inbox, claimed, seen, pc, cur,
                   outcome, count, overlapped, sends>>

\* A variable of the goroutines, initial again for those of process w.
Restarted(f, w, x) == [e \in Executors |-> IF e[1] = w THEN x ELSE f[e]]

\* The process dies and is started again: its goroutines begin anew, under
\* another consumer name.  Nothing looks for the rows it left "running".
Crash(w) ==
    /\ Fault
    /\ inbox'   = Restarted(inbox, w, {})
    /\ claimed' = Restarted(claimed, w, {})
    /\ seen'    = Restarted(seen, w, [j \in Jobs |-> 0])
    /\ pc'      = Restarted(pc, w, "ready")
    /\ cur'     = Restarted(cur, w, NoJob)
    /\ outcome' = Restarted(outcome, w, "ok")
    /\ expired' = Restarted(expired, w, FALSE)
    /\ count'   = Restarted(count, w, Nothing)
    /\ UNCHANGED <<jobVars, batch, todo, stream, overlapped, sends>>

-----------------------------------------------------------------------------
Server == \/ \E j \in Jobs : ApplyToDevice(j)
          \/ \E b \in Batches : StartBulk(b) \/ BulkAbort(b) \/ Approve(b)
          \/ \E b \in Batches : \E j \in Jobs : BulkQueue(b, j) \/ BulkReject(b, j)

RunJob(e) == \/ \E j \in Jobs : Fetch(e, j) \/ Send(e, j)
             \/ MarkDone(e) \/ MarkDoneFails(e) \/ MarkFailed(e) \/ MarkFailedLost(e)
             \/ TakeSnapshot(e) \/ Recount(e) \/ SkipRecount(e)

Worker(e) == ClaimBatch(e) \/ ConsumeProvisioning(e) \/ RunJob(e)

Environment == \/ \E j \in Jobs : BackoffElapses(j)
               \/ \E e \in Executors : ContextExpires(e)
               \/ \E w \in Workers : Crash(w)

Next == Server \/ (\E e \in Executors : Worker(e)) \/ Environment

Spec == Init /\ [][Next]_vars

\* The goroutines keep running and every call returns (HTTP calls after 30 s at
\* most); an ApplyBulk call that began goes through its devices; time passes.
Fairness ==
    /\ \A e \in Executors : WF_vars(Worker(e))
    /\ \A b \in Batches : WF_vars(\E j \in Jobs : BulkQueue(b, j) \/ BulkReject(b, j))
    /\ \A j \in Jobs : WF_vars(BackoffElapses(j))

FairSpec == Spec /\ Fairness

-----------------------------------------------------------------------------
(* Properties.                                                             *)

TypeOK ==
    /\ status  \in [Jobs -> JobStatus]
    /\ retries \in [Jobs -> Nat]
    /\ due     \in [Jobs -> BOOLEAN]
    /\ batch   \in [Batches -> BatchRow]
    /\ todo    \in [Batches -> SUBSET Jobs]
    /\ stream  \in SUBSET Jobs
    /\ inbox   \in [Executors -> SUBSET Jobs]
    /\ claimed \in [Executors -> SUBSET Jobs]
    /\ seen    \in [Executors -> [Jobs -> Nat]]
    /\ pc      \in [Executors -> {"ready", "mark", "recount", "count"}]
    /\ cur     \in [Executors -> Jobs \cup {NoJob}]
    /\ outcome \in [Executors -> {"ok", "retry", "final"}]
    /\ expired \in [Executors -> BOOLEAN]
    /\ count   \in [Executors -> Tally]
    /\ overlapped \in SUBSET Batches
    /\ sends   \in [Jobs -> Nat]
    /\ faults  \in Nat

\* Without Redis, a job is in the hands of at most one executor, and its row
\* says "running" as long as it is: no device is configured by two goroutines
\* at once (ClaimBatch, RunOnce).
ExclusiveExecution ==
    ~RedisUp => \A e \in Executors : \A j \in claimed[e] :
                  /\ status[j] = "running"
                  /\ \A f \in Executors : j \in claimed[f] => f = e

\* Without Redis, the queue keeps what JobPromise says of every job: the retries
\* never push a job more than 1 + MaxRetry times, and a settled job stays as it
\* is, whatever crashes, lost writes and lost answers happen on the way.
PromiseState(s) == IF s = "absent" THEN "new"
                   ELSE IF s \in {"queued", "running"} THEN "pending" ELSE s
Promise == INSTANCE JobPromise WITH
    MaxPushes <- MaxRetry + 1,
    state     <- [j \in Jobs |-> PromiseState(status[j])],
    pushes    <- sends
KeepsPromise == Promise!Spec

\* With the stream too, an executor decides on a retry from the retry_count it
\* read, while others increment it: the limit can be passed, by no more than
\* one for each further executor (RunOnce, RunByID, MarkFailed).
RetryBound ==
    \A j \in Jobs : retries[j] <= MaxRetry + Cardinality(Executors) - 1

\* Until something fails, a batch counts exactly its done jobs, except while an
\* executor that wrote a job of it has still to recount, and except after two
\* recounts that ran at once, the older of which may have written last (RunOnce,
\* RunByID, RecountFromJobs).
DoneCounterExact ==
    faults = 0 => \A b \in Batches \ overlapped :
        \/ batch[b].done = Cardinality(JobsIn(b, "done"))
        \/ \E e \in Executors : pc[e] \in {"recount", "count"} /\ BatchOf[cur[e]] = b

\* Polling makes up for every lost announcement: again and again the queue is
\* empty, so each of the jobs (there are finitely many, with finitely many
\* retries) is taken, also when processes crash (Notify is best effort, RunOnce is
\* the fallback).
QueuedIsTaken == []<>(\A j \in Jobs : status[j] # "queued")

\* When nothing fails, all the jobs there are reach a final state for good,
\* although the poller and the stream may run one twice at once.
JobsSettle ==
    [](faults = 0) => <>[](\A j \in Jobs : status[j] \notin {"queued", "running"})

\* When nothing fails, a batch with work ends up finished, with the count of its
\* done jobs (RecountFromJobs after the last job), unless its last two recounts
\* ran at once: then the older counts may stay for good.
BatchReportsOutcome ==
    [](faults = 0) => \A b \in Batches :
        JobsIn(b, "queued") # {} ~>
            [](\/ b \in overlapped
               \/ /\ batch[b].status \in {"done", "failed"}
                  /\ batch[b].done = Cardinality(JobsIn(b, "done")))

-----------------------------------------------------------------------------
(* Inductive strengthenings, for the proofs of ProvisioningProofs.         *)

\* An executor that is to write a row back still holds that row.
Bookkeeping ==
    \A e \in Executors : /\ pc[e] = "mark" => cur[e] \in claimed[e]
                         /\ pc[e] \in {"recount", "count"} => cur[e] \in Jobs
                         /\ pc[e] = "count" => /\ BatchOf[cur[e]] \in Batches
                                               /\ count[e].status # "absent"

\* A recount that runs alone has counted what is there, unless a job was written
\* since: then the executor that wrote it has still to recount.
CountsCurrent ==
    faults = 0 => \A b \in Batches \ overlapped :
        /\ \A e, f \in Counting(b) : e = f
        /\ \A e \in Counting(b) :
             \/ count[e].done = Cardinality(JobsIn(b, "done"))
             \/ \E f \in Executors : pc[f] = "recount" /\ BatchOf[cur[f]] = b

\* The executors that may send j back to the queue on the count they read.
Deciders(j) == {e \in Executors : j \in claimed[e] /\ seen[e][j] < MaxRetry}

\* Each of them can still add one retry, so the bound counts them too.
RetryBudget ==
    \A j \in Jobs : retries[j] + Cardinality(Deciders(j))
                      <= MaxRetry + Cardinality(Executors) - 1

\* A batch makes its own jobs, each once.
BulkFresh ==
    \A b \in Batches :
        /\ \A j \in todo[b] : BatchOf[j] = b /\ status[j] = "absent"
        /\ batch[b].status = "absent" =>
             todo[b] = {} /\ \A j \in DevicesOf(b) : status[j] = "absent"

\* Without Redis, what an executor read is still so.
ReadIsCurrent == \A e \in Executors : \A j \in claimed[e] : seen[e][j] = retries[j]

\* A job in the queue has been pushed once for each retry at most.
QueuedBudget ==
    \A j \in Jobs : /\ retries[j] <= MaxRetry
                    /\ status[j] = "queued" => sends[j] <= retries[j]

\* So has one in an executor's hands, but for the push of this run.
RunBudget ==
    \A e \in Executors : \A j \in claimed[e] :
        IF pc[e] = "mark" /\ cur[e] = j
        THEN /\ sends[j] <= retries[j] + 1
             /\ outcome[e] = "ok" => sends[j] > 0
        ELSE sends[j] <= retries[j]

PushBudget == ReadIsCurrent /\ QueuedBudget /\ RunBudget

PollInvariant == ~RedisUp => ExclusiveExecution /\ PushBudget

-----------------------------------------------------------------------------
(* What the repository says, and the program does not do.                  *)

\* entities.go:31: "awaiting_approval bloqueia a fila ate alguem com permissao
\* aprovar"; service.go:160: ClaimBatch skips the jobs of such a batch.
ApprovalBlocksQueue ==
    \A b \in Batches : RequiresApproval(b) /\ ~batch[b].approved =>
        \A j \in DevicesOf(b) : sends[j] = 0

\* entities.go:25: "Worker nao retoma jobs em estado terminal".
TerminalIsFinal ==
    [][\A j \in Jobs : status[j] \in Terminal => status'[j] = status[j]]_vars

=============================================================================
