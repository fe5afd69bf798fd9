------------------------- MODULE ProvisioningProofs -------------------------
(* What holds of the provisioning queue for any number of jobs, batches,   *)
(* workers, retries and faults.                                            *)
EXTENDS Provisioning, FiniteSetTheorems, TLAPS

LEMMA JobsInFinite ==
    ASSUME NEW b, NEW st
    PROVE  IsFiniteSet(JobsIn(b, st)) /\ Cardinality(JobsIn(b, st)) \in Nat
<1>1. JobsIn(b, st) \subseteq Jobs
      BY DEF JobsIn, DevicesOf
<1>2. IsFiniteSet(Jobs)
      BY ConstantsAssumption
<1> QED BY <1>1, <1>2, FS_Subset, FS_CardinalityType

LEMMA DevicesFinite ==
    ASSUME NEW b PROVE Cardinality(DevicesOf(b)) \in Nat
<1>1. DevicesOf(b) \subseteq Jobs BY DEF DevicesOf
<1> QED BY <1>1, ConstantsAssumption, FS_Subset, FS_CardinalityType

\* What a recount counts is of the right type.
LEMMA CountedTyped ==
    ASSUME NEW b PROVE Counted(b) \in Tally
BY JobsInFinite DEF Counted, Tally, BatchStatus

LEMMA RowTyped ==
    ASSUME NEW r \in BatchRow, NEW st \in BatchStatus, NEW n \in Nat
    PROVE  [r EXCEPT !.status = st, !.done = n] \in BatchRow
BY DEF BatchRow

\* Writing a job back keeps the executor's variables typed.
LEMMA WrittenTyped ==
    ASSUME TypeOK, NEW e \in Executors, Written(e)
    PROVE  /\ inbox'   \in [Executors -> SUBSET Jobs]
           /\ claimed' \in [Executors -> SUBSET Jobs]
           /\ seen'    \in [Executors -> [Jobs -> Nat]]
           /\ pc'      \in [Executors -> {"ready", "mark", "recount", "count"}]
           /\ cur'     \in [Executors -> Jobs \cup {NoJob}]
           /\ outcome' \in [Executors -> {"ok", "retry", "final"}]
           /\ expired' \in [Executors -> BOOLEAN]
           /\ count'   \in [Executors -> Tally]
           /\ overlapped' \in SUBSET Batches
<1>1. [seen[e] EXCEPT ![cur[e]] = 0] \in [Jobs -> Nat]
      BY DEF TypeOK
<1>2. seen' \in [Executors -> [Jobs -> Nat]]
      BY <1>1 DEF TypeOK, Written
<1> QED BY <1>2 DEF TypeOK, Written

\* So does a restart.
LEMMA RestartedTyped ==
    ASSUME NEW T, NEW f \in [Executors -> T], NEW w, NEW x \in T
    PROVE  Restarted(f, w, x) \in [Executors -> T]
BY DEF Restarted

LEMMA TypeInit == Init => TypeOK
BY ConstantsAssumption DEF Init, TypeOK, JobStatus, BatchRow, BatchStatus, Tally, Nothing

LEMMA TypeServer == TypeOK /\ Server => TypeOK'
<1> SUFFICES ASSUME TypeOK, Server PROVE TypeOK'
    OBVIOUS
<1> USE DEF TypeOK, jobVars, execVars, JobStatus
<1>1. ASSUME NEW j \in Jobs, ApplyToDevice(j) PROVE TypeOK'
      BY <1>1 DEF ApplyToDevice, InsertQueued, Notify
<1>2. ASSUME NEW b \in Batches, StartBulk(b) PROVE TypeOK'
  <2>1. batch' \in [Batches -> BatchRow]
        BY <1>2, DevicesFinite DEF StartBulk, BatchRow, BatchStatus
  <2>2. todo' \in [Batches -> SUBSET Jobs]
        BY <1>2 DEF StartBulk, DevicesOf
  <2> QED BY <1>2, <2>1, <2>2 DEF StartBulk
<1>3. ASSUME NEW b \in Batches, BulkAbort(b) PROVE TypeOK'
      BY <1>3 DEF BulkAbort, Fault
<1>4. ASSUME NEW b \in Batches, Approve(b) PROVE TypeOK'
  <2>1. batch' \in [Batches -> BatchRow]
        BY <1>4, ZenonT(60) DEF Approve, BatchRow, BatchStatus
  <2> QED BY <1>4, <2>1 DEF Approve
<1>5. ASSUME NEW b \in Batches, NEW j \in Jobs, BulkQueue(b, j) PROVE TypeOK'
      BY <1>5 DEF BulkQueue, InsertQueued, Notify
<1>6. ASSUME NEW b \in Batches, NEW j \in Jobs, BulkReject(b, j) PROVE TypeOK'
      BY <1>6 DEF BulkReject
<1> QED BY <1>1, <1>2, <1>3, <1>4, <1>5, <1>6 DEF Server

LEMMA TypeWorker ==
    ASSUME TypeOK, Bookkeeping, NEW e \in Executors, Worker(e)
    PROVE  TypeOK'
<1> USE DEF TypeOK, jobVars, execVars, JobStatus
<1>1. CASE ClaimBatch(e)
  <2>1. PICK S \in AtMost(Claimable, BatchSize) :
            /\ status'  = [j \in Jobs |-> IF j \in S THEN "running" ELSE status[j]]
            /\ claimed' = [claimed EXCEPT ![e] = S]
            /\ seen'    = [seen EXCEPT ![e] =
                             [j \in Jobs |-> IF j \in S THEN retries[j] ELSE @[j]]]
        BY <1>1 DEF ClaimBatch
  <2>2. S \subseteq Jobs
        BY DEF AtMost, Claimable
  <2> QED BY <1>1, <2>1, <2>2 DEF ClaimBatch
<1>2. CASE ConsumeProvisioning(e)
      BY <1>2 DEF ConsumeProvisioning, AtMost
<1>3. ASSUME NEW j \in Jobs, Fetch(e, j) PROVE TypeOK'
  <2>1. [seen[e] EXCEPT ![j] = retries[j]] \in [Jobs -> Nat]
        OBVIOUS
  <2>2. seen' \in [Executors -> [Jobs -> Nat]]
        BY <1>3, <2>1 DEF Fetch
  <2>a. claimed' = claimed \/ claimed' = [claimed EXCEPT ![e] = {j}]
        BY <1>3 DEF Fetch
  <2>3. claimed' \in [Executors -> SUBSET Jobs]
        BY <2>a, SMTT(60)
  <2>4. faults' \in Nat
        BY <1>3 DEF Fetch, Fault
  <2> QED BY <1>3, <2>2, <2>3, <2>4 DEF Fetch
<1>4. ASSUME NEW j \in Jobs, Send(e, j) PROVE TypeOK'
  <2>1. outcome' \in [Executors -> {"ok", "retry", "final"}]
        BY <1>4 DEF Send
  <2>2. sends' = sends \/ sends' = [sends EXCEPT ![j] = @ + 1]
        BY <1>4 DEF Send
  <2>3. sends' \in [Jobs -> Nat]
        BY <2>2
  <2> QED BY <1>4, <2>1, <2>3 DEF Send
<1>5. CASE MarkDone(e)
      BY <1>5, WrittenTyped DEF MarkDone
<1>6. CASE MarkDoneFails(e)
      BY <1>6 DEF MarkDoneFails, LostWrite, Fault
<1>7. CASE MarkFailed(e)
  <2>1. /\ status' \in [Jobs -> JobStatus]
        /\ due' \in [Jobs -> BOOLEAN]
        BY <1>7 DEF MarkFailed
  <2>2. retries' = retries \/ retries' = [retries EXCEPT ![cur[e]] = @ + 1]
        BY <1>7 DEF MarkFailed
  <2>3. retries' \in [Jobs -> Nat]
        BY <2>2
  <2> QED BY <1>7, <2>1, <2>3, WrittenTyped DEF MarkFailed
<1>8. CASE MarkFailedLost(e)
      BY <1>8, WrittenTyped DEF MarkFailedLost, LostWrite, Fault
<1>9. CASE TakeSnapshot(e)
  <2>1. PICK b \in Batches : b = BatchOf[cur[e]]
        BY <1>9, ConstantsAssumption DEF TakeSnapshot, Bookkeeping
  <2>2. count' = [count EXCEPT ![e] = Counted(b)]
        BY <1>9, <2>1 DEF TakeSnapshot
  <2>3. count' \in [Executors -> Tally]
        BY <2>2, CountedTyped
  <2>4. overlapped' \in SUBSET Batches
        BY <1>9, <2>1 DEF TakeSnapshot
  <2> QED BY <1>9, <2>3, <2>4 DEF TakeSnapshot
<1>10. CASE Recount(e) \/ SkipRecount(e)
  <2>1. EndRun(e)
        BY <1>10 DEF Recount, SkipRecount
  <2>2. count' \in [Executors -> Tally]
        BY <2>1 DEF EndRun, Tally, Nothing, BatchStatus
  <2>3. batch' \in [Batches -> BatchRow]
    <3>1. CASE UNCHANGED batch
          BY <3>1
    <3>2. CASE batch' = [batch EXCEPT ![BatchOf[cur[e]]] = [@ EXCEPT !.status = count[e].status,
                                          !.done = count[e].done]]
      <4> DEFINE b == BatchOf[cur[e]]
      <4>1. count[e].status \in BatchStatus /\ count[e].done \in Nat
            BY DEF Tally
      <4>2. CASE b \notin Batches
            BY <3>2, <4>2
      <4>3. CASE b \in Batches
        <5>1. [batch[b] EXCEPT !.status = count[e].status, !.done = count[e].done] \in BatchRow
              BY <4>1, <4>3, RowTyped
        <5> QED BY <3>2, <5>1
      <4> QED BY <4>2, <4>3
    <3> QED BY <1>10, <3>1, <3>2 DEF Recount, SkipRecount
  <2>4. faults' \in Nat
        BY <1>10 DEF Recount, SkipRecount, LostWrite, Fault
  <2> QED BY <2>1, <2>2, <2>3, <2>4 DEF EndRun
<1> QED BY <1>1, <1>2, <1>3, <1>4, <1>5, <1>6, <1>7, <1>8, <1>9, <1>10 DEF Worker, RunJob

LEMMA TypeEnvironment == TypeOK /\ Environment => TypeOK'
<1> SUFFICES ASSUME TypeOK, Environment PROVE TypeOK'
    OBVIOUS
<1> USE DEF TypeOK, jobVars, execVars, JobStatus
<1>1. ASSUME NEW j \in Jobs, BackoffElapses(j) PROVE TypeOK'
      BY <1>1 DEF BackoffElapses
<1>2. ASSUME NEW e \in Executors, ContextExpires(e) PROVE TypeOK'
      BY <1>2 DEF ContextExpires, Fault
<1>3. ASSUME NEW w \in Workers, Crash(w) PROVE TypeOK'
  <2>1. [j \in Jobs |-> 0] \in [Jobs -> Nat]
        OBVIOUS
  <2>2. /\ inbox'   \in [Executors -> SUBSET Jobs]
        /\ claimed' \in [Executors -> SUBSET Jobs]
        /\ seen'    \in [Executors -> [Jobs -> Nat]]
        BY <1>3, <2>1, RestartedTyped DEF Crash
  <2>3. /\ pc'      \in [Executors -> {"ready", "mark", "recount", "count"}]
        /\ cur'     \in [Executors -> Jobs \cup {NoJob}]
        /\ outcome' \in [Executors -> {"ok", "retry", "final"}]
        /\ expired' \in [Executors -> BOOLEAN]
        /\ count'   \in [Executors -> Tally]
        BY <1>3, RestartedTyped DEF Crash, Tally, Nothing, BatchStatus
  <2>4. UNCHANGED <<status, retries, due, batch, todo, stream, overlapped, sends>> /\ faults' \in Nat
        BY <1>3 DEF Crash, Fault
  <2> QED BY <2>2, <2>3, <2>4
<1> QED BY <1>1, <1>2, <1>3 DEF Environment

LEMMA TypeStep == TypeOK /\ Bookkeeping /\ [Next]_vars => TypeOK'
<1> SUFFICES ASSUME TypeOK, Bookkeeping, [Next]_vars PROVE TypeOK'
    OBVIOUS
<1>1. CASE UNCHANGED vars
      BY <1>1 DEF vars, jobVars, execVars, TypeOK
<1> QED BY <1>1, TypeServer, TypeWorker, TypeEnvironment DEF Next

\* An executor knows the job it is running.
LEMMA BookkeepingStep ==
    ASSUME TypeOK, Bookkeeping, [Next]_vars PROVE Bookkeeping'
<1> USE DEF Bookkeeping, TypeOK, jobVars, execVars
<1>1. CASE UNCHANGED vars
      BY <1>1 DEF vars
<1>2. CASE Server
      BY <1>2 DEF Server, ApplyToDevice, StartBulk, BulkAbort, Approve, BulkQueue, BulkReject
<1>3. ASSUME NEW e \in Executors, Worker(e) PROVE Bookkeeping'
  <2>1. CASE ClaimBatch(e)
        BY <1>3, <2>1 DEF ClaimBatch, Idle
  <2>2. CASE ConsumeProvisioning(e)
        BY <2>2 DEF ConsumeProvisioning
  <2>3. ASSUME NEW j \in Jobs, Fetch(e, j) PROVE Bookkeeping'
        BY <2>3 DEF Fetch, Idle
  <2>4. ASSUME NEW j \in Jobs, Send(e, j) PROVE Bookkeeping'
        BY <2>4 DEF Send
  <2>5. CASE MarkDone(e) \/ MarkFailed(e) \/ MarkFailedLost(e)
    <3>1. pc[e] = "mark" /\ Written(e)
          BY <2>5 DEF MarkDone, MarkFailed, MarkFailedLost
    <3>2. cur[e] \in Jobs
          BY <3>1
    <3> QED BY <3>1, <3>2 DEF Written
  <2>6. CASE MarkDoneFails(e)
        BY <2>6 DEF MarkDoneFails
  <2>7. CASE TakeSnapshot(e)
    <3>1. BatchOf[cur[e]] \in Batches
          BY <2>7, ConstantsAssumption DEF TakeSnapshot
    <3>2. /\ pc' = [pc EXCEPT ![e] = "count"] /\ UNCHANGED <<claimed, cur>>
          /\ count' = [count EXCEPT ![e] = Counted(BatchOf[cur[e]])]
          /\ pc[e] = "recount"
          BY <2>7 DEF TakeSnapshot
    <3>3. count'[e].status # "absent"
          BY <3>2 DEF Counted
    <3> QED BY <3>1, <3>2, <3>3
  <2>8. CASE Recount(e) \/ SkipRecount(e)
        BY <2>8 DEF Recount, SkipRecount, EndRun
  <2> QED BY <1>3, <2>1, <2>2, <2>3, <2>4, <2>5, <2>6, <2>7, <2>8 DEF Worker, RunJob
<1>4. CASE Environment
  <2>1. ASSUME NEW w \in Workers, Crash(w) PROVE Bookkeeping'
        BY <2>1 DEF Crash, Restarted
  <2>2. ASSUME NEW j \in Jobs, BackoffElapses(j) PROVE Bookkeeping'
        BY <2>2 DEF BackoffElapses
  <2>3. ASSUME NEW e \in Executors, ContextExpires(e) PROVE Bookkeeping'
        BY <2>3 DEF ContextExpires
  <2> QED BY <1>4, <2>1, <2>2, <2>3 DEF Environment
<1> QED BY <1>1, <1>2, <1>3, <1>4 DEF Next

LEMMA BookkeepingInit == Init => Bookkeeping
BY DEF Init, Bookkeeping

\* Every variable keeps its type, whatever the constants.
THEOREM TypeCorrect == Spec => []TypeOK
BY TypeInit, TypeStep, BookkeepingInit, BookkeepingStep, PTL DEF Spec

-----------------------------------------------------------------------------
(* The retry bound.  Every executor that holds a job and may send it back  *)
(* is counted as a retry already spent.                                    *)

LEMMA ExecutorsFinite ==
    /\ IsFiniteSet(Executors)
    /\ Cardinality(Executors) \in Nat
    /\ Cardinality(Executors) > 0
<1>1. IsFiniteSet(Kinds)
  <2>1. IsFiniteSet({"poll"}) /\ IsFiniteSet({"poll"} \cup {"stream"})
        BY FS_Singleton, FS_AddElement
  <2>2. {"poll"} \cup {"stream"} = {"poll", "stream"}
        OBVIOUS
  <2> QED BY <2>1, <2>2 DEF Kinds
<1>2. IsFiniteSet(Executors)
      BY <1>1, ConstantsAssumption, FS_Product DEF Executors
<1>3. Executors # {}
  <2>1. PICK w \in Workers : TRUE
        BY ConstantsAssumption
  <2>2. <<w, "poll">> \in Executors
        BY <2>1 DEF Executors, Kinds
  <2> QED BY <2>2
<1> QED BY <1>2, <1>3, FS_CardinalityType, FS_EmptySet

LEMMA DecidersFinite ==
    ASSUME NEW j
    PROVE  /\ IsFiniteSet(Deciders(j))
           /\ Cardinality(Deciders(j)) \in Nat
           /\ Cardinality(Deciders(j)) <= Cardinality(Executors)
<1>1. Deciders(j) \subseteq Executors
      BY DEF Deciders
<1> QED BY <1>1, ExecutorsFinite, FS_Subset, FS_CardinalityType

LEMMA DecidersFinitePrime ==
    ASSUME NEW j
    PROVE  /\ IsFiniteSet(Deciders(j)')
           /\ Cardinality(Deciders(j)') \in Nat
           /\ Cardinality(Deciders(j)') <= Cardinality(Executors)
<1>1. Deciders(j)' \subseteq Executors
      BY DEF Deciders
<1> QED BY <1>1, ExecutorsFinite, FS_Subset, FS_CardinalityType

\* The three ways a step may move the budget of one job.
LEMMA BudgetKept ==
    ASSUME TypeOK, NEW j \in Jobs,
           retries[j] + Cardinality(Deciders(j)) <= MaxRetry + Cardinality(Executors) - 1,
           \/ retries'[j] = retries[j] /\ Deciders(j)' \subseteq Deciders(j)
           \/ retries'[j] = retries[j] /\ retries[j] < MaxRetry
           \/ /\ retries'[j] = retries[j] + 1
              /\ \E e \in Deciders(j) : Deciders(j)' \subseteq Deciders(j) \ {e}
    PROVE  (retries[j] + Cardinality(Deciders(j)) <= MaxRetry + Cardinality(Executors) - 1)'
<1> DEFINE N == Cardinality(Executors)
           c == Cardinality(Deciders(j))
           d == Cardinality(Deciders(j)')
<1>1. /\ N \in Nat /\ c \in Nat /\ d \in Nat /\ d <= N
      /\ retries[j] \in Nat /\ MaxRetry \in Nat
      BY ExecutorsFinite, DecidersFinite, DecidersFinitePrime, ConstantsAssumption DEF TypeOK
<1>2. CASE retries'[j] = retries[j] /\ Deciders(j)' \subseteq Deciders(j)
  <2>1. d <= c
        BY <1>2, DecidersFinite, FS_Subset
  <2> QED BY <1>1, <1>2, <2>1
<1>3. CASE retries'[j] = retries[j] /\ retries[j] < MaxRetry
      BY <1>1, <1>3
<1>4. CASE /\ retries'[j] = retries[j] + 1
           /\ \E e \in Deciders(j) : Deciders(j)' \subseteq Deciders(j) \ {e}
  <2>1. PICK e \in Deciders(j) : Deciders(j)' \subseteq Deciders(j) \ {e}
        BY <1>4
  <2>2. IsFiniteSet(Deciders(j) \ {e}) /\ Cardinality(Deciders(j) \ {e}) = c - 1
        BY DecidersFinite, FS_RemoveElement
  <2>3. d <= c - 1
        BY <2>1, <2>2, FS_Subset
  <2> QED BY <1>1, <1>4, <2>3
<1> QED BY <1>2, <1>3, <1>4

LEMMA BudgetStep ==
    ASSUME TypeOK, Bookkeeping, RetryBudget, [Next]_vars PROVE RetryBudget'
<1> SUFFICES ASSUME NEW k \in Jobs
             PROVE  (retries[k] + Cardinality(Deciders(k))
                        <= MaxRetry + Cardinality(Executors) - 1)'
    BY DEF RetryBudget
<1>0. retries[k] + Cardinality(Deciders(k)) <= MaxRetry + Cardinality(Executors) - 1
      BY DEF RetryBudget
<1> DEFINE Keeps == retries'[k] = retries[k] /\ Deciders(k)' \subseteq Deciders(k)
           Below == retries'[k] = retries[k] /\ retries[k] < MaxRetry
           Spends == /\ retries'[k] = retries[k] + 1
                     /\ \E e \in Deciders(k) : Deciders(k)' \subseteq Deciders(k) \ {e}
<1> SUFFICES Keeps \/ Below \/ Spends
    BY <1>0, BudgetKept
<1> USE DEF jobVars, execVars
<1>1. ASSUME UNCHANGED <<retries, claimed, seen>> PROVE Keeps
      BY <1>1 DEF Deciders
<1>2. CASE UNCHANGED vars
      BY <1>1, <1>2 DEF vars
<1>3. CASE Server
      BY <1>1, <1>3 DEF Server, ApplyToDevice, StartBulk, BulkAbort, Approve, BulkQueue,
                        BulkReject
<1>4. ASSUME NEW e \in Executors, Worker(e) PROVE Keeps \/ Below \/ Spends
  <2>1. CASE ClaimBatch(e)
    <3>1. PICK S \in AtMost(Claimable, BatchSize) :
              /\ claimed' = [claimed EXCEPT ![e] = S]
              /\ seen'    = [seen EXCEPT ![e] =
                               [j \in Jobs |-> IF j \in S THEN retries[j] ELSE @[j]]]
          BY <2>1 DEF ClaimBatch
    <3>2. retries' = retries
          BY <2>1 DEF ClaimBatch
    <3>3. ASSUME ~Below PROVE Deciders(k)' \subseteq Deciders(k)
          BY <3>1, <3>2, <3>3, ConstantsAssumption DEF Deciders, TypeOK
    <3> QED BY <3>2, <3>3
  <2>2. CASE ConsumeProvisioning(e)
        BY <1>1, <2>2 DEF ConsumeProvisioning
  <2>3. ASSUME NEW j \in Jobs, Fetch(e, j) PROVE Keeps \/ Below
    <3>1. retries' = retries
          BY <2>3 DEF Fetch
    <3>2. CASE UNCHANGED <<claimed, seen>>
          BY <1>1, <3>1, <3>2
    <3>3. CASE /\ claimed' = [claimed EXCEPT ![e] = {j}]
               /\ seen' = [seen EXCEPT ![e] = [@ EXCEPT ![j] = retries[j]]]
      <4>1. ASSUME ~Below PROVE Deciders(k)' \subseteq Deciders(k)
        <5>1. SUFFICES ASSUME NEW f \in Executors, k \in claimed'[f], seen'[f][k] < MaxRetry
                       PROVE  k \in claimed[f] /\ seen[f][k] < MaxRetry
              BY DEF Deciders
        <5>2. CASE f = e
          <6>1. k = j
                BY <3>3, <5>1, <5>2 DEF TypeOK
          <6>2. seen'[e][j] = retries[j]
                BY <3>3 DEF TypeOK
          <6> QED BY <3>1, <4>1, <5>1, <5>2, <6>1, <6>2
        <5>3. CASE f # e
              BY <3>3, <5>1, <5>3 DEF TypeOK
        <5> QED BY <5>2, <5>3
      <4> QED BY <3>1, <4>1
    <3> QED BY <2>3, <3>2, <3>3 DEF Fetch
  <2>4. ASSUME NEW j \in Jobs, Send(e, j) PROVE Keeps
        BY <1>1, <2>4 DEF Send
  <2>5. CASE MarkDone(e) \/ MarkFailed(e) \/ MarkFailedLost(e)
    <3>1. pc[e] = "mark" /\ Written(e)
          BY <2>5 DEF MarkDone, MarkFailed, MarkFailedLost
    <3>2. cur[e] \in claimed[e] /\ cur[e] \in Jobs
          BY <3>1 DEF Bookkeeping, TypeOK
    <3>3. Deciders(k)' \subseteq Deciders(k)
      <4>1. SUFFICES ASSUME NEW f \in Executors, k \in claimed'[f], seen'[f][k] < MaxRetry
                     PROVE  k \in claimed[f] /\ seen[f][k] < MaxRetry
            BY DEF Deciders
      <4>2. claimed'[f] \subseteq claimed[f]
            BY <3>1 DEF Written, TypeOK
      <4>3. CASE f = e
        <5>1. k # cur[e]
              BY <3>1, <4>1, <4>3 DEF Written, TypeOK
        <5>2. seen'[e] = [seen[e] EXCEPT ![cur[e]] = 0]
              BY <3>1 DEF Written, TypeOK
        <5>3. seen'[e][k] = seen[e][k]
              BY <5>1, <5>2 DEF TypeOK
        <5> QED BY <4>1, <4>2, <4>3, <5>3
      <4>4. CASE f # e
            BY <3>1, <4>1, <4>2, <4>4 DEF Written, TypeOK
      <4> QED BY <4>3, <4>4
    <3>4. k = cur[e] => e \notin Deciders(k)'
          BY <3>1 DEF Written, TypeOK, Deciders
    <3>5. CASE retries' = retries
          BY <3>3, <3>5
    <3>6. CASE MarkFailed(e) /\ MayRetry(e)
      <4>1. retries' = [retries EXCEPT ![cur[e]] = @ + 1]
            BY <3>6 DEF MarkFailed
      <4>2. CASE k # cur[e]
            BY <3>3, <4>1, <4>2 DEF TypeOK
      <4>3. CASE k = cur[e]
        <5>1. retries'[k] = retries[k] + 1
              BY <4>1, <4>3 DEF TypeOK
        <5>2. seen[e][k] < MaxRetry
              BY <3>2, <3>6, <4>3, ConstantsAssumption DEF MayRetry, TypeOK
        <5>3. e \in Deciders(k)
              BY <3>2, <4>3, <5>2 DEF Deciders
        <5> QED BY <3>3, <3>4, <4>3, <5>1, <5>3
      <4> QED BY <4>2, <4>3
    <3>7. retries' = retries \/ (MarkFailed(e) /\ MayRetry(e))
          BY <2>5 DEF MarkDone, MarkFailed, MarkFailedLost
    <3> QED BY <3>5, <3>6, <3>7
  <2>6. CASE MarkDoneFails(e)
        BY <1>1, <2>6 DEF MarkDoneFails
  <2>7. CASE TakeSnapshot(e) \/ Recount(e) \/ SkipRecount(e)
        BY <1>1, <2>7 DEF TakeSnapshot, Recount, SkipRecount, EndRun
  <2> QED BY <1>4, <2>1, <2>2, <2>3, <2>4, <2>5, <2>6, <2>7 DEF Worker, RunJob
<1>5. CASE Environment
  <2>1. ASSUME NEW w \in Workers, Crash(w) PROVE Keeps
    <3>1. retries' = retries
          BY <2>1 DEF Crash
    <3>2. /\ claimed' = [f \in Executors |-> IF f[1] = w THEN {} ELSE claimed[f]]
          /\ seen' = [f \in Executors |-> IF f[1] = w THEN [j \in Jobs |-> 0] ELSE seen[f]]
          BY <2>1 DEF Crash, Restarted
    <3>3. Deciders(k)' \subseteq Deciders(k)
          BY <3>2 DEF Deciders
    <3> QED BY <3>1, <3>3
  <2>2. ASSUME NEW j \in Jobs, BackoffElapses(j) PROVE Keeps
        BY <1>1, <2>2 DEF BackoffElapses
  <2>3. ASSUME NEW e \in Executors, ContextExpires(e) PROVE Keeps
        BY <1>1, <2>3 DEF ContextExpires
  <2> QED BY <1>5, <2>1, <2>2, <2>3 DEF Environment
<1> QED BY <1>2, <1>3, <1>4, <1>5 DEF Next

\* For any number of workers, with or without Redis, and whatever fails: the
\* retry_count of a job passes maxRetry by less than the number of executors.
THEOREM RetryBounded == Spec => []RetryBound
<1>1. Init => Bookkeeping /\ RetryBudget
  <2> SUFFICES ASSUME Init PROVE Bookkeeping /\ RetryBudget
      OBVIOUS
  <2>1. Bookkeeping
        BY DEF Init, Bookkeeping
  <2>2. \A j \in Jobs : Deciders(j) = {} /\ retries[j] = 0
        BY DEF Init, Deciders
  <2>3. Cardinality({}) = 0
        BY FS_EmptySet
  <2>4. 0 + 0 <= MaxRetry + Cardinality(Executors) - 1
        BY ExecutorsFinite, ConstantsAssumption
  <2>5. RetryBudget
        BY <2>2, <2>3, <2>4 DEF RetryBudget
  <2> QED BY <2>1, <2>5
<1>2. TypeOK /\ RetryBudget => RetryBound
  <2> SUFFICES ASSUME TypeOK, RetryBudget, NEW j \in Jobs
               PROVE  retries[j] <= MaxRetry + Cardinality(Executors) - 1
      BY DEF RetryBound
  <2>1. retries[j] + Cardinality(Deciders(j)) <= MaxRetry + Cardinality(Executors) - 1
        BY DEF RetryBudget
  <2> QED BY <2>1, ExecutorsFinite, DecidersFinite, ConstantsAssumption DEF TypeOK
<1> QED BY <1>1, <1>2, TypeInit, TypeStep, BookkeepingStep, BudgetStep, PTL DEF Spec

-----------------------------------------------------------------------------
(* Without Redis every executor is a poller, and a claim takes a job from  *)
(* the queue: from then until the row is written back, nobody else reads   *)
(* or writes it.                                                           *)

LEMMA OnlyPollers ==
    ASSUME ~RedisUp, NEW e \in Executors PROVE Poller(e)
BY DEF Executors, Kinds, Poller

Exclusive ==
    \A e \in Executors : \A j \in claimed[e] :
        /\ status[j] = "running"
        /\ \A f \in Executors : j \in claimed[f] => f = e

LEMMA ExclusiveStep ==
    ASSUME ~RedisUp, TypeOK, Bookkeeping, BulkFresh, Exclusive, [Next]_vars
    PROVE  Exclusive'
<1> USE DEF jobVars, execVars
<1>1. ASSUME UNCHANGED <<status, claimed>> PROVE Exclusive'
      BY <1>1 DEF Exclusive
<1>2. CASE UNCHANGED vars
      BY <1>1, <1>2 DEF vars
<1>3. ASSUME NEW j \in Jobs, status[j] = "absent", UNCHANGED claimed,
             \A k \in Jobs \ {j} : status'[k] = status[k]
      PROVE  Exclusive'
      BY <1>3 DEF Exclusive, TypeOK
<1>4. CASE Server
  <2>1. ASSUME NEW j \in Jobs, ApplyToDevice(j) PROVE Exclusive'
        BY <1>3, <2>1 DEF ApplyToDevice, InsertQueued, TypeOK
  <2>2. ASSUME NEW b \in Batches, StartBulk(b) \/ BulkAbort(b) \/ Approve(b)
        PROVE  Exclusive'
        BY <1>1, <2>2 DEF StartBulk, BulkAbort, Approve
  <2>3. ASSUME NEW b \in Batches, NEW j \in Jobs, BulkQueue(b, j) \/ BulkReject(b, j)
        PROVE  Exclusive'
    <3>1. status[j] = "absent"
          BY <2>3 DEF BulkQueue, BulkReject, BulkFresh
    <3> QED BY <1>3, <2>3, <3>1 DEF BulkQueue, BulkReject, InsertQueued, TypeOK
  <2> QED BY <1>4, <2>1, <2>2, <2>3 DEF Server
<1>5. ASSUME NEW e \in Executors, Worker(e) PROVE Exclusive'
  <2>1. CASE ClaimBatch(e)
    <3>1. PICK S \in AtMost(Claimable, BatchSize) :
              /\ status'  = [j \in Jobs |-> IF j \in S THEN "running" ELSE status[j]]
              /\ claimed' = [claimed EXCEPT ![e] = S]
          BY <2>1 DEF ClaimBatch
    <3>2. \A j \in S : j \in Jobs /\ status[j] = "queued"
          BY DEF AtMost, Claimable
    <3>3. \A f \in Executors : claimed[f] \subseteq Jobs /\ claimed[f] \cap S = {}
          BY <3>2 DEF Exclusive, TypeOK
    <3> QED BY <3>1, <3>2, <3>3 DEF Exclusive, TypeOK
  <2>2. ~ConsumeProvisioning(e) /\ \A j \in Jobs : ~Fetch(e, j)
        BY OnlyPollers DEF ConsumeProvisioning, Fetch
  <2>3. ASSUME NEW j \in Jobs, Send(e, j) PROVE Exclusive'
        BY <1>1, <2>3 DEF Send
  <2>4. CASE MarkDone(e) \/ MarkFailed(e) \/ MarkFailedLost(e)
    <3>1. pc[e] = "mark" /\ claimed' = [claimed EXCEPT ![e] = @ \ {cur[e]}]
          BY <2>4 DEF MarkDone, MarkFailed, MarkFailedLost, Written
    <3>2. cur[e] \in claimed[e] /\ cur[e] \in Jobs
          BY <3>1 DEF Bookkeeping, TypeOK
    <3>3. \A k \in Jobs \ {cur[e]} : status'[k] = status[k]
          BY <2>4 DEF MarkDone, MarkFailed, MarkFailedLost, TypeOK
    <3>4. \A f \in Executors : claimed'[f] \subseteq claimed[f] \ {cur[e]}
          BY <3>1, <3>2 DEF Exclusive, TypeOK
    <3> QED BY <3>3, <3>4 DEF Exclusive, TypeOK
  <2>5. CASE MarkDoneFails(e)
        BY <1>1, <2>5 DEF MarkDoneFails
  <2>6. CASE TakeSnapshot(e) \/ Recount(e) \/ SkipRecount(e)
        BY <1>1, <2>6 DEF TakeSnapshot, Recount, SkipRecount, EndRun
  <2> QED BY <1>5, <2>1, <2>2, <2>3, <2>4, <2>5, <2>6 DEF Worker, RunJob
<1>6. CASE Environment
  <2>1. ASSUME NEW w \in Workers, Crash(w) PROVE Exclusive'
        BY <2>1 DEF Crash, Restarted, Exclusive
  <2>2. ASSUME NEW j \in Jobs, BackoffElapses(j) PROVE Exclusive'
        BY <1>1, <2>2 DEF BackoffElapses
  <2>3. ASSUME NEW e \in Executors, ContextExpires(e) PROVE Exclusive'
        BY <1>1, <2>3 DEF ContextExpires
  <2> QED BY <1>6, <2>1, <2>2, <2>3 DEF Environment
<1> QED BY <1>2, <1>4, <1>5, <1>6 DEF Next

\* An executor holds rows that are there.
HeldExist == \A e \in Executors : \A j \in claimed[e] : status[j] # "absent"

LEMMA HeldExistStep ==
    ASSUME TypeOK, Bookkeeping, HeldExist, [Next]_vars
    PROVE  HeldExist'
<1> USE DEF jobVars, execVars
<1>1. \A j \in Jobs : status[j] # "absent" => status'[j] # "absent"
  <2>1. CASE UNCHANGED status
        BY <2>1
  <2>2. CASE Server
        BY <2>2, ZenonT(60) DEF Server, ApplyToDevice, StartBulk, BulkAbort, Approve, BulkQueue,
           BulkReject, InsertQueued, TypeOK
  <2>3. ASSUME NEW e \in Executors, Worker(e)
        PROVE  \A j \in Jobs : status[j] # "absent" => status'[j] # "absent"
        BY <2>3 DEF Worker, RunJob, ClaimBatch, ConsumeProvisioning, Fetch, Send, MarkDone,
           MarkDoneFails, MarkFailed, MarkFailedLost, TakeSnapshot, Recount, SkipRecount, EndRun, TypeOK
  <2>4. CASE Environment \/ UNCHANGED vars
        BY <2>1, <2>4 DEF Environment, BackoffElapses, ContextExpires, Crash, vars
  <2> QED BY <2>2, <2>3, <2>4 DEF Next
<1>2. \A e \in Executors : \A j \in claimed'[e] : j \in claimed[e] \/ status'[j] # "absent"
  <2>1. CASE UNCHANGED claimed
        BY <2>1
  <2>2. CASE Server
        BY <2>2, <2>1 DEF Server, ApplyToDevice, StartBulk, BulkAbort, Approve, BulkQueue,
           BulkReject
  <2>3. ASSUME NEW e \in Executors, ClaimBatch(e)
        PROVE  \A f \in Executors :
                   \A j \in claimed'[f] : j \in claimed[f] \/ status'[j] # "absent"
    <3>1. PICK S \in AtMost(Claimable, BatchSize) :
              /\ status'  = [j \in Jobs |-> IF j \in S THEN "running" ELSE status[j]]
              /\ claimed' = [claimed EXCEPT ![e] = S]
          BY <2>3 DEF ClaimBatch
    <3>2. S \subseteq Jobs
          BY DEF AtMost, Claimable
    <3> QED BY <3>1, <3>2 DEF TypeOK
  <2>4. ASSUME NEW e \in Executors, NEW k \in Jobs, Fetch(e, k)
        PROVE  \A f \in Executors :
                   \A j \in claimed'[f] : j \in claimed[f] \/ status'[j] # "absent"
    <3>1. UNCHANGED status
          BY <2>4 DEF Fetch
    <3>2. CASE UNCHANGED claimed
          BY <3>2
    <3>3. CASE claimed' = [claimed EXCEPT ![e] = {k}] /\ status[k] \in {"queued", "running"}
          BY <3>1, <3>3 DEF TypeOK
    <3> QED BY <2>4, <3>2, <3>3 DEF Fetch
  <2>5. ASSUME NEW e \in Executors, Worker(e), ~ClaimBatch(e), \A k \in Jobs : ~Fetch(e, k)
        PROVE  \A f \in Executors : claimed'[f] \subseteq claimed[f]
    <3>1. UNCHANGED claimed \/ claimed' = [claimed EXCEPT ![e] = @ \ {cur[e]}]
          BY <2>5 DEF Worker, RunJob, ConsumeProvisioning, Send, MarkDone, MarkDoneFails,
             MarkFailed, MarkFailedLost, Written, TakeSnapshot, Recount, SkipRecount, EndRun
    <3> QED BY <3>1, ZenonT(60) DEF TypeOK
  <2>6. CASE Environment \/ UNCHANGED vars
        BY <2>1, <2>6, ZenonT(60) DEF Environment, BackoffElapses, ContextExpires, Crash, Restarted, vars
  <2> QED BY <2>2, <2>3, <2>4, <2>5, <2>6 DEF Next
<1> QED BY <1>1, <1>2 DEF HeldExist, TypeOK

LEMMA BulkFreshStep ==
    ASSUME TypeOK, Bookkeeping, BulkFresh, HeldExist, [Next]_vars
    PROVE  BulkFresh'
<1> USE DEF jobVars, execVars
<1>1. ASSUME UNCHANGED <<todo, batch>>,
             \A j \in Jobs : status[j] = "absent" => status'[j] = "absent"
      PROVE  BulkFresh'
      BY <1>1 DEF BulkFresh, DevicesOf, TypeOK
<1>2. CASE UNCHANGED vars
      BY <1>1, <1>2 DEF vars
<1>3. CASE Server
  <2>1. ASSUME NEW j \in Jobs, ApplyToDevice(j) PROVE BulkFresh'
    <3>1. BatchOf[j] \notin Batches /\ UNCHANGED <<todo, batch>>
          BY <2>1, ConstantsAssumption DEF ApplyToDevice
    <3>2. \A k \in Jobs : BatchOf[k] \in Batches => status'[k] = status[k]
          BY <2>1, <3>1 DEF ApplyToDevice, InsertQueued, TypeOK
    <3> QED BY <3>1, <3>2 DEF BulkFresh, DevicesOf, TypeOK
  <2>2. ASSUME NEW b \in Batches, StartBulk(b) PROVE BulkFresh'
    <3>1. /\ batch[b].status = "absent"
          /\ batch'[b].status # "absent"
          /\ todo' = [todo EXCEPT ![b] = DevicesOf(b)]
          /\ UNCHANGED status
          /\ \A c \in Batches \ {b} : batch'[c] = batch[c]
          BY <2>2 DEF StartBulk, TypeOK
    <3>2. \A j \in DevicesOf(b) : BatchOf[j] = b /\ status[j] = "absent"
          BY <3>1 DEF BulkFresh, DevicesOf
    <3> QED BY <3>1, <3>2 DEF BulkFresh, DevicesOf, TypeOK
  <2>3. ASSUME NEW b \in Batches, BulkAbort(b) PROVE BulkFresh'
        BY <2>3 DEF BulkAbort, BulkFresh, DevicesOf, TypeOK
  <2>4. ASSUME NEW b \in Batches, Approve(b) PROVE BulkFresh'
    <3>1. batch'[b].status # "absent"
          BY <2>4 DEF Approve, TypeOK, BatchRow
    <3>2. \A c \in Batches \ {b} : batch'[c] = batch[c]
          BY <2>4 DEF Approve, TypeOK
    <3> QED BY <2>4, <3>1, <3>2 DEF Approve, BulkFresh, DevicesOf
  <2>5. ASSUME NEW b \in Batches, NEW j \in Jobs, BulkQueue(b, j) \/ BulkReject(b, j)
        PROVE  BulkFresh'
    <3>1. j \in todo[b] /\ todo' = [todo EXCEPT ![b] = @ \ {j}] /\ UNCHANGED batch
          BY <2>5 DEF BulkQueue, BulkReject
    <3>2. BatchOf[j] = b /\ batch[b].status # "absent"
          BY <3>1 DEF BulkFresh
    <3>3. \A k \in Jobs \ {j} : status'[k] = status[k]
          BY <2>5 DEF BulkQueue, BulkReject, InsertQueued, TypeOK
    <3> QED BY <3>1, <3>2, <3>3 DEF BulkFresh, DevicesOf, TypeOK
  <2> QED BY <1>3, <2>1, <2>2, <2>3, <2>4, <2>5 DEF Server
<1>4. ASSUME NEW e \in Executors, Worker(e) PROVE BulkFresh'
  <2>1. CASE ClaimBatch(e)
    <3>1. PICK S \in AtMost(Claimable, BatchSize) :
              status'  = [j \in Jobs |-> IF j \in S THEN "running" ELSE status[j]]
          BY <2>1 DEF ClaimBatch
    <3>2. \A j \in S : status[j] = "queued"
          BY DEF AtMost, Claimable
    <3> QED BY <1>1, <2>1, <3>1, <3>2 DEF ClaimBatch
  <2>2. ASSUME ConsumeProvisioning(e) \/ \E j \in Jobs : Fetch(e, j) PROVE BulkFresh'
        BY <1>1, <2>2 DEF ConsumeProvisioning, Fetch
  <2>3. ASSUME NEW j \in Jobs, Send(e, j) PROVE BulkFresh'
        BY <1>1, <2>3 DEF Send
  <2>4. CASE MarkDone(e) \/ MarkFailed(e) \/ MarkFailedLost(e)
    <3>1. pc[e] = "mark" /\ UNCHANGED <<todo, batch>>
          BY <2>4 DEF MarkDone, MarkFailed, MarkFailedLost
    <3>2. status[cur[e]] # "absent"
          BY <3>1 DEF Bookkeeping, HeldExist
    <3>3. \A k \in Jobs \ {cur[e]} : status'[k] = status[k]
          BY <2>4 DEF MarkDone, MarkFailed, MarkFailedLost, TypeOK
    <3> QED BY <1>1, <3>1, <3>2, <3>3
  <2>5. CASE MarkDoneFails(e)
        BY <1>1, <2>5 DEF MarkDoneFails
  <2>6. CASE TakeSnapshot(e) \/ SkipRecount(e)
        BY <1>1, <2>6 DEF TakeSnapshot, SkipRecount, EndRun
  <2>7. CASE Recount(e)
    <3>1. UNCHANGED <<todo, status>>
          BY <2>7 DEF Recount, EndRun
    <3>2. \A b \in Batches : batch'[b].status = "absent" => batch[b].status = "absent"
      <4>1. CASE UNCHANGED batch
            BY <4>1
      <4>2. CASE batch' = [batch EXCEPT ![BatchOf[cur[e]]] = [@ EXCEPT !.status = count[e].status,
                                            !.done = count[e].done]]
        <5>1. count[e].status # "absent"
              BY <2>7 DEF Recount, Bookkeeping
        <5> QED BY <4>2, <5>1 DEF TypeOK, BatchRow
      <4> QED BY <2>7, <4>1, <4>2 DEF Recount
    <3> QED BY <3>1, <3>2 DEF BulkFresh, DevicesOf
  <2> QED BY <1>4, <2>1, <2>2, <2>3, <2>4, <2>5, <2>6, <2>7 DEF Worker, RunJob
<1>5. CASE Environment
  <2>1. UNCHANGED <<status, todo, batch>>
        BY <1>5 DEF Environment, Crash, BackoffElapses, ContextExpires
  <2> QED BY <1>1, <2>1
<1> QED BY <1>2, <1>3, <1>4, <1>5 DEF Next

LEMMA PushBudgetStep ==
    ASSUME ~RedisUp, TypeOK, Bookkeeping, BulkFresh, Exclusive, PushBudget, [Next]_vars,
           \A j \in Jobs : status[j] = "absent" => sends[j] = 0
    PROVE  PushBudget' /\ \A j \in Jobs : status'[j] = "absent" => sends'[j] = 0
<1> DEFINE Fresh == \A j \in Jobs : status[j] = "absent" => sends[j] = 0
           Good == PushBudget' /\ Fresh'
<1> SUFFICES Good
    OBVIOUS
<1> USE DEF jobVars, execVars
<1>1. CASE UNCHANGED vars
      BY <1>1 DEF vars, PushBudget, ReadIsCurrent, QueuedBudget, RunBudget
<1>2. ASSUME NEW j \in Jobs, status[j] = "absent",
             \A k \in Jobs \ {j} : status'[k] = status[k],
             UNCHANGED <<retries, claimed, seen, pc, cur, outcome, sends>>
      PROVE  Good
      BY <1>2, ConstantsAssumption DEF PushBudget, ReadIsCurrent, QueuedBudget, RunBudget, TypeOK
<1>3. ASSUME UNCHANGED <<status, retries, claimed, seen, pc, cur, outcome, sends>>
      PROVE  Good
      BY <1>3 DEF PushBudget, ReadIsCurrent, QueuedBudget, RunBudget
<1>4. CASE Server
  <2>1. ASSUME NEW j \in Jobs, ApplyToDevice(j) PROVE Good
        BY <1>2, <2>1 DEF ApplyToDevice, InsertQueued, TypeOK
  <2>2. ASSUME NEW b \in Batches, StartBulk(b) \/ BulkAbort(b) \/ Approve(b) PROVE Good
        BY <1>3, <2>2 DEF StartBulk, BulkAbort, Approve
  <2>3. ASSUME NEW b \in Batches, NEW j \in Jobs, BulkQueue(b, j) \/ BulkReject(b, j)
        PROVE  Good
    <3>1. status[j] = "absent"
          BY <2>3 DEF BulkQueue, BulkReject, BulkFresh
    <3> QED BY <1>2, <2>3, <3>1 DEF BulkQueue, BulkReject, InsertQueued, TypeOK
  <2> QED BY <1>4, <2>1, <2>2, <2>3 DEF Server
<1>5. ASSUME NEW e \in Executors, Worker(e) PROVE Good
  <2>1. CASE ClaimBatch(e)
    <3>1. PICK S \in AtMost(Claimable, BatchSize) :
              /\ status'  = [j \in Jobs |-> IF j \in S THEN "running" ELSE status[j]]
              /\ claimed' = [claimed EXCEPT ![e] = S]
              /\ seen'    = [seen EXCEPT ![e] =
                               [j \in Jobs |-> IF j \in S THEN retries[j] ELSE @[j]]]
          BY <2>1 DEF ClaimBatch
    <3>2. \A j \in S : j \in Jobs /\ status[j] = "queued"
          BY DEF AtMost, Claimable
    <3>3. /\ pc[e] = "ready" /\ claimed[e] = {}
          /\ UNCHANGED <<retries, pc, cur, outcome, sends>>
          BY <2>1 DEF ClaimBatch, Idle
    <3>4. /\ \A f \in Executors \ {e} : claimed'[f] = claimed[f] /\ seen'[f] = seen[f]
          /\ claimed'[e] = S /\ \A j \in S : seen'[e][j] = retries[j]
          BY <3>1, <3>2 DEF TypeOK
    <3>5. \A f \in Executors : \A j \in claimed'[f] : seen'[f][j] = retries'[j]
          BY <3>3, <3>4 DEF PushBudget, ReadIsCurrent, QueuedBudget, RunBudget
    <3>6. \A j \in Jobs : /\ retries'[j] <= MaxRetry
                          /\ status'[j] = "queued" => sends'[j] <= retries'[j]
          BY <3>1, <3>3 DEF PushBudget, ReadIsCurrent, QueuedBudget, RunBudget
    <3>7. ASSUME NEW f \in Executors, NEW j \in claimed'[f]
          PROVE  IF pc'[f] = "mark" /\ cur'[f] = j
                 THEN /\ sends'[j] <= retries'[j] + 1
                      /\ outcome'[f] = "ok" => sends'[j] > 0
                 ELSE sends'[j] <= retries'[j]
      <4>1. CASE f = e
            BY <3>2, <3>3, <3>4, <3>7, <4>1 DEF PushBudget, ReadIsCurrent, QueuedBudget, RunBudget
      <4>2. CASE f # e
            BY <3>3, <3>4, <3>7, <4>2 DEF PushBudget, ReadIsCurrent, QueuedBudget, RunBudget
      <4> QED BY <4>1, <4>2
    <3>8. PushBudget'
      <4>1. ReadIsCurrent'
            BY <3>5 DEF ReadIsCurrent
      <4>2. QueuedBudget'
            BY <3>6 DEF QueuedBudget
      <4>3. RunBudget'
            BY <3>7 DEF RunBudget
      <4> QED BY <4>1, <4>2, <4>3 DEF PushBudget
    <3>9. Fresh'
          BY <3>1, <3>3
    <3> QED BY <3>8, <3>9
  <2>2. ~ConsumeProvisioning(e) /\ \A j \in Jobs : ~Fetch(e, j)
        BY OnlyPollers DEF ConsumeProvisioning, Fetch
  <2>3. ASSUME NEW j \in Jobs, Send(e, j) PROVE Good
    <3>1. /\ pc[e] = "ready" /\ j \in claimed[e] /\ status[j] = "running"
          /\ pc' = [pc EXCEPT ![e] = "mark"] /\ cur' = [cur EXCEPT ![e] = j]
          /\ UNCHANGED <<status, retries, claimed, seen>>
          BY <2>3 DEF Send, Exclusive
    <3>2. /\ \A f \in Executors \ {e} : outcome'[f] = outcome[f]
          /\ \/ sends' = sends /\ outcome'[e] # "ok"
             \/ sends' = [sends EXCEPT ![j] = @ + 1]
          BY <2>3 DEF Send, TypeOK
    <3>3. /\ \A k \in Jobs \ {j} : sends'[k] = sends[k]
          /\ sends'[j] \in Nat /\ sends[j] <= sends'[j] /\ sends'[j] <= sends[j] + 1
          /\ outcome'[e] = "ok" => sends'[j] > 0
          BY <3>2 DEF TypeOK
    <3>4. sends[j] <= retries[j]
          BY <3>1 DEF PushBudget, ReadIsCurrent, QueuedBudget, RunBudget
    <3>5. sends'[j] <= retries[j] + 1
          BY <3>3, <3>4 DEF TypeOK
    <3>6. \A k \in Jobs : status'[k] = "queued" => sends'[k] <= retries'[k]
          BY <3>1, <3>3 DEF PushBudget, ReadIsCurrent, QueuedBudget, RunBudget, TypeOK
    <3>7. ASSUME NEW f \in Executors, NEW k \in claimed'[f]
          PROVE  IF pc'[f] = "mark" /\ cur'[f] = k
                 THEN /\ sends'[k] <= retries'[k] + 1
                      /\ outcome'[f] = "ok" => sends'[k] > 0
                 ELSE sends'[k] <= retries'[k]
      <4>0. k \in claimed[f] /\ k \in Jobs
            BY <3>1 DEF TypeOK
      <4>1. CASE f = e /\ k = j
            BY <3>1, <3>3, <3>5, <4>1 DEF TypeOK
      <4>2. CASE f = e /\ k # j
        <5>1. sends[k] <= retries[k]
              BY <3>1, <4>0, <4>2 DEF PushBudget, ReadIsCurrent, QueuedBudget, RunBudget
        <5> QED BY <3>1, <3>3, <4>0, <4>2, <5>1 DEF TypeOK
      <4>3. CASE f # e
        <5>1. k # j
              BY <3>1, <4>0, <4>3 DEF Exclusive
        <5>2. pc'[f] = pc[f] /\ cur'[f] = cur[f] /\ outcome'[f] = outcome[f]
              BY <3>1, <3>2, <4>3 DEF TypeOK
        <5> QED BY <3>1, <3>3, <4>0, <5>1, <5>2 DEF PushBudget, ReadIsCurrent, QueuedBudget, RunBudget
      <4> QED BY <4>1, <4>2, <4>3
    <3>8. PushBudget'
      <4>1. ReadIsCurrent'
            BY <3>1 DEF PushBudget, ReadIsCurrent
      <4>2. QueuedBudget'
            BY <3>1, <3>6 DEF PushBudget, QueuedBudget
      <4>3. RunBudget'
            BY <3>7 DEF RunBudget
      <4> QED BY <4>1, <4>2, <4>3 DEF PushBudget
    <3>9. Fresh'
          BY <3>1, <3>3
    <3> QED BY <3>8, <3>9
  <2>4. CASE MarkDone(e) \/ MarkFailed(e) \/ MarkFailedLost(e)
    <3> DEFINE c == cur[e]
    <3>1. /\ pc[e] = "mark" /\ Written(e) /\ UNCHANGED sends
          /\ c \in claimed[e] /\ c \in Jobs
          BY <2>4 DEF MarkDone, MarkFailed, MarkFailedLost, Bookkeeping, TypeOK
    <3>2. /\ status[c] = "running" /\ seen[e][c] = retries[c]
          /\ sends[c] <= retries[c] + 1
          BY <3>1 DEF Exclusive, PushBudget, ReadIsCurrent, QueuedBudget, RunBudget
    <3>3. /\ \A k \in Jobs \ {c} : status'[k] = status[k] /\ retries'[k] = retries[k]
          /\ status'[c] # "absent"
          BY <2>4, <3>1, <3>2 DEF MarkDone, MarkFailed, MarkFailedLost, TypeOK
    <3>4. \/ retries'[c] = retries[c] /\ status'[c] # "queued"
          \/ retries'[c] = retries[c] + 1 /\ retries[c] + 1 <= MaxRetry
          BY <2>4, <3>1, <3>2 DEF MarkDone, MarkFailed, MarkFailedLost, MayRetry, TypeOK
    <3>5. \A j \in Jobs : /\ retries'[j] <= MaxRetry
                          /\ status'[j] = "queued" => sends'[j] <= retries'[j]
          BY <3>1, <3>2, <3>3, <3>4, SMTT(60) DEF PushBudget, ReadIsCurrent, QueuedBudget, RunBudget, TypeOK
    <3>6. /\ \A f \in Executors : claimed'[f] \subseteq claimed[f] \ {c}
          /\ \A f \in Executors \ {e} : pc'[f] = pc[f] /\ outcome'[f] = outcome[f]
          /\ UNCHANGED cur
          /\ pc'[e] = "recount"
          BY <3>1 DEF Written, Exclusive, TypeOK
    <3>7. \A f \in Executors : \A k \in Jobs \ {c} : seen'[f][k] = seen[f][k]
      <4>1. seen' = [seen EXCEPT ![e] = [@ EXCEPT ![c] = 0]]
            BY <3>1 DEF Written
      <4>2. \A k \in Jobs \ {c} : [seen[e] EXCEPT ![c] = 0][k] = seen[e][k]
            BY DEF TypeOK
      <4> QED BY <4>1, <4>2 DEF TypeOK
    <3>8. ASSUME NEW f \in Executors, NEW k \in claimed'[f]
          PROVE  /\ seen'[f][k] = retries'[k]
                 /\ IF pc'[f] = "mark" /\ cur'[f] = k
                    THEN /\ sends'[k] <= retries'[k] + 1
                         /\ outcome'[f] = "ok" => sends'[k] > 0
                    ELSE sends'[k] <= retries'[k]
      <4>1. k \in claimed[f] /\ k \in Jobs \ {c}
            BY <3>6 DEF TypeOK
      <4>2. /\ retries'[k] = retries[k] /\ sends'[k] = sends[k]
            /\ seen'[f][k] = seen[f][k]
            BY <3>1, <3>3, <3>7, <4>1
      <4>3. CASE f = e
            BY <3>1, <3>6, <4>1, <4>2, <4>3 DEF PushBudget, ReadIsCurrent, QueuedBudget, RunBudget
      <4>4. CASE f # e
            BY <3>6, <4>1, <4>2, <4>4 DEF PushBudget, ReadIsCurrent, QueuedBudget, RunBudget
      <4> QED BY <4>3, <4>4
    <3>9. PushBudget'
      <4>1. ReadIsCurrent'
            BY <3>8 DEF ReadIsCurrent
      <4>2. QueuedBudget'
            BY <3>5 DEF QueuedBudget
      <4>3. RunBudget'
            BY <3>8 DEF RunBudget
      <4> QED BY <4>1, <4>2, <4>3 DEF PushBudget
    <3>10. Fresh'
          BY <3>1, <3>3
    <3> QED BY <3>9, <3>10
  <2>5. CASE MarkDoneFails(e)
    <3>1. /\ UNCHANGED <<status, retries, claimed, seen, pc, cur, sends>>
          /\ outcome' = [outcome EXCEPT ![e] = "retry"]
          BY <2>5 DEF MarkDoneFails
    <3> QED BY <3>1 DEF PushBudget, ReadIsCurrent, QueuedBudget, RunBudget, TypeOK
  <2>6. CASE TakeSnapshot(e) \/ Recount(e) \/ SkipRecount(e)
    <3>1. /\ UNCHANGED <<status, retries, claimed, seen, sends>>
          /\ pc[e] # "mark" /\ pc'[e] # "mark"
          /\ \A f \in Executors \ {e} :
                pc'[f] = pc[f] /\ cur'[f] = cur[f] /\ outcome'[f] = outcome[f]
          BY <2>6 DEF TakeSnapshot, Recount, SkipRecount, EndRun, TypeOK
    <3>2. ASSUME NEW f \in Executors, NEW k \in claimed'[f]
          PROVE  IF pc'[f] = "mark" /\ cur'[f] = k
                 THEN /\ sends'[k] <= retries'[k] + 1
                      /\ outcome'[f] = "ok" => sends'[k] > 0
                 ELSE sends'[k] <= retries'[k]
      <4>1. CASE f = e
            BY <3>1, <3>2, <4>1 DEF PushBudget, ReadIsCurrent, QueuedBudget, RunBudget
      <4>2. CASE f # e
            BY <3>1, <3>2, <4>2 DEF PushBudget, ReadIsCurrent, QueuedBudget, RunBudget
      <4> QED BY <4>1, <4>2
    <3>3. PushBudget'
          BY <3>1, <3>2 DEF PushBudget, ReadIsCurrent, QueuedBudget, RunBudget
    <3> QED BY <3>1, <3>3
  <2> QED BY <1>5, <2>1, <2>2, <2>3, <2>4, <2>5, <2>6 DEF Worker, RunJob
<1>6. CASE Environment
  <2>1. ASSUME NEW w \in Workers, Crash(w) PROVE Good
    <3>1. /\ UNCHANGED <<status, retries, sends>>
          /\ claimed' = [f \in Executors |-> IF f[1] = w THEN {} ELSE claimed[f]]
          /\ \A f \in Executors : f[1] # w =>
                /\ seen'[f] = seen[f] /\ pc'[f] = pc[f] /\ cur'[f] = cur[f]
                /\ outcome'[f] = outcome[f]
          BY <2>1 DEF Crash, Restarted
    <3>2. ASSUME NEW f \in Executors, NEW k \in claimed'[f]
          PROVE  /\ f[1] # w /\ k \in claimed[f]
                 /\ seen'[f] = seen[f] /\ pc'[f] = pc[f] /\ cur'[f] = cur[f]
                 /\ outcome'[f] = outcome[f]
          BY <3>1, <3>2
    <3>3. PushBudget'
          BY <3>1, <3>2 DEF PushBudget, ReadIsCurrent, QueuedBudget, RunBudget
    <3> QED BY <3>1, <3>3
  <2>2. ASSUME NEW j \in Jobs, BackoffElapses(j) PROVE Good
        BY <1>3, <2>2 DEF BackoffElapses
  <2>3. ASSUME NEW e \in Executors, ContextExpires(e) PROVE Good
        BY <1>3, <2>3 DEF ContextExpires
  <2> QED BY <1>6, <2>1, <2>2, <2>3 DEF Environment
<1> QED BY <1>1, <1>4, <1>5, <1>6 DEF Next

Fresh == \A j \in Jobs : status[j] = "absent" => sends[j] = 0

\* What polling alone keeps; each part needs the others to be inductive.
PollOnly == ~RedisUp => BulkFresh /\ Exclusive /\ PushBudget /\ Fresh

LEMMA PollOnlyInit == Init => PollOnly
<1> SUFFICES ASSUME Init PROVE BulkFresh /\ Exclusive /\ PushBudget /\ Fresh
    BY DEF PollOnly
<1>1. BulkFresh
      BY DEF Init, BulkFresh, DevicesOf
<1>2. Exclusive
      BY DEF Init, Exclusive
<1>3. PushBudget
      BY ConstantsAssumption
      DEF Init, PushBudget, ReadIsCurrent, QueuedBudget, RunBudget
<1>4. Fresh
      BY DEF Init, Fresh
<1> QED BY <1>1, <1>2, <1>3, <1>4

LEMMA PollOnlyStep ==
    TypeOK /\ Bookkeeping /\ PollOnly /\ [Next]_vars => PollOnly'
<1> SUFFICES ASSUME TypeOK, Bookkeeping, PollOnly, [Next]_vars, ~RedisUp
             PROVE  BulkFresh' /\ Exclusive' /\ PushBudget' /\ Fresh'
    BY DEF PollOnly
<1>1. BulkFresh /\ Exclusive /\ PushBudget /\ Fresh
      BY DEF PollOnly
<1>2. BulkFresh'
  <2>1. HeldExist
        BY <1>1 DEF Exclusive, HeldExist
  <2> QED BY <1>1, <2>1, BulkFreshStep
<1>3. Exclusive'
      BY <1>1, ExclusiveStep
<1>4. PushBudget' /\ Fresh'
      BY <1>1, PushBudgetStep DEF Fresh
<1> QED BY <1>2, <1>3, <1>4

\* For any number of workers that only poll, and whatever fails: no job is in
\* the hands of two executors, and the row of a job being run says "running".
THEOREM ExecutionExclusive == Spec => []ExclusiveExecution
<1>1. PollOnly => ExclusiveExecution
      BY DEF PollOnly, Exclusive, ExclusiveExecution
<1>2. Init => Bookkeeping
      BY DEF Init, Bookkeeping
<1> QED BY <1>1, <1>2, TypeInit, TypeStep, BookkeepingStep, PollOnlyInit,
           PollOnlyStep, PTL DEF Spec

-----------------------------------------------------------------------------
(* The polling queue implements JobPromise.  A step moves at most one job  *)
(* of the abstract state, or none: a claim, a retry and a crash are        *)
(* stuttering steps.                                                       *)

Mapped == [j \in Jobs |-> PromiseState(status[j])]

LEMMA MappedStutter ==
    ASSUME TypeOK, \A j \in Jobs : PromiseState(status'[j]) = PromiseState(status[j])
    PROVE  Mapped' = Mapped
BY DEF Mapped

LEMMA MappedMove ==
    ASSUME TypeOK, NEW j \in Jobs, \A k \in Jobs \ {j} : status'[k] = status[k],
           NEW from, NEW to,
           PromiseState(status[j]) = from, PromiseState(status'[j]) = to,
           UNCHANGED sends
    PROVE  Promise!Move(j, from, to)
<1>1. Mapped[j] = from
      BY DEF Mapped
<1>2. Mapped' = [Mapped EXCEPT ![j] = to]
      BY DEF Mapped
<1> QED BY <1>1, <1>2 DEF Promise!Move, Mapped

LEMMA PromiseStep ==
    ASSUME ~RedisUp, TypeOK, Bookkeeping, PollOnly, [Next]_vars
    PROVE  [Promise!Next]_<<Mapped, sends>>
<1> DEFINE Step == Promise!Next \/ UNCHANGED <<Mapped, sends>>
<1> SUFFICES Step
    OBVIOUS
<1> USE DEF jobVars, execVars
<1>0. BulkFresh /\ Exclusive /\ PushBudget
      BY DEF PollOnly
<1>1. ASSUME UNCHANGED <<status, sends>> PROVE Step
      BY <1>1 DEF Mapped
<1>2. CASE UNCHANGED vars
      BY <1>1, <1>2 DEF vars
<1>3. ASSUME NEW j \in Jobs, status[j] = "absent", UNCHANGED sends,
             status' = status \/ status' = [status EXCEPT ![j] = "queued"]
                              \/ status' = [status EXCEPT ![j] = "failed"]
      PROVE  Step
  <2>1. CASE status' = status
        BY <1>1, <1>3, <2>1
  <2>2. CASE status' = [status EXCEPT ![j] = "queued"]
    <3>1. PromiseState(status[j]) = "new" /\ PromiseState(status'[j]) = "pending"
          BY <1>3, <2>2 DEF PromiseState, TypeOK
    <3>2. Promise!Move(j, "new", "pending")
          BY <1>3, <2>2, <3>1, MappedMove DEF TypeOK
    <3> QED BY <3>2 DEF Promise!Next, Promise!Enqueue
  <2>3. CASE status' = [status EXCEPT ![j] = "failed"]
    <3>1. PromiseState(status[j]) = "new" /\ PromiseState(status'[j]) = "failed"
          BY <1>3, <2>3 DEF PromiseState, TypeOK
    <3>2. Promise!Move(j, "new", "failed")
          BY <1>3, <2>3, <3>1, MappedMove DEF TypeOK
    <3> QED BY <3>2 DEF Promise!Next, Promise!Refuse
  <2> QED BY <1>3, <2>1, <2>2, <2>3
<1>4. CASE Server
  <2>1. ASSUME NEW j \in Jobs, ApplyToDevice(j) PROVE Step
        BY <1>3, <2>1 DEF ApplyToDevice, InsertQueued
  <2>2. ASSUME NEW b \in Batches, StartBulk(b) \/ BulkAbort(b) \/ Approve(b) PROVE Step
        BY <1>1, <2>2 DEF StartBulk, BulkAbort, Approve
  <2>3. ASSUME NEW b \in Batches, NEW j \in Jobs, BulkQueue(b, j) \/ BulkReject(b, j)
        PROVE  Step
    <3>1. status[j] = "absent"
          BY <1>0, <2>3 DEF BulkQueue, BulkReject, BulkFresh
    <3> QED BY <1>3, <2>3, <3>1 DEF BulkQueue, BulkReject, InsertQueued
  <2> QED BY <1>4, <2>1, <2>2, <2>3 DEF Server
<1>5. ASSUME NEW e \in Executors, Worker(e) PROVE Step
  <2> DEFINE c == cur[e]
  <2>1. CASE ClaimBatch(e)
    <3>1. PICK S \in AtMost(Claimable, BatchSize) :
              status' = [j \in Jobs |-> IF j \in S THEN "running" ELSE status[j]]
          BY <2>1 DEF ClaimBatch
    <3>2. \A j \in S : status[j] = "queued"
          BY DEF AtMost, Claimable
    <3>3. \A j \in Jobs : PromiseState(status'[j]) = PromiseState(status[j])
          BY <3>1, <3>2 DEF PromiseState
    <3> QED BY <2>1, <3>3, MappedStutter DEF ClaimBatch
  <2>2. ~ConsumeProvisioning(e) /\ \A j \in Jobs : ~Fetch(e, j)
        BY OnlyPollers DEF ConsumeProvisioning, Fetch
  <2>3. ASSUME NEW j \in Jobs, Send(e, j) PROVE Step
    <3>1. /\ pc[e] = "ready" /\ j \in claimed[e] /\ UNCHANGED status
          /\ sends' = sends \/ sends' = [sends EXCEPT ![j] = @ + 1]
          BY <2>3 DEF Send
    <3>2. CASE sends' = sends
          BY <1>1, <3>1, <3>2
    <3>3. CASE sends' = [sends EXCEPT ![j] = @ + 1]
      <4>1. status[j] = "running"
            BY <1>0, <3>1 DEF Exclusive
      <4>2. sends[j] <= retries[j]
            BY <1>0, <3>1 DEF PushBudget, RunBudget
      <4>3. retries[j] <= MaxRetry
            BY <1>0 DEF PushBudget, QueuedBudget
      <4>4. sends[j] < MaxRetry + 1
            BY <4>2, <4>3, ConstantsAssumption DEF TypeOK
      <4>5. Mapped[j] = "pending" /\ Mapped' = Mapped
            BY <3>1, <4>1 DEF Mapped, PromiseState
      <4>6. Promise!Push(j)
            BY <3>3, <4>4, <4>5 DEF Promise!Push, Mapped
      <4> QED BY <4>6 DEF Promise!Next
    <3> QED BY <3>1, <3>2, <3>3
  <2>4. ASSUME pc[e] = "mark"
        PROVE  c \in claimed[e] /\ c \in Jobs /\ PromiseState(status[c]) = "pending"
        BY <1>0, <2>4 DEF Bookkeeping, Exclusive, PromiseState, TypeOK
  <2>5. CASE MarkDone(e)
    <3>1. /\ pc[e] = "mark" /\ outcome[e] = "ok" /\ UNCHANGED sends
          /\ status' = [status EXCEPT ![c] = "done"]
          BY <2>5 DEF MarkDone
    <3>2. PromiseState(status'[c]) = "done"
          BY <2>4, <3>1 DEF PromiseState, TypeOK
    <3>3. Promise!Move(c, "pending", "done")
          BY <2>4, <3>1, <3>2, MappedMove DEF TypeOK
    <3>4. sends[c] > 0
          BY <1>0, <2>4, <3>1 DEF PushBudget, RunBudget
    <3> QED BY <2>4, <3>1, <3>3, <3>4 DEF Promise!Next, Promise!Finish
  <2>6. CASE MarkFailed(e)
    <3>1. /\ pc[e] = "mark" /\ UNCHANGED sends
          /\ \/ status' = [status EXCEPT ![c] = "queued"]
             \/ status' = [status EXCEPT ![c] = "failed"]
          BY <2>6 DEF MarkFailed
    <3>2. CASE status' = [status EXCEPT ![c] = "queued"]
      <4>1. \A j \in Jobs : PromiseState(status'[j]) = PromiseState(status[j])
            BY <2>4, <3>1, <3>2 DEF PromiseState, TypeOK
      <4> QED BY <3>1, <4>1, MappedStutter
    <3>3. CASE status' = [status EXCEPT ![c] = "failed"]
      <4>1. PromiseState(status'[c]) = "failed"
            BY <2>4, <3>1, <3>3 DEF PromiseState, TypeOK
      <4>2. Promise!Move(c, "pending", "failed")
            BY <2>4, <3>1, <3>3, <4>1, MappedMove DEF TypeOK
      <4> QED BY <2>4, <3>1, <4>2 DEF Promise!Next, Promise!GiveUp
    <3> QED BY <3>1, <3>2, <3>3
  <2>7. CASE \/ MarkDoneFails(e) \/ MarkFailedLost(e)
             \/ TakeSnapshot(e) \/ Recount(e) \/ SkipRecount(e)
        BY <1>1, <2>7 DEF MarkDoneFails, MarkFailedLost, TakeSnapshot, Recount, SkipRecount,
           EndRun
  <2> QED BY <1>5, <2>1, <2>2, <2>3, <2>5, <2>6, <2>7 DEF Worker, RunJob
<1>6. CASE Environment
  <2>1. UNCHANGED <<status, sends>>
        BY <1>6 DEF Environment, Crash, BackoffElapses, ContextExpires
  <2> QED BY <1>1, <2>1
<1> QED BY <1>2, <1>4, <1>5, <1>6 DEF Next

LEMMA PromiseInit == Init => Promise!Init
BY DEF Init, Promise!Init, PromiseState

\* For any number of workers that only poll, and whatever fails: the queue
\* implements JobPromise, so a job is pushed at most 1 + maxRetry times, is done
\* only if a push went through, and keeps its final state.
THEOREM PromiseKept == ASSUME ~RedisUp PROVE Spec => KeepsPromise
<1>1. Init => Bookkeeping
      BY DEF Init, Bookkeeping
<1>2. TypeOK /\ Bookkeeping /\ PollOnly /\ [Next]_vars
         => [Promise!Next]_<<Mapped, sends>>
      BY PromiseStep
<1> QED BY <1>1, <1>2, TypeInit, TypeStep, BookkeepingStep, PollOnlyInit,
           PollOnlyStep, PromiseInit, PTL DEF Spec, KeepsPromise, Promise!Spec, Mapped

-----------------------------------------------------------------------------
(* The counter of done jobs, with and without Redis: what makes it wrong   *)
(* moves the executor that did it to its recount.                          *)

\* Contexts expire by faults only.
Punctual == faults = 0 => \A e \in Executors : ~expired[e]

\* An executor of b is about to recount.
Recounting(b) == \E e \in Executors : pc[e] = "recount" /\ BatchOf[cur[e]] = b

LEMMA PunctualStep ==
    ASSUME TypeOK, Punctual, [Next]_vars, faults' = 0
    PROVE  faults = 0 /\ Punctual'
<1> USE DEF jobVars, execVars
<1>1. faults' = faults \/ faults' = faults + 1
      BY ZenonT(60) DEF Next, Server, Worker, RunJob, Environment, vars, ApplyToDevice, StartBulk,
         BulkAbort, Approve, BulkQueue, BulkReject, ClaimBatch, ConsumeProvisioning, Fetch,
         Send, MarkDone, MarkDoneFails, MarkFailed, MarkFailedLost, TakeSnapshot, Recount, SkipRecount,
         EndRun, BackoffElapses, ContextExpires, Crash, Fault, LostWrite
<1>2. faults = 0 /\ faults' = faults
      BY <1>1 DEF TypeOK
<1>3. \A e \in Executors : expired'[e] => expired[e]
  <2>1. CASE UNCHANGED expired
        BY <2>1
  <2>2. CASE Server \/ UNCHANGED vars
        BY <2>1, <2>2 DEF Server, ApplyToDevice, StartBulk, BulkAbort, Approve, BulkQueue,
           BulkReject, vars
  <2>3. ASSUME NEW e \in Executors, Worker(e)
        PROVE  \A f \in Executors : expired'[f] => expired[f]
    <3>1. CASE Recount(e) \/ SkipRecount(e)
          BY <3>1 DEF Recount, SkipRecount, EndRun, TypeOK
    <3>2. CASE ~Recount(e) /\ ~SkipRecount(e)
          BY <2>1, <2>3, <3>2 DEF Worker, RunJob, TakeSnapshot, ClaimBatch, ConsumeProvisioning, Fetch,
             Send, MarkDone, MarkDoneFails, MarkFailed, MarkFailedLost, Written
    <3> QED BY <3>1, <3>2
  <2>4. CASE Environment
        BY <1>2, <2>1, <2>4 DEF Environment, BackoffElapses, ContextExpires, Crash, Fault, TypeOK
  <2> QED BY <2>2, <2>3, <2>4 DEF Next
<1> QED BY <1>2, <1>3 DEF Punctual

DoneOf(b) == Cardinality(JobsIn(b, "done"))

\* What DoneCounterExact and CountsCurrent say of one batch.
Accurate(b) ==
    /\ batch[b].done = DoneOf(b) \/ Recounting(b) \/ Counting(b) # {}
    /\ \A e, f \in Counting(b) : e = f
    /\ \A e \in Counting(b) : count[e].done = DoneOf(b) \/ Recounting(b)

LEMMA AccurateIsCounter ==
    faults = 0 => (DoneCounterExact /\ CountsCurrent
                     <=> \A b \in Batches \ overlapped : Accurate(b))
<1>1. \A b \in Batches :
          (\E e \in Executors : pc[e] \in {"recount", "count"} /\ BatchOf[cur[e]] = b)
            <=> Recounting(b) \/ Counting(b) # {}
      BY DEF Recounting, Counting
<1> QED BY <1>1, Zenon DEF DoneCounterExact, CountsCurrent, Accurate, Recounting, DoneOf

\* A step that leaves what Accurate(b) looks at.
LEMMA AccurateKept ==
    ASSUME NEW b, Accurate(b), batch'[b].done = batch[b].done, DoneOf(b)' = DoneOf(b),
           Recounting(b) => Recounting(b)', Counting(b)' = Counting(b),
           \A e \in Counting(b) : count'[e] = count[e]
    PROVE  Accurate(b)'
<1>1. \A e \in Counting(b)' : count'[e].done = DoneOf(b)' \/ Recounting(b)'
      BY DEF Accurate
<1>2. batch'[b].done = DoneOf(b)' \/ Recounting(b)' \/ Counting(b)' # {}
      BY DEF Accurate
<1>3. \A e, f \in Counting(b)' : e = f
      BY DEF Accurate
<1> QED BY <1>1, <1>2, <1>3 DEF Accurate

LEMMA CounterStep ==
    ASSUME TypeOK, Bookkeeping, BulkFresh, Punctual, faults = 0, faults' = 0, [Next]_vars,
           NEW b \in Batches, b \notin overlapped', b \notin overlapped => Accurate(b)
    PROVE  Accurate(b)'
<1> USE DEF jobVars, execVars
<1>1. \A e \in Executors : ~expired[e]
      BY DEF Punctual
<1>2. ~Fault
      BY DEF Fault
<1>3. ASSUME UNCHANGED status PROVE DoneOf(b)' = DoneOf(b)
      BY <1>3 DEF DoneOf, JobsIn, DevicesOf
<1>4. ASSUME UNCHANGED <<pc, cur>>
      PROVE  Recounting(b)' = Recounting(b) /\ Counting(b)' = Counting(b)
      BY <1>4 DEF Recounting, Counting
<1>5. ASSUME UNCHANGED <<pc, cur, count, overlapped>>, batch'[b].done = batch[b].done,
             DoneOf(b)' = DoneOf(b)
      PROVE  Accurate(b)'
      BY <1>4, <1>5, AccurateKept
<1>6. CASE UNCHANGED vars
      BY <1>3, <1>5, <1>6 DEF vars
<1>7. CASE Server
  <2>1. UNCHANGED <<pc, cur, count, overlapped>>
        BY <1>7 DEF Server, ApplyToDevice, StartBulk, BulkAbort, Approve, BulkQueue, BulkReject
  <2>2. ASSUME NEW j \in Jobs, ApplyToDevice(j) PROVE Accurate(b)'
    <3>1. BatchOf[j] # b /\ UNCHANGED batch
          BY <2>2, ConstantsAssumption DEF ApplyToDevice
    <3>2. JobsIn(b, "done")' = JobsIn(b, "done")
          BY <2>2, <3>1 DEF ApplyToDevice, InsertQueued, JobsIn, DevicesOf, TypeOK
    <3> QED BY <1>5, <2>1, <3>1, <3>2 DEF DoneOf
  <2>3. ASSUME NEW c \in Batches, StartBulk(c) PROVE Accurate(b)'
    <3>1. UNCHANGED status
          BY <2>3 DEF StartBulk
    <3>2. CASE b = c
      <4>1. batch'[b].done = 0
            BY <2>3, <3>2 DEF StartBulk, TypeOK
      <4>2. JobsIn(b, "done") = {}
            BY <2>3, <3>2 DEF StartBulk, BulkFresh, JobsIn
      <4>3. DoneOf(b) = 0 /\ DoneOf(b)' = 0
            BY <1>3, <3>1, <4>2, FS_EmptySet DEF DoneOf
      <4>4. \A e \in Counting(b) : count[e].done = 0 \/ Recounting(b)
            BY <2>1, <4>3 DEF Accurate
      <4> QED BY <1>4, <2>1, <4>1, <4>3, <4>4 DEF Accurate
    <3>3. CASE b # c
      <4>1. batch'[b] = batch[b]
            BY <2>3, <3>3 DEF StartBulk, TypeOK
      <4> QED BY <1>3, <1>5, <2>1, <3>1, <4>1
    <3> QED BY <3>2, <3>3
  <2>4. ASSUME NEW c \in Batches, Approve(c) PROVE Accurate(b)'
    <3>1. batch'[b].done = batch[b].done
          BY <2>4 DEF Approve, TypeOK, BatchRow
    <3> QED BY <1>3, <1>5, <2>1, <2>4, <3>1 DEF Approve
  <2>5. ASSUME NEW c \in Batches, NEW j \in Jobs, BulkQueue(c, j) \/ BulkReject(c, j)
        PROVE  Accurate(b)'
    <3>1. status[j] = "absent" /\ UNCHANGED batch
          BY <2>5 DEF BulkQueue, BulkReject, BulkFresh
    <3>2. JobsIn(b, "done")' = JobsIn(b, "done")
          BY <2>5, <3>1 DEF BulkQueue, BulkReject, InsertQueued, JobsIn, DevicesOf, TypeOK
    <3> QED BY <1>5, <2>1, <3>1, <3>2 DEF DoneOf
  <2>6. \A c \in Batches : ~BulkAbort(c)
        BY <1>2 DEF BulkAbort
  <2> QED BY <1>7, <2>2, <2>3, <2>4, <2>5, <2>6 DEF Server
<1>8. ASSUME NEW e \in Executors, Worker(e) PROVE Accurate(b)'
  <2>1. CASE ClaimBatch(e)
    <3>1. PICK S \in AtMost(Claimable, BatchSize) :
              status'  = [j \in Jobs |-> IF j \in S THEN "running" ELSE status[j]]
          BY <2>1 DEF ClaimBatch
    <3>2. \A j \in S : status[j] = "queued"
          BY DEF AtMost, Claimable
    <3>3. JobsIn(b, "done")' = JobsIn(b, "done")
          BY <3>1, <3>2 DEF JobsIn, DevicesOf
    <3> QED BY <1>5, <2>1, <3>3 DEF ClaimBatch, DoneOf
  <2>2. ASSUME ConsumeProvisioning(e) \/ \E j \in Jobs : Fetch(e, j) PROVE Accurate(b)'
        BY <1>3, <1>5, <2>2 DEF ConsumeProvisioning, Fetch
  <2>3. ASSUME NEW j \in Jobs, Send(e, j) PROVE Accurate(b)'
    <3>1. Counting(b)' = Counting(b) /\ (Recounting(b) => Recounting(b)')
          BY <2>3 DEF Send, Counting, Recounting, TypeOK
    <3> QED BY <1>3, <2>3, <3>1, AccurateKept DEF Send
  <2>4. CASE MarkDone(e) \/ MarkFailed(e)
    <3>1. /\ pc[e] = "mark" /\ pc' = [pc EXCEPT ![e] = "recount"]
          /\ UNCHANGED <<cur, batch, count, overlapped>>
          /\ \A k \in Jobs \ {cur[e]} : status'[k] = status[k]
          BY <2>4 DEF MarkDone, MarkFailed, Written, TypeOK
    <3>2. Counting(b)' = Counting(b) /\ (Recounting(b) => Recounting(b)')
          BY <3>1 DEF Counting, Recounting, TypeOK
    <3>3. CASE BatchOf[cur[e]] = b
      <4>1. Recounting(b)'
            BY <3>1, <3>3 DEF Recounting, TypeOK
      <4> QED BY <3>1, <3>2, <4>1 DEF Accurate
    <3>4. CASE BatchOf[cur[e]] # b
      <4>1. JobsIn(b, "done")' = JobsIn(b, "done")
            BY <3>1, <3>4 DEF JobsIn, DevicesOf
      <4> QED BY <3>1, <3>2, <4>1, AccurateKept DEF DoneOf
    <3> QED BY <3>3, <3>4
  <2>5. ~MarkDoneFails(e) /\ ~MarkFailedLost(e)
        BY <1>1, <1>2 DEF MarkDoneFails, MarkFailedLost, LostWrite
  <2>6. CASE TakeSnapshot(e)
    <3>1. /\ pc[e] = "recount" /\ pc' = [pc EXCEPT ![e] = "count"]
          /\ UNCHANGED <<cur, batch, status>>
          /\ count' = [count EXCEPT ![e] = Counted(BatchOf[cur[e]])]
          BY <2>6 DEF TakeSnapshot
    <3>2. CASE BatchOf[cur[e]] = b
      <4>1. Counting(b) = {}
            BY <2>6, <3>2 DEF TakeSnapshot
      <4>2. Counting(b)' = {e}
            BY <3>1, <3>2, <4>1 DEF Counting, TypeOK
      <4>3. count'[e].done = DoneOf(b)'
            BY <1>3, <3>1, <3>2 DEF Counted, DoneOf, TypeOK
      <4> QED BY <4>2, <4>3 DEF Accurate
    <3>3. CASE BatchOf[cur[e]] # b
      <4>1. Counting(b)' = Counting(b) /\ (Recounting(b) => Recounting(b)')
            BY <3>1, <3>3 DEF Counting, Recounting, TypeOK
      <4>2. \A f \in Counting(b) : count'[f] = count[f]
            BY <3>1 DEF Counting, TypeOK
      <4>3. b \notin overlapped
            BY <2>6, <3>3 DEF TakeSnapshot
      <4> QED BY <1>3, <3>1, <4>1, <4>2, <4>3, AccurateKept
    <3> QED BY <3>2, <3>3
  <2>7. CASE Recount(e)
    <3>1. /\ pc[e] = "count" /\ pc' = [pc EXCEPT ![e] = "ready"]
          /\ cur' = [cur EXCEPT ![e] = NoJob] /\ UNCHANGED <<status, overlapped>>
          /\ count' = [count EXCEPT ![e] = Nothing]
          /\ batch' = [batch EXCEPT ![BatchOf[cur[e]]] = [@ EXCEPT !.status = count[e].status,
                                        !.done = count[e].done]]
          BY <1>1, <1>2, <2>7 DEF Recount, EndRun, LostWrite
    <3>2. Recounting(b) => Recounting(b)'
          BY <3>1 DEF Recounting, TypeOK
    <3>3. CASE BatchOf[cur[e]] = b
      <4>1. e \in Counting(b)
            BY <3>1, <3>3 DEF Counting
      <4>2. Counting(b)' = {}
            BY <3>1, <4>1 DEF Accurate, Counting, TypeOK
      <4>3. batch'[b].done = count[e].done
            BY <3>1, <3>3 DEF TypeOK, BatchRow
      <4>4. count[e].done = DoneOf(b) \/ Recounting(b)
            BY <3>1, <4>1 DEF Accurate
      <4> QED BY <1>3, <3>1, <3>2, <4>2, <4>3, <4>4 DEF Accurate
    <3>4. CASE BatchOf[cur[e]] # b
      <4>1. batch'[b] = batch[b]
            BY <3>1, <3>4 DEF TypeOK
      <4>2. Counting(b)' = Counting(b)
            BY <3>1, <3>4 DEF Counting, TypeOK
      <4>3. \A f \in Counting(b) : count'[f] = count[f]
            BY <3>1, <3>4 DEF Counting, TypeOK
      <4> QED BY <1>3, <3>1, <3>2, <4>1, <4>2, <4>3, AccurateKept
    <3> QED BY <3>3, <3>4
  <2>8. CASE SkipRecount(e)
    <3>1. /\ pc[e] = "recount" /\ pc' = [pc EXCEPT ![e] = "ready"]
          /\ cur' = [cur EXCEPT ![e] = NoJob] /\ UNCHANGED <<status, batch, overlapped>>
          /\ count' = [count EXCEPT ![e] = Nothing]
          BY <2>8 DEF SkipRecount, EndRun
    <3>2. BatchOf[cur[e]] # b
          BY <1>1, <1>2, <2>8, ConstantsAssumption DEF SkipRecount, LostWrite
    <3>3. Counting(b)' = Counting(b) /\ (Recounting(b) => Recounting(b)')
          BY <3>1, <3>2 DEF Counting, Recounting, TypeOK
    <3>4. \A f \in Counting(b) : count'[f] = count[f]
          BY <3>1 DEF Counting, TypeOK
    <3> QED BY <1>3, <3>1, <3>3, <3>4, AccurateKept
  <2> QED BY <1>8, <2>1, <2>2, <2>3, <2>4, <2>5, <2>6, <2>7, <2>8 DEF Worker, RunJob
<1>9. CASE Environment
  <2>1. PICK j \in Jobs : BackoffElapses(j)
        BY <1>2, <1>9 DEF Environment, ContextExpires, Crash
  <2> QED BY <1>3, <1>5, <2>1 DEF BackoffElapses
<1> QED BY <1>6, <1>7, <1>8, <1>9 DEF Next

\* As long as nothing fails a batch counts exactly its done jobs, but for the time
\* before a recount has written and for recounts of one batch that ran at once, for
\* any number of workers, jobs and batches, although the poller and the stream may
\* run a job twice and finish it in either order.
THEOREM DoneCounted == Spec => []DoneCounterExact
<1> DEFINE Counters == DoneCounterExact /\ CountsCurrent
<1>1. Init => BulkFresh /\ HeldExist /\ Punctual
      BY DEF Init, BulkFresh, DevicesOf, HeldExist, Punctual
<1>2. Init => Counters
  <2> SUFFICES ASSUME Init, NEW b \in Batches
               PROVE  /\ batch[b].done = Cardinality(JobsIn(b, "done"))
                      /\ Counting(b) = {}
      BY DEF DoneCounterExact, CountsCurrent
  <2>1. JobsIn(b, "done") = {} /\ batch[b].done = 0
        BY DEF Init, JobsIn, DevicesOf
  <2> QED BY <2>1, FS_EmptySet DEF Init, Counting
<1>3. TypeOK /\ Punctual /\ [Next]_vars => Punctual'
      BY PunctualStep DEF Punctual
<1>4. TypeOK /\ Bookkeeping /\ BulkFresh /\ Punctual /\ Counters /\ [Next]_vars => Counters'
  <2> SUFFICES ASSUME TypeOK, Bookkeeping, BulkFresh, Punctual, Counters, [Next]_vars
               PROVE  Counters'
      OBVIOUS
  <2>1. CASE faults' # 0
        BY <2>1 DEF DoneCounterExact, CountsCurrent
  <2>2. CASE faults' = 0
    <3>1. faults = 0
          BY <2>2, PunctualStep
    <3>2. \A b \in Batches \ overlapped' : Accurate(b)'
          BY <2>2, <3>1, AccurateIsCounter, CounterStep
    <3>3. (faults = 0 => (DoneCounterExact /\ CountsCurrent
                            <=> \A b \in Batches \ overlapped : Accurate(b)))'
          BY AccurateIsCounter, PTL
    <3> QED BY <2>2, <3>2, <3>3
  <2> QED BY <2>1, <2>2
<1> QED BY <1>1, <1>2, <1>3, <1>4, TypeInit, TypeStep, BookkeepingInit, BookkeepingStep,
           BulkFreshStep, HeldExistStep, PTL DEF Spec

=============================================================================
