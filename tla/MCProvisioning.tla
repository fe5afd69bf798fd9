--------------------------- MODULE MCProvisioning ---------------------------
(* Small instances of Provisioning: a single job, and one batch of a job   *)
(* or two.                                                                 *)
EXTENDS Provisioning, TLC

CONSTANTS single, bulk1, bulk2, b1

SingleAndBulk == {single, bulk1}
BulkJobs == {bulk1, bulk2}
MCBatches == {b1}
MCBatchOf == [j \in Jobs |-> IF j = single THEN NoBatch ELSE b1]

\* The worker processes are interchangeable.
Symmetric == Permutations(Workers)

WithoutHistory == <<jobVars, batch, todo, stream, execVars, faults>>
=============================================================================
