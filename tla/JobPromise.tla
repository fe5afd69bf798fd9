----------------------------- MODULE JobPromise -----------------------------
(***************************************************************************)
(* What the provisioning queue promises the operator about one job, however*)
(* it is stored, claimed and retried: a job is refused at once or it is    *)
(* pending; a pending job is pushed to its device at most MaxPushes times; *)
(* it settles once, as done only if a push went through; and a settled job *)
(* neither changes nor is pushed again.                                    *)
(***************************************************************************)
EXTENDS Naturals

CONSTANTS Jobs, MaxPushes

VARIABLES state,  \* "new", "pending", "done" or "failed"
          pushes  \* pushes of the job that reached the device's queue

Init == /\ state  = [j \in Jobs |-> "new"]
        /\ pushes = [j \in Jobs |-> 0]

Move(j, from, to) == /\ state[j] = from
                     /\ state' = [state EXCEPT ![j] = to]
                     /\ UNCHANGED pushes

Enqueue(j) == Move(j, "new", "pending")
Refuse(j)  == Move(j, "new", "failed")
Finish(j)  == pushes[j] > 0 /\ Move(j, "pending", "done")
GiveUp(j)  == Move(j, "pending", "failed")

Push(j) == /\ state[j] = "pending"
           /\ pushes[j] < MaxPushes
           /\ pushes' = [pushes EXCEPT ![j] = @ + 1]
           /\ UNCHANGED state

Next == \E j \in Jobs : Enqueue(j) \/ Refuse(j) \/ Push(j) \/ Finish(j) \/ GiveUp(j)

Spec == Init /\ [][Next]_<<state, pushes>>
=============================================================================
