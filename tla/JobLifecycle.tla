---------------------------- MODULE JobLifecycle ----------------------------
(***************************************************************************)
(* What the engine promises a client about each job, whatever workers,     *)
(* queue and failures do: the status moves one edge of the state machine   *)
(* at a time, a processing attempt is counted exactly when the job is      *)
(* claimed, and no job is claimed more than MaxAttempts times.             *)
(***************************************************************************)
EXTENDS Naturals, JobStates

CONSTANTS Jobs, MaxAttempts

VARIABLES status,     \* jobs.status
          attempts    \* jobs.attempt_count

vars == <<status, attempts>>

Init == /\ status = [j \in Jobs |-> "PENDING"]
        /\ attempts = [j \in Jobs |-> 0]

Move(j, from, to) == /\ status[j] = from
                     /\ CanTransition(from, to)
                     /\ status' = [status EXCEPT ![j] = to]

Enqueue(j) == Move(j, "PENDING", "QUEUED") /\ UNCHANGED attempts

Claim(j) == /\ Move(j, "QUEUED", "PROCESSING")
            /\ attempts[j] < MaxAttempts
            /\ attempts' = [attempts EXCEPT ![j] = @ + 1]

Finish(j) == /\ \E to \in {"COMPLETED", "FAILED"} : Move(j, "PROCESSING", to)
             /\ UNCHANGED attempts

Retry(j) == /\ attempts[j] < MaxAttempts
            /\ \/ Move(j, "FAILED", "RETRYING")
               \/ Move(j, "RETRYING", "QUEUED")
            /\ UNCHANGED attempts

Cancel(j) == /\ \E from \in {"PENDING", "QUEUED", "PROCESSING", "RETRYING"} :
                  Move(j, from, "CANCELLED")
             /\ UNCHANGED attempts

Next == \E j \in Jobs :
          Enqueue(j) \/ Claim(j) \/ Finish(j) \/ Retry(j) \/ Cancel(j)

Spec == Init /\ [][Next]_vars
=============================================================================
