----------------------------- MODULE JobStates -----------------------------
(***************************************************************************)
(* internal/domain: the job and attempt statuses, the job state machine    *)
(* and the error taxonomy that drives retries.  Constant-level only.       *)
(***************************************************************************)

JobStatuses == {"PENDING", "QUEUED", "PROCESSING", "COMPLETED", "FAILED",
                "CANCELLED", "RETRYING"}

AttemptStatuses == {"RUNNING", "SUCCEEDED", "FAILED", "CANCELLED"}

\* FAILED is terminal although the retry walk may still continue from it.
IsTerminal(s) == s \in {"COMPLETED", "CANCELLED", "FAILED"}

\* Seeded fault: a job that has failed may be cancelled.
AllowedTransitionsCancelFailed ==
  { <<"PENDING", "QUEUED">>,       <<"PENDING", "CANCELLED">>,
    <<"QUEUED", "PROCESSING">>,    <<"QUEUED", "CANCELLED">>,
    <<"PROCESSING", "COMPLETED">>, <<"PROCESSING", "FAILED">>,
    <<"PROCESSING", "CANCELLED">>,
    <<"FAILED", "RETRYING">>,      <<"FAILED", "CANCELLED">>,
    <<"RETRYING", "QUEUED">>,      <<"RETRYING", "CANCELLED">> }

\* The state machine, as the set of its edges.
allowedTransitions ==
  { <<"PENDING", "QUEUED">>,       <<"PENDING", "CANCELLED">>,
    <<"QUEUED", "PROCESSING">>,    <<"QUEUED", "CANCELLED">>,
    <<"PROCESSING", "COMPLETED">>, <<"PROCESSING", "FAILED">>,
    <<"PROCESSING", "CANCELLED">>,
    <<"FAILED", "RETRYING">>,
    <<"RETRYING", "QUEUED">>,      <<"RETRYING", "CANCELLED">> }

CanTransition(from, to) == <<from, to>> \in allowedTransitions

(***************************************************************************)
(* A processing error is told apart by its retry kind and by whether its   *)
(* chain holds a context error: "cancelled" is a (transient or untagged)   *)
(* error around context.Canceled / DeadlineExceeded, "permanent_cancelled" *)
(* the same around a Permanent tag.  "nil" is no error.                    *)
(***************************************************************************)
Errors == {"nil", "permanent", "transient", "cancelled", "permanent_cancelled"}

IsPermanent(e) == e \in {"permanent", "permanent_cancelled"}

IsCancellation(e) == e \in {"cancelled", "permanent_cancelled"}
=============================================================================
