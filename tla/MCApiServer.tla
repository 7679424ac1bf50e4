---------------------------- MODULE MCApiServer ----------------------------
(* Small instances of ApiServer for TLC. *)
EXTENDS ApiServer

CONSTANTS r1, r2, r3

Routes == [r \in Requests |-> IF r = r1 THEN "create" ELSE IF r = r2 THEN "list" ELSE "health"]

\* One environment that validate accepts, and one it refuses.
TwoConfigs == {[concurrency |-> 4, maxAttempts |-> 5, maxDeliver |-> 10],
               [concurrency |-> 4, maxAttempts |-> 0, maxDeliver |-> 10]}
=============================================================================
