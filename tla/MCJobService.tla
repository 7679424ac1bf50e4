---------------------------- MODULE MCJobService ----------------------------
\* Small instances of JobService for TLC.
EXTENDS JobService

CONSTANTS r1, r2, r3, k1, c1, b1, b2

\* Three requests on one key: two with the same body, one with another.
OneKey == [r \in Requests |-> k1]
Bodies == [r \in Requests |-> IF r = r3 THEN b2 ELSE b1]

\* The first request carries no key, the others share one.
FirstUnkeyed == [r \in Requests |-> IF r = r1 THEN NoKey ELSE k1]
OneBody == [r \in Requests |-> b1]

CancelFirst == [c \in Cancels |-> r1]
=============================================================================
