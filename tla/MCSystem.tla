------------------------------ MODULE MCSystem ------------------------------
\* A small instance of System for TLC.
EXTENDS System

CONSTANTS r1, r2, k1, c1, b1, w1

\* A request, its replay with the same key and body, and a cancel of the job.
OneKey == [r \in Requests |-> k1]
OneBody == [r \in Requests |-> b1]
CancelFirst == [c \in Cancels |-> r1]
=============================================================================
