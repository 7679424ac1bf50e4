---------------------------- MODULE MCJobWorker ----------------------------
\* Small instances of JobWorker for TLC.
EXTENDS JobWorker, TLC

CONSTANTS w1, w2, j1, j2

\* Replicas are interchangeable in the instances that use this set.
Symmetry == Permutations({w1, w2})
=============================================================================
