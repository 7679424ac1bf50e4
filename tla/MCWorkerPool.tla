---------------------------- MODULE MCWorkerPool ----------------------------
\* Small instances of WorkerPool for TLC.
EXTENDS WorkerPool

CONSTANTS w1, w2, m1, m2, m3, m4
=============================================================================
