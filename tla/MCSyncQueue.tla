------------------------------ MODULE MCSyncQueue ------------------------------
EXTENDS SyncProperties, TLC
CONSTANTS k1, k2, b1, p1, d1

\* The hook may enqueue any key; the first is a projection's.
MCOneHook == b1 :> {k1, k2}
=============================================================================
