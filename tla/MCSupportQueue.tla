----------------------------- MODULE MCSupportQueue -----------------------------
EXTENDS SupportProperties
CONSTANTS r1, r2, a1, t1, t2
=============================================================================
