----------------------------- MODULE MCAuditQueue -----------------------------
EXTENDS AuditProperties
CONSTANTS x1, p1, q1, q2, a1, t1, t2

MCOneProtocol == [r \in Row |-> p1]
MCFirstQueue == [p \in Protocol |-> q1]
=============================================================================
