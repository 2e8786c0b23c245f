----------------------------- MODULE MCSupervisor -----------------------------
EXTENDS SupervisorProperties, TLC
CONSTANTS e1, f1

MCOneFolder == [e \in Env |-> f1]
=============================================================================
