------------------------------- MODULE MCIod -------------------------------
EXTENDS IodProps
CONSTANTS p1, p2, p3
=============================================================================
