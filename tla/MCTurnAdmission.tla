-------------------------- MODULE MCTurnAdmission --------------------------
EXTENDS TurnAdmission

CONSTANTS t1, t2, t3, q1, q2

Turns3 == {t1, t2, t3}
TwoRotators == {q1, q2}
=============================================================================
