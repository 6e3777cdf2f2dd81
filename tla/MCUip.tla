------------------------------- MODULE MCUip -------------------------------
EXTENDS UipProps
CONSTANTS A, B, GoalA, GoalB
MCHost == {A, B}
MCGoal == [h \in Host |-> IF h = A THEN GoalA ELSE GoalB]
=============================================================================
