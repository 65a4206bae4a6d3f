---------------------------- MODULE MCMessageIds ----------------------------
EXTENDS MessageIds

CONSTANTS m1, m2

MCRow == [p \in Messages \X (1..Attempts) |-> 2 * p[2] - (IF p[1] = m1 THEN 1 ELSE 0)]
=============================================================================
