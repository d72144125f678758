---------------------------- MODULE MCTaskScreen ----------------------------
EXTENDS TaskScreen
CONSTANTS t1, t2, t3
MCParent == [t \in Task |-> IF t = t2 THEN t1 ELSE None]
=============================================================================
