--------------------------- MODULE MCEventPipeline ---------------------------
EXTENDS EventPipeline

CONSTANTS r1, r2

(* r1 wants every event, r2 only the first one.                            *)
MCWants == {p \in Event \X {r1, r2} : p[2] = r1 \/ p[1] = 1}
=============================================================================
