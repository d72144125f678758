--------------------------- MODULE DispatchClaims ---------------------------
(***************************************************************************)
(* What a comment of routes/invocations.rs says of the dispatch, taken at  *)
(* its word.  A run refutes it.                                            *)
(***************************************************************************)
EXTENDS InvocationDispatch

(* "... so panics don't silently leave the invocation stuck in 'pending'   *)
(* or 'running'": the task's end leaves neither.                           *)
PanicLeavesVerdict ==
  \A i \in Inv : pc[i] = "dead" => invStatus[i] \notin {"pending", "running"}
=============================================================================
