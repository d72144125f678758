--------------------------- MODULE WorkspaceSlots ---------------------------
(***************************************************************************)
(* What invocation dispatch promises, without saying how: a request waits, *)
(* may come to run in a workspace that nobody else is running in, and gets *)
(* a verdict exactly once (the verdict itself may be corrected later, which*)
(* is invisible here).  InvocationDispatch implements it.                  *)
(***************************************************************************)
CONSTANTS Ws, Inv

VARIABLES
  phase,    \* "none", "waiting", "active" or "settled", of each invocation
  running   \* the pairs <<w, i>> such that i runs in w

vars == <<phase, running>>

Free(w) == \A j \in Inv : <<w, j>> \notin running

Init == /\ phase = [i \in Inv |-> "none"]
        /\ running = {}

Request(i) ==
  /\ phase[i] = "none"
  /\ phase' = [phase EXCEPT ![i] = "waiting"]
  /\ UNCHANGED running

Start(i, w) ==
  /\ phase[i] = "waiting" /\ Free(w)
  /\ phase' = [phase EXCEPT ![i] = "active"]
  /\ running' = running \cup {<<w, i>>}

Settle(i) ==
  /\ phase[i] \in {"waiting", "active"}
  /\ phase' = [phase EXCEPT ![i] = "settled"]
  /\ running' = {p \in running : p[2] # i}

Next == \E i \in Inv : Request(i) \/ Settle(i) \/ (\E w \in Ws : Start(i, w))

Spec == Init /\ [][Next]_vars
=============================================================================
