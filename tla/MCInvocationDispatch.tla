------------------------ MODULE MCInvocationDispatch ------------------------
EXTENDS InvocationDispatch, TLC

(* Keys and ids are alike, except that some workspaces exist at the start. *)
Symmetry == Permutations(Ws \ Parked) \cup Permutations(Inv)
              \cup Permutations(Op) \cup Permutations(Key)
=============================================================================
