---------------------------- MODULE MCLiveClient ----------------------------
(***************************************************************************)
(* One run for the parts of the page that listen to the server through a   *)
(* socket.  They share no state, so that in a behaviour only one of them   *)
(* moves, and the run looks at the sum of their states and not at the      *)
(* product.                                                                *)
(***************************************************************************)
EXTENDS SessionConnection, AgentStream, ProjectSocket

VARIABLE machine

vars == <<machine, connVars, streamVars, projectVars>>

Init ==
  /\ machine \in {"connection", "stream", "project"}
  /\ ConnectionInit /\ StreamInit /\ ProjectInit

Next ==
  /\ UNCHANGED machine
  /\ \/ machine = "connection" /\ ConnectionNext /\ UNCHANGED <<streamVars, projectVars>>
     \/ machine = "stream" /\ StreamNext /\ UNCHANGED <<connVars, projectVars>>
     \/ machine = "project" /\ ProjectNext /\ UNCHANGED <<connVars, streamVars>>

(* No fair action of a part that does not move is enabled.                 *)
Spec == Init /\ [][Next]_vars /\ ConnectionFairness /\ StreamFairness /\ ProjectFairness

(* The types of the three parts.                                           *)
LiveTypeOK == ConnectionTypeOK /\ StreamTypeOK /\ ProjectTypeOK

(* Whoever stays is served again: a session is connected again, a stream   *)
(* comes back and a dashboard hears of its runs.                           *)
ListenersCatchUp == Reconnects /\ StreamReturns /\ HearsAgain
=============================================================================
