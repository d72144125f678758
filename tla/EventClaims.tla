---------------------------- MODULE EventClaims ----------------------------
(***************************************************************************)
(* What the plan and the comments say of the event pipeline, taken at their*)
(* word.  Each is refuted by a run.                                        *)
(***************************************************************************)
EXTENDS MCEventPipeline

(* The project of an event and of a reaction: here event 1 and reaction r2 *)
(* belong to different projects.                                           *)
EventProject    == [e \in Event |-> "p1"]
ReactionProject == [r \in Reaction |-> IF r = r1 THEN "p1" ELSE "p2"]

(* "cursor for at-least-once delivery": no committed event is left behind  *)
(* by the cursor, here without any fault.                                  *)
AtLeastOnce == \A e \in Event : ~Skipped(e)

(* "reactions per project": a reaction is dispatched for events of its own *)
(* project.                                                                *)
ReactionsStayInProject ==
  \A p \in Event \X Reaction :
    attempts[p] > 0 => EventProject[p[1]] = ReactionProject[p[2]]
=============================================================================
