----------------------------- MODULE TaskDetail -----------------------------
(***************************************************************************)
(* The detail of a task (task-detail.ts) with the components it is made    *)
(* of: description, dependencies, comments and the panel of fields.  The   *)
(* element is given the id of a task; it fetches the task and edits what   *)
(* it has fetched.  The answers of an element that is gone change nothing: *)
(* their requests are no longer heard.                                     *)
(***************************************************************************)
EXTENDS TaskClient

VARIABLE detail

Detail ==
  [id : Task \cup {None}, task : Row \cup {None}, taskId : Task \cup {None},
   fresh : BOOLEAN, loading : BOOLEAN, error : BOOLEAN, all : BOOLEAN,
   editor : {"none", "title", "description", "comment", "blocker", "field"}]

DetailTypeOK == detail \in Detail

NoDetail ==
  [id |-> None, task |-> None, taskId |-> None, fresh |-> FALSE,
   loading |-> FALSE, error |-> FALSE, all |-> FALSE, editor |-> "none"]

DetailInit == detail = NoDetail

Fetch(d) == Request("fetch", d.id, "", None)

OfDetail(r) == r.op \in {"fetch", "update", "delete", "comment", "block", "unblock", "picker"}

(* _loadTask, called in state d.  The spinner takes the place of the       *)
(* components below and with them of what is being typed there.            *)
Fetching(d) ==
  [d EXCEPT !.loading = TRUE, !.error = FALSE, !.fresh = FALSE,
            !.editor = IF @ = "title" THEN @ ELSE "none"]

Fetches(d, base) == detail' = Fetching(d) /\ Exchange(base, <<Fetch(d)>>)

(* connectedCallback and the first updated() each fetch.                   *)
Mount(t) ==
  LET d == [NoDetail EXCEPT !.id = t]
  IN detail' = Fetching(d) /\ Exchange(flight, <<Fetch(d), Fetch(d)>>)

(* A new task-id keeps what was fetched for the one before.                *)
ShowOther(t) == Fetches([detail EXCEPT !.id = t], flight)

Unmount ==
  /\ detail' = NoDetail /\ UNCHANGED unseen
  /\ flight' = [n \in DOMAIN flight |-> IF OfDetail(flight[n]) THEN [flight[n] EXCEPT !.heard = FALSE]
                                        ELSE flight[n]]

-----------------------------------------------------------------------------
(* What the user can do with the task shown.                               *)
Shown == detail.id # None /\ ~detail.loading /\ detail.task # None

Asks(d, op, on, field, value) ==
  /\ detail' = d
  /\ Exchange(flight, <<Request(op, on, field, value)>>)

Edits(field, value) == Asks([detail EXCEPT !.editor = "none"], "update", detail.taskId, field, value)

Edit(e) == detail' = [detail EXCEPT !.editor = e] /\ UNCHANGED <<flight, unseen>>

(* The menu and the title.                                                 *)
StatusMenu ==
  \E s \in Status \ {detail.task.status} :
    Asks(detail, "update", detail.taskId, "status", s)

DeleteTask == Asks(detail, "delete", detail.taskId, "", None)

EditTitle == \/ detail.editor = "none" /\ Edit("title")
             \/ detail.editor = "title" /\ (Edits("other", None) \/ Edit("none"))

EditDescription == \/ detail.editor = "none" /\ Edit("description")
                   \/ detail.editor = "description" /\ (Edits("other", None) \/ Edit("none"))

WriteComment ==
  \/ detail.editor = "none" /\ Edit("comment")
  \/ /\ detail.editor = "comment"
     /\ Asks([detail EXCEPT !.editor = "none"], "comment", detail.taskId, "", None)

(* The picker offers every task it has but this one and its blockers; the  *)
(* list is fetched the first time only.                                    *)
PickBlocker ==
  \/ /\ detail.editor = "none"
     /\ IF detail.all THEN Edit("blocker")
        ELSE Asks([detail EXCEPT !.editor = "blocker"], "picker", None, "session", None)
  \/ detail.editor = "blocker" /\ detail.all
     /\ \E b \in DOMAIN rows \ (detail.task.blockers \cup {detail.taskId}) :
          Asks([detail EXCEPT !.editor = "none"], "block", detail.taskId, "", b)

RemoveBlocker ==
  \E b \in detail.task.blockers : Asks(detail, "unblock", detail.taskId, "", b)

(* Claim and unclaim go by the assignee shown.                             *)
Claim ==
  \/ detail.task.owner = None /\ Edits("owner", Me)
  \/ detail.task.owner = Me /\ Edits("owner", None)

(* The panel: a click on a value puts its editor in place.                 *)
PanelField == detail.editor = "none" /\ Edit("field")

InField == detail.editor = "field"

(* Type, which is not sent on, status, priority and complexity.            *)
PickValue ==
  /\ InField
  /\ Edits("kept", None) \/ Edits("other", None) \/ \E s \in Status : Edits("status", s)

PickAssignee == InField /\ \E p \in {None, Other} : Edits("owner", p)

(* Commits are added and removed one at a time, the whole list being sent; *)
(* the mark for no code is a switch.                                       *)
EditProof == (InField /\ Edits("proof", "yes")) \/ (detail.task.proof /\ Edits("proof", "no"))

(* Model, budget and provider: null is no change.                          *)
PickModel == InField /\ (Edits("other", None) \/ Edits("kept", None))

DetailClick ==
  /\ Click /\ Shown
  /\ \/ StatusMenu \/ DeleteTask \/ EditTitle \/ EditDescription \/ WriteComment
     \/ PickBlocker \/ RemoveBlocker \/ Claim \/ PanelField
     \/ PickValue \/ PickAssignee \/ EditProof \/ PickModel
  /\ UNCHANGED <<mode, serverVars, foreign, losses>>

-----------------------------------------------------------------------------
(* Answers.                                                                *)
Mine(r) == OfDetail(r) /\ r.heard

FetchAnswer(n) ==
  LET r == flight[n] IN
  /\ r.op = "fetch" /\ Exchange(Without(n), <<>>)
  /\ detail' = CASE ~Mine(r) -> detail
                 [] Mine(r) /\ r.ok -> [detail EXCEPT !.task = r.data, !.taskId = r.on,
                                                      !.fresh = r.latest, !.loading = FALSE]
                 [] Mine(r) /\ ~r.ok -> [detail EXCEPT !.error = TRUE, !.loading = FALSE]

(* _updateField, _handleAddComment, _handleAddBlocker, ...: reload after   *)
(* success, an alert after failure.                                        *)
EditAnswer(n) ==
  LET r == flight[n] IN
  /\ r.op \in {"update", "comment", "block", "unblock"}
  /\ IF Mine(r) /\ r.ok THEN Fetches(detail, Without(n))
     ELSE /\ detail' = IF Mine(r) THEN [detail EXCEPT !.error = TRUE] ELSE detail
          /\ Exchange(Without(n), <<>>)

PickerAnswer(n) ==
  LET r == flight[n] IN
  /\ r.op = "picker" /\ Exchange(Without(n), <<>>)
  /\ detail' = IF Mine(r) /\ r.ok THEN [detail EXCEPT !.all = (DOMAIN r.data # {})] ELSE detail

DetailAnswer ==
  /\ \E n \in DOMAIN flight : Answered(n)
       /\ (FetchAnswer(n) \/ EditAnswer(n) \/ PickerAnswer(n))
  /\ UNCHANGED <<mode, serverVars, clicks, foreign, losses>>
=============================================================================
