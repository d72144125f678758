----------------------------- MODULE TaskBoard -----------------------------
(***************************************************************************)
(* The task board (task-board.ts) with its toolbar, its sprint panel and   *)
(* the dialog that creates tasks.  The state of the component is one       *)
(* record; the detail it may show instead of the list is TaskDetail.       *)
(*                                                                         *)
(* Every reload replaces the list by what comes back, whichever request it *)
(* answers; fresh, which the code does not keep, says that the list shown  *)
(* answers the latest load sent.                                           *)
(***************************************************************************)
EXTENDS TaskClient

VARIABLE board

BoardTypeOK ==
  /\ board.view \in {"list", "board"}
  /\ board.status \in Status \cup {"any"} /\ board.assignee \in {None, Me, Other}
  /\ {board.hide, board.all, board.loading, board.error, board.picking, board.busy,
      board.sprintPanel, board.made, board.sprint, board.naming, board.fresh} \subseteq BOOLEAN
  /\ DOMAIN board.shown \subseteq Task /\ board.shown \in [DOMAIN board.shown -> Row]
  /\ board.picked \subseteq Task
  /\ {board.drag, board.open, board.url} \subseteq Task \cup {None}
  /\ board.dialog \in [open : BOOLEAN, title : BOOLEAN, status : Status, saving : Nat]

ListRequest(b, op) == Request(op, None, IF b.all THEN "all" ELSE "session", b.status)

(* connectedCallback and the first updated() each load; the first load is  *)
(* followed by _restoreTaskFromUrl.                                        *)
Mounted(u) ==
  [view |-> "board", status |-> "any", assignee |-> None, hide |-> TRUE, all |-> FALSE,
   shown |-> <<>>, fresh |-> FALSE, loading |-> TRUE, error |-> FALSE,
   picking |-> FALSE, picked |-> {}, busy |-> FALSE,
   sprintPanel |-> FALSE, made |-> mode = "session", sprint |-> FALSE, naming |-> FALSE,
   drag |-> None, open |-> None, url |-> u,
   dialog |-> [open |-> FALSE, title |-> FALSE, status |-> "open", saving |-> 0]]

(* Just mounted at the address of a task, or mounted and loaded: nothing   *)
(* done yet, two tasks picked, or the dialog filled in beside a sprint.    *)
BoardInit ==
  /\ \/ \E u \in {t \in DOMAIN rows : rows[t].member \/ mode = "project"} :
          /\ board = Mounted(u)
          /\ flight = <<[Sent(ListRequest(board, "first")) EXCEPT !.latest = FALSE],
                        Sent(ListRequest(board, "list"))>>
     \/ /\ flight = <<>>
        /\ LET loaded == [Mounted(None) EXCEPT !.shown = Listing(FALSE, "any"), !.fresh = TRUE,
                                               !.loading = FALSE, !.sprintPanel = mode = "project"]
           IN board \in {loaded,
                         [loaded EXCEPT !.view = "list", !.all = TRUE, !.shown = Listing(TRUE, "any"),
                                        !.picking = TRUE, !.picked = DOMAIN Listing(TRUE, "any")],
                         [loaded EXCEPT !.dialog.open = TRUE, !.dialog.title = TRUE,
                                        !.made = TRUE, !.sprint = TRUE]}

(* _loadTasks, called in state b.                                          *)
Loads(b, base, op) ==
  /\ board' = [b EXCEPT !.loading = TRUE, !.error = FALSE, !.fresh = FALSE]
  /\ Exchange(base, <<ListRequest(b, op)>>)

LoadsTwice(b, base) ==
  /\ board' = [b EXCEPT !.loading = TRUE, !.error = FALSE, !.fresh = FALSE]
  /\ Exchange(base, <<ListRequest(b, "list"), ListRequest(b, "list")>>)

(* A handler that sends requests and waits for them.                       *)
Sends(b, requests) == board' = b /\ Exchange(flight, requests)

Local(b) == board' = b /\ UNCHANGED <<flight, unseen>>

-----------------------------------------------------------------------------
(* What is rendered.                                                       *)
Filtered(b) ==
  {t \in DOMAIN b.shown :
     /\ b.hide /\ b.status = "any" => b.shown[t].status \notin Completed
     /\ b.assignee # None => b.shown[t].owner = b.assignee}

CompletedCount(b) == Cardinality({t \in DOMAIN b.shown : b.shown[t].status \in Completed})

(* The list shows a subtask under its parent only.                         *)
ListCards(b) == {t \in Filtered(b) : Parent[t] = None \/ Parent[t] \in Filtered(b)}

Columns(b) == IF b.hide THEN {"open", "in_progress"} ELSE Status

KanbanCards(b) == {t \in Filtered(b) : Parent[t] = None /\ b.shown[t].status \in Columns(b)}

AtBoard == board.open = None
AtList  == AtBoard /\ ~board.dialog.open

Cards == IF ~AtList \/ board.loading THEN {}
         ELSE IF board.view = "list" THEN ListCards(board) ELSE KanbanCards(board)

SprintTasks(b) == IF b.sprint THEN {t \in DOMAIN b.shown : b.shown[t].member} ELSE {}

-----------------------------------------------------------------------------
(* Mutant: a new filter waits for the next load.                           *)
SetFilterLazily ==
  /\ Click /\ AtList
  /\ \/ \E a \in {None, Me} \ {board.assignee} : Local([board EXCEPT !.assignee = a])
     \/ CompletedCount(board) > 0 /\ Local([board EXCEPT !.hide = ~@])
     \/ \E s \in {"any", "done"} \ {board.status} :
          board.view = "list" /\ Local([board EXCEPT !.status = s])
     \/ mode = "session" /\ Local([board EXCEPT !.all = ~@])

(* The user at the toolbar.                                                *)
SetFilter ==
  /\ Click /\ AtList
  /\ \/ \E a \in {None, Me} \ {board.assignee} : Local([board EXCEPT !.assignee = a])
     \/ CompletedCount(board) > 0 /\ Local([board EXCEPT !.hide = ~@])
     \/ \E s \in {"any", "done"} \ {board.status} :
          board.view = "list" /\ Loads([board EXCEPT !.status = s], flight, "list")
     \/ mode = "session" /\ Loads([board EXCEPT !.all = ~@], flight, "list")

Toolbar ==
  /\ Click /\ AtList
  /\ \/ \E v \in {"list", "board"} \ {board.view} : Local([board EXCEPT !.view = v])
     \/ Loads(board, flight, "list")
     \/ mode = "project" /\ Local([board EXCEPT !.sprintPanel = ~@])
     \/ Local([board EXCEPT !.picking = ~@, !.picked = IF board.picking THEN {} ELSE @])

OpenDialog(b, status) ==
  [b EXCEPT !.dialog.open = TRUE, !.dialog.status = status,
            !.dialog.title = @ /\ board.dialog.open]

(* "New task", the first-task button, a card's menu and a column's plus.   *)
OpenCreate ==
  /\ Click /\ AtList
  /\ \/ Local(OpenDialog(board, "open"))
     \/ /\ ~board.loading /\ board.view = "board" /\ DOMAIN board.shown # {}
        /\ \E s \in Columns(board) : Local(OpenDialog(board, s))

-----------------------------------------------------------------------------
(* Cards.                                                                  *)
Deselected(b) == [b EXCEPT !.open = None, !.url = None]

(* Mutant: the address stays that of the board.                            *)
SelectedOnly(b, t) == [b EXCEPT !.open = t]

(* _selectTask: only a task of the list gets its address.                  *)
Selected(b, t) == [b EXCEPT !.open = t, !.url = IF t \in DOMAIN b.shown THEN t ELSE @]

CardClick(t) ==
  /\ Click /\ t \in Cards
  /\ IF board.picking /\ board.view = "list"
     THEN Local([board EXCEPT !.picked = IF t \in @ THEN @ \ {t} ELSE @ \cup {t}])
     ELSE board' = Selected(board, t)
          /\ UNCHANGED <<flight, unseen>>

CardMenu(t) ==
  /\ Click /\ t \in Cards /\ board.view = "list"
  /\ \/ \E s \in Status \ {board.shown[t].status} :
          Sends(board, <<Request("move", t, "status", s)>>)
     \/ Sends(board, <<Request("erase", t, "", None)>>)

(* Kanban: the task dragged is looked up again when it is dropped.         *)
Drag(t) ==
  /\ Click /\ t \in Cards /\ board.view = "board"
  /\ Local([board EXCEPT !.drag = t])

Drop ==
  /\ board.drag # None /\ AtBoard /\ UNCHANGED clicks
  /\ \/ Local([board EXCEPT !.drag = None])
     \/ \E s \in Columns(board) :
          /\ ~board.loading /\ board.view = "board"
          /\ IF board.drag \in DOMAIN board.shown /\ board.shown[board.drag].status # s
             THEN Sends([board EXCEPT !.drag = None], <<Request("move", board.drag, "status", s)>>)
             ELSE Local([board EXCEPT !.drag = None])
     \/ /\ board.sprintPanel /\ board.sprint /\ mode = "project"
        /\ Sends([board EXCEPT !.drag = None], <<Request("join", board.drag, "", None)>>)

(* The bar for the tasks picked: one request for each, all at once.        *)
Batch ==
  LET all == CHOOSE f \in [1..Cardinality(board.picked) -> board.picked] :
               Range(f) = board.picked
      each(op, value) == [i \in DOMAIN all |-> Request(op, all[i], "status", value)]
  IN /\ Click /\ AtList /\ board.picked # {} /\ ~board.busy
     /\ \/ \E s \in {"in_progress", "done"} :
             Sends([board EXCEPT !.busy = TRUE], each("batch", s))
        \/ Sends([board EXCEPT !.busy = TRUE], each("batchdel", None))

BatchCancel ==
  /\ Click /\ AtList /\ board.picked # {}
  /\ Local([board EXCEPT !.picked = {}, !.picking = FALSE])

-----------------------------------------------------------------------------
(* The dialog and the sprint panel.                                        *)
Submitted(b) == [b EXCEPT !.dialog.saving = @ + 1]

(* Enter in the title is not held up by a request under way, as the button *)
(* is.                                                                     *)
CreateDialog ==
  /\ Click /\ AtBoard /\ board.dialog.open
  /\ \/ ~board.dialog.title /\ Local([board EXCEPT !.dialog.title = TRUE])
     \/ board.dialog.title /\ Sends(Submitted(board), <<Request("create", None, "", board.dialog.status)>>)
     \/ Local([board EXCEPT !.dialog.open = FALSE])

SprintPanel ==
  /\ Click /\ AtList /\ mode = "project" /\ board.sprintPanel
  /\ \/ board.made /\ Local([board EXCEPT !.sprint = ~@])
     \/ ~board.made /\ ~board.naming
        /\ Sends([board EXCEPT !.naming = TRUE], <<Request("sprint", None, "", None)>>)
     \/ \E t \in SprintTasks(board) :
          \/ Sends(board, <<Request("part", t, "", None)>>)
          \/ Local(Selected(board, t))

-----------------------------------------------------------------------------
(* The keyboard and the browser's history.                                 *)
Escape ==
  /\ Click /\ ~board.dialog.open
  /\ IF board.picked # {} \/ board.picking
     THEN Local([board EXCEPT !.picked = {}, !.picking = FALSE])
     ELSE ~AtBoard /\ Loads(Deselected(board), flight, "list")

PopState ==
  /\ Click
  /\ \E u \in DOMAIN rows \cup {None} :
       LET b == [board EXCEPT !.url = u] IN
       IF u # None
       THEN Local(IF u \in DOMAIN board.shown THEN [b EXCEPT !.open = u] ELSE b)
       ELSE IF AtBoard THEN Local(b) ELSE Loads([b EXCEPT !.open = None], flight, "list")

-----------------------------------------------------------------------------
(* Answers.                                                                *)
Shows(b, n) ==
  IF flight[n].ok THEN [b EXCEPT !.shown = flight[n].data, !.fresh = flight[n].latest, !.loading = FALSE]
  ELSE [b EXCEPT !.error = TRUE, !.loading = FALSE]

Restored(b) == IF b.url \in DOMAIN b.shown THEN [b EXCEPT !.open = b.url] ELSE b

ListAnswer(n) ==
  LET r == flight[n] IN
  /\ r.op \in Listings
  /\ board' = CASE r.op = "list"  -> Shows(board, n)
                [] r.op = "first" -> Restored(Shows(board, n))
                [] r.op = "last"  -> [Shows(board, n) EXCEPT !.busy = FALSE]
  /\ Exchange(Without(n), <<>>)

(* _handleStatusChange, _handleDelete and the sprint panel's handlers.     *)
ChangeAnswer(n) ==
  LET r == flight[n] IN
  /\ r.op \in {"move", "erase", "join", "part", "sprint"}
  /\ CASE ~r.ok -> /\ board' = [board EXCEPT !.error = TRUE,
                                             !.naming = IF r.op = "sprint" THEN FALSE ELSE @]
                   /\ Exchange(Without(n), <<>>)
       [] r.ok /\ r.op = "sprint" -> /\ board' = [board EXCEPT !.made = TRUE, !.sprint = TRUE, !.naming = FALSE]
                                     /\ Exchange(Without(n), <<>>)
       [] r.ok /\ r.op # "sprint" ->
            IF r.op = "erase" /\ board.open = r.on
            THEN LoadsTwice(Deselected(board), Without(n))
            ELSE Loads(board, Without(n), "list")

(* Promise.all: the first failure ends the handler, whatever the other     *)
(* requests do; the last success drops the selection as it is by then.     *)
BatchAnswer(n) ==
  LET r == flight[n]
      rest == {m \in DOMAIN flight \ {n} : flight[m].op = r.op /\ flight[m].heard}
      late == flight' = [m \in DOMAIN Without(n) |->
                           IF Without(n)[m].op = r.op THEN [Without(n)[m] EXCEPT !.heard = FALSE]
                           ELSE Without(n)[m]]
      untold == unseen' = [unseen EXCEPT !["board"] = TRUE]
  IN /\ r.op \in {"batch", "batchdel"}
     /\ CASE ~r.heard -> flight' = Without(n) /\ untold /\ UNCHANGED board
          [] r.heard /\ ~r.ok ->
               late /\ untold /\ board' = [board EXCEPT !.error = TRUE, !.busy = FALSE]
          [] r.heard /\ r.ok /\ rest # {} -> Exchange(Without(n), <<>>) /\ UNCHANGED board
          [] OTHER -> Loads([board EXCEPT !.picked = {}], Without(n), "last")

CreateAnswer(n) ==
  LET r == flight[n]
      saved == [board EXCEPT !.dialog.saving = @ - 1]
  IN /\ r.op = "create"
     /\ IF r.ok THEN Loads([saved EXCEPT !.dialog.open = FALSE], Without(n), "list")
        ELSE board' = [saved EXCEPT !.error = TRUE] /\ Exchange(Without(n), <<>>)

BoardAnswer ==
  /\ \E n \in DOMAIN flight :
       /\ Answered(n)
       /\ ListAnswer(n) \/ ChangeAnswer(n) \/ BatchAnswer(n) \/ CreateAnswer(n)
  /\ UNCHANGED <<mode, serverVars, clicks, foreign, losses>>

BoardClick ==
  /\ \/ SetFilter \/ Toolbar \/ OpenCreate \/ Drop \/ Batch \/ BatchCancel \/ CreateDialog
     \/ SprintPanel \/ Escape \/ PopState
     \/ \E t \in Task : CardClick(t) \/ CardMenu(t) \/ Drag(t)
  /\ UNCHANGED <<mode, serverVars, foreign, losses>>
=============================================================================
