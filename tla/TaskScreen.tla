----------------------------- MODULE TaskScreen -----------------------------
(***************************************************************************)
(* The task page: the board and the detail it shows in place of its list,  *)
(* the server, the other clients and the notices they cause.               *)
(***************************************************************************)
EXTENDS TaskBoard, TaskDetail

CONSTANTS Here, Away  \* the tasks there are at first

ASSUME TaskScreenAssumption == Here \in Task /\ Away \in Task \ {Here}

vars == <<clientVars, board, detail>>

TypeOK == ClientTypeOK /\ BoardTypeOK /\ DetailTypeOK

(* Two tasks to begin with, the second not of the session; it blocks the   *)
(* first when the list is there at once.                                   *)
Init ==
  /\ mode \in {"session", "project"}
  /\ born = {Here, Away}
  /\ \E b \in {{}, {Away}} :
       rows = [t \in {Here, Away} |->
                 IF t = Here
                 THEN [Fresh("open") EXCEPT !.proof = TRUE, !.member = TRUE, !.blockers = b]
                 ELSE [Fresh("open") EXCEPT !.home = FALSE]]
  /\ joining = {} /\ notice = FALSE
  /\ unseen = [w \in {"board", "detail"} |-> FALSE]
  /\ clicks = 0 /\ foreign = 0 /\ losses = 0
  /\ BoardInit /\ DetailInit
  /\ board.loading <=> rows[Here].blockers = {}

-----------------------------------------------------------------------------
(* Lit renders the board before the next event.                            *)
Rendered == board.open = detail.id

Render ==
  /\ ~Rendered
  /\ CASE board.open = None -> Unmount
       [] board.open # None /\ detail.id = None -> Mount(board.open)
       [] OTHER -> ShowOther(board.open)
  /\ UNCHANGED <<mode, serverVars, clicks, foreign, losses, board>>

(* Events of the detail that the board handles: back, navigate-task,       *)
(* create-child.                                                           *)
Back ==
  /\ Click /\ detail.id # None /\ ~detail.loading /\ UNCHANGED detail
  /\ Loads(Deselected(board), flight, "list")
  /\ UNCHANGED <<mode, serverVars, foreign, losses>>

NavigateTask ==
  /\ Click /\ Shown /\ UNCHANGED detail
  /\ \E t \in (detail.task.blockers \cup {Parent[detail.taskId]}) \ {None} :
       Local(Selected(board, t))
  /\ UNCHANGED <<mode, serverVars, foreign, losses>>

CreateChild ==
  /\ Click /\ Shown /\ UNCHANGED detail
  /\ Loads(OpenDialog(Deselected(board), "open"), flight, "list")
  /\ UNCHANGED <<mode, serverVars, foreign, losses>>

(* The answer to a deletion closes the detail that is shown by then, even  *)
(* when the element that asked for it is gone.                             *)
DeleteAnswer(n) ==
  LET r == flight[n] IN
  /\ r.op = "delete" /\ Answered(n)
  /\ IF r.ok THEN Loads(Deselected(board), Without(n), "list") /\ UNCHANGED detail
     ELSE /\ detail' = IF Mine(r) THEN [detail EXCEPT !.error = TRUE] ELSE detail
          /\ UNCHANGED board /\ Exchange(Without(n), <<>>)
  /\ UNCHANGED <<mode, serverVars, clicks, foreign, losses>>

(* tasks-changed: the board reloads, and the detail when there is one.     *)
DeliverNotice ==
  /\ notice /\ notice' = FALSE
  /\ IF detail.id = None THEN Loads(board, flight, "list") /\ UNCHANGED detail
     ELSE /\ board' = [board EXCEPT !.loading = TRUE, !.error = FALSE, !.fresh = FALSE]
          /\ detail' = Fetching(detail)
          /\ Exchange(flight, <<ListRequest(board, "list"), Fetch(detail)>>)
  /\ UNCHANGED <<mode, rows, born, joining, clicks, foreign, losses>>

Quiet == UNCHANGED <<board, detail>>

Step ==
  \/ Serve /\ Quiet
  \/ Others /\ Quiet
  \/ (\E n \in DOMAIN flight : Fail(n)) /\ Quiet
  \/ BoardClick /\ UNCHANGED detail
  \/ DetailClick /\ UNCHANGED board
  \/ BoardAnswer /\ UNCHANGED detail
  \/ DetailAnswer /\ UNCHANGED board
  \/ Back \/ NavigateTask \/ CreateChild
  \/ \E n \in DOMAIN flight : DeleteAnswer(n)
  \/ DeliverNotice

Next == Render \/ (Rendered /\ Step)

Spec == Init /\ [][Next]_vars

-----------------------------------------------------------------------------
AtRest == Rendered /\ flight = <<>> /\ ~notice

(* At rest, the board shows what the server would list for the filters in  *)
(* force, unless its latest load failed or was overtaken by an earlier one *)
(* (_loadTasks keeps whichever answer comes last), or the last change was  *)
(* one nobody told it of.                                                  *)
BoardIsCurrent ==
  AtRest /\ AtBoard /\ board.fresh /\ ~unseen["board"]
    => board.shown = Listing(board.all, board.status)

(* At rest, the detail shows the task whose id it was given, as it is in   *)
(* the database, with the same exceptions.                                 *)
DetailIsCurrent ==
  AtRest /\ detail.id # None /\ detail.fresh /\ ~unseen["detail"]
    => /\ detail.taskId = detail.id /\ detail.id \in DOMAIN rows
       /\ detail.task = rows[detail.id]

(* A spinner stands for a request that is still to be answered: no early   *)
(* return and no failure of a load leaves one behind.                      *)
SpinnerHasRequest ==
  /\ board.loading => \E n \in DOMAIN flight : flight[n].op \in Listings
  /\ detail.loading => \E n \in DOMAIN flight : flight[n].op = "fetch" /\ Mine(flight[n])
  /\ board.busy => \E n \in DOMAIN flight : flight[n].op \in {"batch", "batchdel", "last"}

(* At the board's own address no detail is open, so that the browser's     *)
(* back button leads where the page says it is.                            *)
NoDetailAtBoardAddress == board.url = None => board.open = None

(* What the board and the detail show is what there is.                    *)
ScreenIsCurrent == BoardIsCurrent /\ DetailIsCurrent

(* What the page says of itself is so: it waits for an answer where it     *)
(* shows that it does, and its address and what is open agree.             *)
ScreenIsConsistent == SpinnerHasRequest /\ NoDetailAtBoardAddress

(* A task gets its closed_at only with commits or the mark for no code,    *)
(* although update_task decides on a row it read earlier: it writes every  *)
(* column of that row back.  Not so when the closing is an earlier one that*)
(* comes back: an update read the closed row, another one that had read it *)
(* open undid the closing, and the first then writes what it read.         *)
ReadClosed(t) ==
  \E n \in DOMAIN flight :
     /\ flight[n].stage = "read" /\ flight[n].op \in Updates
     /\ flight[n].on = t /\ flight[n].data.closedAt

FirstClosingHasProof ==
  [][\A t \in DOMAIN rows \cap DOMAIN rows' :
       ~rows[t].closedAt /\ rows'[t].closedAt => rows'[t].proof \/ ReadClosed(t)]_vars
=============================================================================
