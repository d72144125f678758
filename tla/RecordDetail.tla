---------------------------- MODULE RecordDetail ----------------------------
(***************************************************************************)
(* The pages of one plan, feature request or requirement                   *)
(* (plan-detail.ts, request-detail.ts, requirement-detail.ts) and the      *)
(* handlers that change the record (routes/plans.rs, requests.rs,          *)
(* requirements.rs).  The three pages are alike: a record is loaded, its   *)
(* text edited, and its status moved along a table that page and server    *)
(* each keep for themselves.  A text is represented by who wrote it.       *)
(***************************************************************************)
EXTENDS Naturals

CONSTANTS
  NoRecord,      \* no record, no request
  MaxTouches,    \* bound on what the user does
  MaxUpsets      \* bound on changes by others and on saves and moves that fail, together

VARIABLES
  sort,          \* "plan", "request", "requirement", or "none"
  rec,           \* the record at the server; ver counts its changes
  card,          \* the page
  calls,         \* the page's requests, by what they are for
  newest, late,  \* the newest version the page was given; an older one came last
  unnoticed,     \* the version last made that no answer to the page told of
  adrift,        \* requests that failed for the page and may still be handled
  touches, foreign, losses

detailVars == <<sort, rec, card, calls, newest, late, unnoticed, adrift, touches, foreign, losses>>

-----------------------------------------------------------------------------
(* What the server allows.                                                 *)
PlanAllowed ==
  [draft |-> {"review", "abandoned"}, review |-> {"accepted", "draft", "abandoned"},
   accepted |-> {"superseded", "abandoned"}, superseded |-> {}, abandoned |-> {}]

RequestAllowed ==
  [pending |-> {"analyzing", "archived"}, analyzing |-> {"decomposed", "pending", "archived"},
   decomposed |-> {"archived", "pending"}, archived |-> {"pending"}]

RequirementAllowed ==
  [draft |-> {"active", "archived"}, active |-> {"satisfied", "archived"},
   satisfied |-> {"active", "archived"}, archived |-> {"draft"}]

Allowed == [plan |-> PlanAllowed, request |-> RequestAllowed, requirement |-> RequirementAllowed]

(* What the pages offer.                                                   *)
PlanTransitions ==
  [draft |-> {"review", "abandoned"}, review |-> {"accepted", "draft", "abandoned"},
   accepted |-> {"superseded", "abandoned"}, superseded |-> {}, abandoned |-> {}]

RequestTransitions ==
  [pending |-> {"analyzing", "archived"}, analyzing |-> {"decomposed", "archived"},
   decomposed |-> {"archived"}, archived |-> {"pending"}]

RequirementTransitions ==
  [draft |-> {"active", "archived"}, active |-> {"satisfied", "archived"},
   satisfied |-> {"active", "archived"}, archived |-> {"draft"}]

Transitions ==
  [plan |-> PlanTransitions, request |-> RequestTransitions, requirement |-> RequirementTransitions]

PlanEditable        == {"draft", "review"}
RequestEditable     == {"pending", "analyzing"}
RequirementEditable == {"draft", "active"}

Editable == [plan |-> PlanEditable, request |-> RequestEditable, requirement |-> RequirementEditable]

Sorts == {"plan", "request", "requirement"}
Statuses == UNION {DOMAIN Allowed[k] : k \in Sorts}
Record == [status : Statuses, title : {"first", "mine", "theirs"}, ver : Nat]
Ops == {"load", "reload", "save", "move"}
DetailCall == [stage : {"sent", "read", "done", "refused"}, to : Statuses \cup {NoRecord},
               from : Statuses \cup {NoRecord}, title : {"mine", "theirs", "first", NoRecord},
               got : Record \cup {NoRecord}]

Adrift == [loss : Nat, call : DetailCall]

ASSUME RecordAssumption == NoRecord \notin Statuses \cup Record \cup DetailCall

DetailTypeOK ==
  /\ sort \in Sorts \cup {"none"}
  /\ rec \in Record /\ (sort # "none" => rec.status \in DOMAIN Allowed[sort])
  /\ card \in [shown : Record \cup {NoRecord}, loading : BOOLEAN, editing : BOOLEAN,
               title : {"first", "mine", "theirs"}, saving : BOOLEAN, moving : BOOLEAN]
  /\ calls \in [Ops -> DetailCall \cup {NoRecord}]
  /\ newest \in Nat /\ late \in BOOLEAN /\ unnoticed \in Nat /\ adrift \subseteq Adrift
  /\ touches \in Nat /\ foreign \in Nat /\ losses \in Nat

Call(to, from, title) == [stage |-> "sent", to |-> to, from |-> from, title |-> title, got |-> NoRecord]
AskRecord == Call(NoRecord, NoRecord, NoRecord)

(* connectedCallback and the first updated both load.                      *)
DetailInit ==
  /\ sort \in Sorts \cup {"none"}
  /\ IF sort = "none" THEN rec = [status |-> "draft", title |-> "first", ver |-> 1]
     ELSE rec \in [status : DOMAIN Allowed[sort], title : {"first"}, ver : {1}]
  /\ card = [shown |-> NoRecord, loading |-> TRUE, editing |-> FALSE, title |-> "first",
             saving |-> FALSE, moving |-> FALSE]
  /\ calls = [o \in Ops |-> IF sort # "none" /\ o \in {"load", "reload"} THEN AskRecord ELSE NoRecord]
  /\ newest = 0 /\ late = FALSE /\ unnoticed = 0 /\ adrift = {} /\ touches = 0 /\ foreign = 0 /\ losses = 0

-----------------------------------------------------------------------------
(* The controls that render puts on the page: first its head, then its     *)
(* body.  Each button stays busy for its own request only.                 *)
Ready == ~card.loading /\ card.shown # NoRecord

PlanHead ==
  (IF card.shown.status \in PlanEditable /\ ~card.editing THEN {"edit"} ELSE {})
  \cup (IF card.moving THEN {} ELSE PlanTransitions[card.shown.status])
PlanBody == IF card.editing THEN {"title", "cancel"} \cup (IF card.saving THEN {} ELSE {"save"}) ELSE {}

RequestHead ==
  (IF card.shown.status \in RequestEditable /\ ~card.editing THEN {"edit"} ELSE {})
  \cup (IF card.moving THEN {} ELSE RequestTransitions[card.shown.status])
RequestBody == IF card.editing THEN {"title", "cancel"} \cup (IF card.saving THEN {} ELSE {"save"}) ELSE {}

RequirementHead ==
  (IF card.shown.status \in RequirementEditable /\ ~card.editing THEN {"edit"} ELSE {})
  \cup (IF card.moving THEN {} ELSE RequirementTransitions[card.shown.status])
RequirementBody == IF card.editing THEN {"title", "cancel"} \cup (IF card.saving THEN {} ELSE {"save"}) ELSE {}

Controls ==
  CASE ~Ready \/ sort = "none" -> {}
    [] Ready /\ sort = "plan" -> PlanHead \cup PlanBody
    [] Ready /\ sort = "request" -> RequestHead \cup RequestBody
    [] OTHER -> RequirementHead \cup RequirementBody

Touch(c) == c \in Controls /\ touches < MaxTouches /\ touches' = touches + 1
            /\ UNCHANGED <<sort, rec, newest, late, unnoticed, adrift, foreign, losses>>

StartEdit ==
  /\ Touch("edit") /\ card' = [card EXCEPT !.editing = TRUE, !.title = card.shown.title]
  /\ UNCHANGED calls

EditTitle == /\ Touch("title") /\ card.title # "mine" /\ card' = [card EXCEPT !.title = "mine"]
             /\ UNCHANGED calls

CancelEdit == Touch("cancel") /\ card' = [card EXCEPT !.editing = FALSE] /\ UNCHANGED calls

(* Only what differs from the record shown is sent.                        *)
SaveEdit ==
  /\ Touch("save")
  /\ IF card.title = card.shown.title
     THEN card' = [card EXCEPT !.editing = FALSE] /\ UNCHANGED calls
     ELSE /\ card' = [card EXCEPT !.saving = TRUE]
          /\ calls' = [calls EXCEPT !["save"] = Call(NoRecord, NoRecord, card.title)]

Transition(s) ==
  /\ s \in Statuses /\ Touch(s) /\ card' = [card EXCEPT !.moving = TRUE]
  /\ calls' = [calls EXCEPT !["move"] = Call(s, card.shown.status, NoRecord)]

-----------------------------------------------------------------------------
(* The handlers: the row is read and the transition checked, and then the  *)
(* columns sent are written, whatever the row is by now.                   *)
Waits(o, stage) == calls[o] # NoRecord /\ calls[o].stage = stage

HandlerReads(o) ==
  /\ Waits(o, "sent")
  /\ LET c == calls[o] IN
     calls' = [calls EXCEPT ![o] =
       CASE o \in {"load", "reload"} -> [c EXCEPT !.stage = "done", !.got = rec]
         [] o = "move" /\ c.to \notin Allowed[sort][rec.status] -> [c EXCEPT !.stage = "refused", !.got = rec]
         [] OTHER -> [c EXCEPT !.stage = "read"]]
  /\ UNCHANGED <<sort, rec, card, newest, late, unnoticed, adrift, touches, foreign, losses>>

(* The columns of a request, written.                                      *)
Written(c) ==
  [status |-> IF c.to = NoRecord THEN rec.status ELSE c.to,
   title |-> IF c.title = NoRecord THEN rec.title ELSE c.title, ver |-> rec.ver + 1]

HandlerWrites(o) ==
  /\ Waits(o, "read") /\ rec' = Written(calls[o])
  /\ calls' = [calls EXCEPT ![o] = [calls[o] EXCEPT !.stage = "done", !.got = rec']]
  /\ UNCHANGED <<sort, card, newest, late, unnoticed, adrift, touches, foreign, losses>>

(* The handler of a request whose page has given it up.                    *)
AdriftReads(a) ==
  /\ a \in adrift /\ a.call.stage = "sent" /\ a.call.to \in Allowed[sort][rec.status] \cup {NoRecord}
  /\ adrift' = (adrift \ {a}) \cup {[a EXCEPT !.call = [a.call EXCEPT !.stage = "read"]]}
  /\ UNCHANGED <<sort, rec, card, calls, newest, late, unnoticed, touches, foreign, losses>>

AdriftWrites(a) ==
  /\ a \in adrift /\ a.call.stage = "read" /\ adrift' = adrift \ {a}
  /\ rec' = Written(a.call) /\ unnoticed' = rec.ver + 1
  /\ UNCHANGED <<sort, card, calls, newest, late, touches, foreign, losses>>

(* An agent or another user.                                               *)
OthersChange ==
  /\ sort # "none" /\ foreign + losses < MaxUpsets /\ foreign' = foreign + 1
  /\ \E s \in Allowed[sort][rec.status] \cup {rec.status} :
       rec' = [status |-> s, title |-> IF s = rec.status THEN "theirs" ELSE rec.title, ver |-> rec.ver + 1]
  /\ unnoticed' = rec.ver + 1
  /\ UNCHANGED <<sort, card, calls, newest, late, adrift, touches, losses>>

(* The page takes the record it is given, in whatever order that comes.    *)
Given(o, p) == card' = p /\ calls' = [calls EXCEPT ![o] = NoRecord]
               /\ newest' = (IF calls[o].got.ver > newest THEN calls[o].got.ver ELSE newest)
               /\ late' = (calls[o].got.ver < newest)
               /\ UNCHANGED <<sort, rec, unnoticed, adrift, touches, foreign, losses>>

LoadAnswered(o) ==
  /\ o \in {"load", "reload"} /\ Waits(o, "done")
  /\ Given(o, [card EXCEPT !.shown = calls[o].got, !.loading = FALSE])

LoadFailed(o) ==
  /\ o \in {"load", "reload"} /\ calls[o] # NoRecord
  /\ card' = [card EXCEPT !.loading = FALSE] /\ calls' = [calls EXCEPT ![o] = NoRecord]
  /\ UNCHANGED <<sort, rec, newest, late, unnoticed, adrift, touches, foreign, losses>>

(* Mutant: the answer closes the editor and the page keeps its record.     *)
SaveAnsweredOnly ==
  Waits("save", "done") /\ Given("save", [card EXCEPT !.saving = FALSE, !.editing = FALSE])

SaveAnswered ==
  Waits("save", "done")
  /\ Given("save", [card EXCEPT !.shown = calls["save"].got, !.saving = FALSE, !.editing = FALSE])

MoveAnswered ==
  Waits("move", "done") /\ Given("move", [card EXCEPT !.shown = calls["move"].got, !.moving = FALSE])

MoveRefused ==
  /\ Waits("move", "refused")
  /\ card' = [card EXCEPT !.moving = FALSE] /\ calls' = [calls EXCEPT !["move"] = NoRecord]
  /\ UNCHANGED <<sort, rec, newest, late, unnoticed, adrift, touches, foreign, losses>>

(* The catch of a save and of a move: the page reports the error and keeps *)
(* the record it has, and an editor stays open.  The request may not have  *)
(* been handled, it may be handled yet, and it may have been: then only    *)
(* its answer is lost.                                                     *)
Fails(o, p) ==
  /\ calls[o] # NoRecord /\ foreign + losses < MaxUpsets /\ losses' = losses + 1
  /\ card' = p /\ calls' = [calls EXCEPT ![o] = NoRecord]
  /\ LET c == calls[o] IN
     /\ unnoticed' = (IF c.stage = "done" /\ c.got.ver > unnoticed THEN c.got.ver ELSE unnoticed)
     /\ \/ adrift' = adrift
        \/ c.stage \in {"sent", "read"} /\ adrift' = adrift \cup {[loss |-> losses, call |-> c]}
  /\ UNCHANGED <<sort, rec, newest, late, touches, foreign>>

SaveFails == Fails("save", [card EXCEPT !.saving = FALSE])
MoveFails == Fails("move", [card EXCEPT !.moving = FALSE])

DetailNext ==
  \/ StartEdit \/ EditTitle \/ CancelEdit \/ SaveEdit \/ OthersChange
  \/ SaveAnswered \/ MoveAnswered \/ MoveRefused \/ SaveFails \/ MoveFails
  \/ \E s \in Statuses : Transition(s)
  \/ \E o \in Ops : HandlerReads(o) \/ HandlerWrites(o) \/ LoadAnswered(o) \/ LoadFailed(o)
  \/ \E a \in adrift : AdriftReads(a) \/ AdriftWrites(a)

DetailSpec == DetailInit /\ [][DetailNext]_detailVars

-----------------------------------------------------------------------------
(* The server refuses a move that the page offers only when the record is  *)
(* not what the page showed: the two tables agree.                         *)
RefusedOnlyWhenStale == Waits("move", "refused") => calls["move"].got.status # calls["move"].from

(* At rest the page shows the record as it is, unless it was changed since *)
(* by somebody else, or by a request of the page whose answer was lost, or *)
(* an older answer came last.                                              *)
RecordCurrent ==
  (\A o \in Ops : calls[o] = NoRecord) /\ card.shown # NoRecord /\ ~late /\ unnoticed <= newest =>
    card.shown = rec

(* The page and the record, with the tables of both sides.                 *)
RecordFollows == RefusedOnlyWhenStale /\ RecordCurrent
=============================================================================
