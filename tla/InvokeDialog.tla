---------------------------- MODULE InvokeDialog ----------------------------
(***************************************************************************)
(* The dialog that starts an agent (invoke-dialog.ts) and the menus of the *)
(* pages that open it with a prompt of their own.  It is one element that  *)
(* is opened again and again: its fields outlive an opening, and so do the *)
(* requests it made.                                                       *)
(*                                                                         *)
(* A prompt is represented by the perspective it was written for, or Own   *)
(* when the user typed it, and of the optional fields only whether they    *)
(* hold a value.  Beside the fields the specification keeps when each text *)
(* was written: in which opening, and after how many successful requests.  *)
(***************************************************************************)
EXTENDS Naturals, FiniteSets

CONSTANTS
  Talk,          \* sessions of the agent program that can be continued
  Empty,         \* no text, no session
  Own,           \* a prompt of the user's
  MaxOpenings,   \* bound on openings
  MaxChanges,    \* bound on entries in the fields
  MaxRefusals    \* bound on requests that fail

ASSUME DialogAssumption ==
  /\ Empty \notin Talk /\ Empty # Own
  /\ MaxOpenings \in Nat /\ MaxChanges \in Nat /\ MaxRefusals \in Nat

VARIABLES
  place,         \* the page the dialog is on, or "none"
  dialog,        \* its fields
  opening,       \* the last opening: its number, the session it was to continue, and whether it gave a prompt
  written,       \* when each text was written last
  starts,        \* how many requests have succeeded
  loose,         \* the prompt was typed, or set or kept without a perspective of its own
  cleared,       \* a request of an earlier opening succeeded during this one
  posts,         \* requests under way
  checks,        \* questions about Coder under way
  changes, refusals

dialogVars == <<place, dialog, opening, written, starts, loose, cleared, posts, checks, changes,
                refusals>>

Perspective == {"coder", "reviewer", "planner", "tester", "researcher"}
(* The fields that may stay empty, and all the texts of the dialog.        *)
Option == {"branch", "systemPrompt", "modelHint", "budgetTier"}
Texts == Option \cup {"prompt"}

Coder == {"unknown", "connected", "down"}

(* The prompts of each page's menu, by the perspective each is for.        *)
PlanMenu        == {"reviewer", "coder", "planner"}
RequestMenu     == {"researcher", "planner", "reviewer"}
RequestListMenu == {"researcher"}
RequirementMenu == {"planner", "coder"}
TaskMenu        == {"planner", "reviewer", "coder"}
TaskButtons     == {"coder", "planner", "reviewer"}
AgentMenu       == {"coder", "reviewer", "tester"}
WorkspaceMenu   == {"tester", "coder", "reviewer"}
OverviewMenu    == {"researcher", "planner"}
ProjectMenu     == {"reviewer", "planner"}
RerunMenu       == Perspective

Menu == [plan |-> PlanMenu, request |-> RequestMenu, requests |-> RequestListMenu,
         requirement |-> RequirementMenu, task |-> TaskMenu, taskPage |-> TaskButtons, agent |-> AgentMenu,
         workspace |-> WorkspaceMenu, overview |-> OverviewMenu, project |-> ProjectMenu,
         invocation |-> RerunMenu]

Time == [opening : Nat, starts : Nat]

Request == [opening : Nat, session : Talk \cup {Empty}, given : BOOLEAN, perspective : Perspective,
            prompt : Perspective \cup {Own}, resume : Talk \cup {Empty}, options : SUBSET Option,
            written : [Texts -> Time], starts : Nat, loose : BOOLEAN, cleared : BOOLEAN]

DialogTypeOK ==
  /\ place \in DOMAIN Menu \cup {"none"}
  /\ dialog \in [open : BOOLEAN, perspective : Perspective, prompt : Perspective \cup {Own, Empty},
                 options : SUBSET Option, resume : Talk \cup {Empty}, submitting : BOOLEAN, coder : Coder]
  /\ opening \in [n : 0 .. MaxOpenings, session : Talk \cup {Empty}, given : BOOLEAN]
  /\ written \in [Texts -> Time] /\ starts \in Nat /\ loose \in BOOLEAN /\ cleared \in BOOLEAN
  /\ posts \subseteq Request /\ checks \in 0 .. MaxOpenings
  /\ changes \in 0 .. MaxChanges /\ refusals \in 0 .. MaxRefusals

DialogInit ==
  /\ place \in DOMAIN Menu \cup {"none"}
  /\ dialog = [open |-> FALSE, perspective |-> "coder", prompt |-> Empty, options |-> {}, resume |-> Empty,
               submitting |-> FALSE, coder |-> "unknown"]
  /\ opening = [n |-> 0, session |-> Empty, given |-> FALSE]
  /\ written = [t \in Texts |-> [opening |-> 0, starts |-> 0]] /\ starts = 0
  /\ loose = FALSE /\ cleared = FALSE
  /\ posts = {} /\ checks = 0 /\ changes = 0 /\ refusals = 0

-----------------------------------------------------------------------------
(* What is written now, in the n-th opening.                               *)
Write(f, n) == written' = [t \in Texts |-> IF t = f THEN [opening |-> n, starts |-> starts] ELSE written[t]]

(* Every opening forgets the error and what was being submitted, and asks  *)
(* whether Coder is there.                                                 *)
Opens(session, gives, fields) ==
  /\ place # "none" /\ ~dialog.open /\ opening.n < MaxOpenings
  /\ opening' = [n |-> opening.n + 1, session |-> session, given |-> gives] /\ cleared' = FALSE
  /\ dialog' = fields /\ checks' = checks + 1
  /\ UNCHANGED <<place, starts, posts, changes, refusals>>

(* The pages that always give a prompt.                                    *)
Preset == {"requests", "taskPage", "invocation"}

(* No opening touches the optional fields.                                 *)
Opened == [dialog EXCEPT !.open = TRUE, !.submitting = FALSE, !.resume = Empty]

(* show: the prompt and the perspective, too, stay what they were.         *)
Show == place \notin Preset /\ Opens(Empty, FALSE, Opened) /\ UNCHANGED <<written, loose>>

(* An opening with a prompt, which may be empty.                           *)
OpensWith(session, fields) == Opens(session, TRUE, fields) /\ Write("prompt", opening.n + 1)

(* showWithPrompt, of the task's panel: the perspective stays.             *)
ShowWithPrompt == place = "task" /\ OpensWith(Empty, [Opened EXCEPT !.prompt = "coder"]) /\ loose' = TRUE

ShowWithPerspective(p) ==
  /\ place # "none" /\ p \in Menu[place]
  /\ OpensWith(Empty, [Opened EXCEPT !.perspective = p, !.prompt = p]) /\ loose' = FALSE

(* The page of the project answers an invocation's Continue with its own   *)
(* dialog.                                                                 *)
ShowContinue(k, p) ==
  /\ place = "project"
  /\ OpensWith(k, [dialog EXCEPT !.open = TRUE, !.submitting = FALSE, !.perspective = p, !.prompt = Empty,
                                 !.resume = k])
  /\ loose' = FALSE

(* hide keeps all that was entered.                                        *)
Hide ==
  /\ dialog.open /\ dialog' = [dialog EXCEPT !.open = FALSE]
  /\ UNCHANGED <<place, opening, written, starts, loose, cleared, posts, checks, changes, refusals>>

CoderChecked(s) ==
  /\ checks > 0 /\ checks' = checks - 1 /\ dialog' = [dialog EXCEPT !.coder = s]
  /\ UNCHANGED <<place, opening, written, starts, loose, cleared, posts, changes, refusals>>

-----------------------------------------------------------------------------
(* What the open dialog offers.                                            *)
Fields  == IF dialog.open THEN Texts \cup {"perspective"} ELSE {}
Buttons == IF dialog.open /\ dialog.coder # "down" /\ ~dialog.submitting THEN {"launch"} ELSE {}

Change(f, d) ==
  /\ f \in Fields /\ changes < MaxChanges /\ changes' = changes + 1 /\ dialog' = d /\ Write(f, opening.n)
  /\ UNCHANGED <<place, opening, starts, cleared, posts, checks, refusals>>

TypePrompt == Change("prompt", [dialog EXCEPT !.prompt = Own]) /\ loose' = TRUE
ChoosePerspective(p) ==
  p # dialog.perspective /\ Change("perspective", [dialog EXCEPT !.perspective = p]) /\ loose' = TRUE

EnterOption(f) == Change(f, [dialog EXCEPT !.options = dialog.options \cup {f}]) /\ UNCHANGED loose
ClearOption(f) ==
  /\ f \in Fields \cap dialog.options /\ dialog' = [dialog EXCEPT !.options = dialog.options \ {f}]
  /\ UNCHANGED <<place, opening, written, starts, loose, cleared, posts, checks, changes, refusals>>

ThisRequest ==
  [opening |-> opening.n, session |-> opening.session, given |-> opening.given, perspective |-> dialog.perspective,
   prompt |-> dialog.prompt, resume |-> dialog.resume, options |-> dialog.options, written |-> written,
   starts |-> starts, loose |-> loose, cleared |-> cleared]

Submit ==
  /\ "launch" \in Buttons /\ dialog.prompt # Empty
  /\ dialog' = [dialog EXCEPT !.submitting = TRUE] /\ posts' = posts \cup {ThisRequest}
  /\ UNCHANGED <<place, opening, written, starts, loose, cleared, checks, changes, refusals>>

(* The answer closes and empties the dialog, whatever it is open for now.  *)
StartedWith(r, d) ==
  /\ r \in posts /\ posts' = posts \ {r} /\ starts' = starts + 1
  /\ dialog' = d /\ cleared' = (cleared \/ r.opening # opening.n)
  /\ UNCHANGED <<place, opening, written, loose, checks, changes, refusals>>

(* Mutant: the optional fields stay.                                       *)
StartedKeepingOptions(r) ==
  StartedWith(r, [dialog EXCEPT !.open = FALSE, !.prompt = Empty, !.resume = Empty, !.submitting = FALSE])

Started(r) ==
  StartedWith(r, [dialog EXCEPT !.open = FALSE, !.prompt = Empty, !.options = {}, !.resume = Empty,
                                !.submitting = FALSE])

Refused(r) ==
  /\ r \in posts /\ refusals < MaxRefusals /\ refusals' = refusals + 1 /\ posts' = posts \ {r}
  /\ dialog' = [dialog EXCEPT !.submitting = FALSE] /\ cleared' = (cleared \/ r.opening # opening.n)
  /\ UNCHANGED <<place, opening, written, starts, loose, checks, changes>>

DialogNext ==
  \/ Show \/ ShowWithPrompt \/ Hide \/ TypePrompt \/ Submit
  \/ \E p \in Perspective : ShowWithPerspective(p) \/ ChoosePerspective(p) \/ \E k \in Talk : ShowContinue(k, p)
  \/ \E f \in Option : EnterOption(f) \/ ClearOption(f)
  \/ \E s \in Coder \ {"unknown"} : CoderChecked(s)
  \/ \E r \in posts : Started(r) \/ Refused(r)

DialogSpec == DialogInit /\ [][DialogNext]_dialogVars

-----------------------------------------------------------------------------
(* An agent is started in the session that the user continued, and in no   *)
(* other: what an earlier opening was to continue is never taken up again. *)
(* Only an answer that came late can make it forget the session.           *)
ContinueResumes ==
  \A r \in posts : r.resume = r.session \/ (r.cleared /\ r.resume = Empty)

(* A prompt that a page wrote for one perspective goes to that, unless the *)
(* user changed it or the opening set the prompt alone.                    *)
PromptFits == \A r \in posts : r.loose \/ r.prompt = r.perspective \/ r.prompt = Own

(* An opening has one request under way, unless an answer to an earlier    *)
(* opening freed the button.                                               *)
OneRequestPerOpening ==
  \A r, o \in posts : r.opening = o.opening /\ r # o => r.cleared \/ o.cleared

(* What an invocation was started with is spent: no request that is made   *)
(* after it succeeded carries a prompt, a branch or another option entered *)
(* before.  What was entered in an opening that started nothing may go     *)
(* into the request of a later one: hide and show keep it.                 *)
SpentIsForgotten ==
  \A r \in posts : \A t \in r.options \cup {"prompt"} : r.written[t].starts = r.starts

(* And a prompt of an earlier opening only goes into one that gave none.   *)
PromptIsOfOpening == \A r \in posts : r.given => r.written["prompt"].opening = r.opening

(* What is started is what this opening of the dialog was for, and not     *)
(* what was started already.                                               *)
StartsWhatIsShown ==
  ContinueResumes /\ PromptFits /\ OneRequestPerOpening /\ SpentIsForgotten /\ PromptIsOfOpening
=============================================================================
