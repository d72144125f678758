---------------------------- MODULE SessionPanels ----------------------------
(***************************************************************************)
(* The panels of a session beside its tasks: the questions of agents       *)
(* (question-panel.ts, routes/questions.rs), the notes (notes-panel.ts),   *)
(* the feed and the view of activity (activity-feed.ts, activity-view.ts)  *)
(* and the console of an agent (agent-console.ts).                         *)
(*                                                                         *)
(* The panels share no state: kind says which of them moves.  A text is    *)
(* represented by what it was written for, a list by how much it holds.    *)
(***************************************************************************)
EXTENDS Naturals, FiniteSets

CONSTANTS
  Question, Note, Actor,
  Nothing,     \* no question, note, actor or text
  Others,      \* a text of another participant
  MaxUses,     \* bound on what the user does
  MaxNews,     \* bound on what the others do
  MaxFails     \* bound on failed requests

ASSUME PanelAssumption ==
  /\ {Nothing, Others} \cap (Question \cup Note \cup Actor) = {} /\ Note # {} /\ Actor # {}
  /\ MaxUses \in Nat /\ MaxNews \in Nat /\ MaxFails \in Nat

VARIABLES
  kind,        \* the panel that moves, if any is shown
  questions, notes, activity, console,
  news, linked, \* how much has happened; the session's socket delivers
  uses, fails

panelVars == <<kind, questions, notes, activity, console, news, linked, uses, fails>>

(* A request that the server has not read yet.                             *)
NotYet == MaxNews + 1

Sent(S) == [id : S, text : S \cup {Nothing, Others}, stage : {"sent", "read", "done", "refused"}]
Status  == {"pending", "answered", "cancelled"}
ConsoleLoad == [part : {"messages", "info"}, of : Actor, n : 0 .. MaxNews + MaxUses + 1]
Post    == [of : Actor, again : BOOLEAN, stage : {"sent", "done", "left"}]

PanelsTypeOK ==
  /\ kind \in {"none", "questions", "notes", "feed", "view", "console"}
  /\ questions \in [status : [Question -> Status], text : [Question -> Question \cup {Nothing, Others}],
                    seen : [Question -> Status], answering : Question \cup {Nothing}, draft : Question \cup {Nothing},
                    submit : Sent(Question) \cup {Nothing}, dismissing : SUBSET Question]
  /\ notes \in [content : [Note -> Note \cup {Nothing}], exists : SUBSET Note, seen : SUBSET Note,
                active : Note \cup {Nothing}, editing : BOOLEAN, edit : Note \cup {Nothing},
                save : Sent(Note) \cup {Nothing}, creating : SUBSET Note]
  /\ activity \in [of : Actor, loads : SUBSET [of : Actor, n : 0 .. NotYet],
               shown : [of : Actor, n : 0 .. MaxNews], missed : BOOLEAN]
  /\ console \in [who : Actor \cup {Nothing}, mail : [Actor -> Nat], loads : SUBSET ConsoleLoad,
                  messages : [of : Actor \cup {Nothing}, n : Nat], info : Actor \cup {Nothing},
                  box : BOOLEAN, posts : SUBSET Post, untold : BOOLEAN, missed : BOOLEAN]
  /\ news \in 0 .. MaxNews /\ linked \in BOOLEAN /\ uses \in Nat /\ fails \in Nat

AnActor == CHOOSE a \in Actor : TRUE
Asked(a) == [of |-> a, n |-> NotYet]

(* The console is an element that is made when it is opened and removed    *)
(* when it is closed; the messages with the agents are the server's.       *)
Closed(mail) ==
  [who |-> Nothing, mail |-> mail, loads |-> {}, messages |-> [of |-> Nothing, n |-> 0], info |-> Nothing,
   box |-> FALSE, posts |-> {}, untold |-> FALSE, missed |-> FALSE]

PanelsInit ==
  /\ kind \in {"none", "questions", "notes", "feed", "view", "console"}
  /\ questions = [status |-> [i \in Question |-> "pending"], text |-> [i \in Question |-> Nothing],
                  seen |-> [i \in Question |-> "pending"], answering |-> Nothing,
                  draft |-> Nothing, submit |-> Nothing, dismissing |-> {}]
  /\ \E n \in IF kind = "notes" THEN Note ELSE {CHOOSE n \in Note : TRUE} :
       notes = [content |-> [s \in Note |-> IF s = n THEN n ELSE Nothing], exists |-> {n}, seen |-> {n},
                active |-> n, editing |-> FALSE, edit |-> Nothing, save |-> Nothing, creating |-> {}]
  /\ activity = [of |-> AnActor, loads |-> {Asked(AnActor)}, shown |-> [of |-> AnActor, n |-> 0], missed |-> FALSE]
  /\ console = Closed([a \in Actor |-> 0])
  /\ news = 0 /\ linked = TRUE /\ uses = 0 /\ fails = 0

Use(k)  == kind = k /\ uses < MaxUses /\ uses' = uses + 1 /\ UNCHANGED <<kind, news, linked, fails>>
Goes(k) == kind = k /\ UNCHANGED <<kind, news, linked, uses, fails>>
News(k) == kind = k /\ news < MaxNews /\ news' = news + 1 /\ UNCHANGED <<kind, linked, uses, fails>>

-----------------------------------------------------------------------------
(* question-panel.ts.  A load takes a step: its delay makes the list older,*)
(* which it is anyway until the next one.                                  *)
AskQuestions(q) == UNCHANGED <<notes, activity, console>> /\ questions' = q

LoadQuestions == Goes("questions") /\ AskQuestions([questions EXCEPT !.seen = questions.status])

SetFilterOfQuestions ==
  /\ Use("questions")
  /\ AskQuestions([questions EXCEPT !.seen = questions.status])

(* The buttons are those of a question that the list shows as pending.     *)
Pending(i) == questions.seen[i] = "pending"

StartAnswering(i) ==
  /\ Use("questions") /\ Pending(i) /\ questions.answering # i
  /\ AskQuestions([questions EXCEPT !.answering = i, !.draft = Nothing])

TypeAnswer ==
  /\ Use("questions") /\ questions.answering # Nothing /\ questions.draft = Nothing
  /\ AskQuestions([questions EXCEPT !.draft = questions.answering])

CancelAnswering ==
  /\ Use("questions") /\ questions.answering # Nothing
  /\ AskQuestions([questions EXCEPT !.answering = Nothing, !.draft = Nothing])

SubmitAnswer ==
  /\ Use("questions") /\ questions.answering # Nothing /\ Pending(questions.answering)
  /\ questions.draft # Nothing /\ questions.submit = Nothing
  /\ AskQuestions([questions EXCEPT !.submit = [id |-> questions.answering, text |-> questions.draft, stage |-> "sent"]])

(* answer_question reads that the question is pending, and then updates it *)
(* whatever it is.                                                         *)
AnswerReads ==
  /\ Goes("questions") /\ questions.submit # Nothing /\ questions.submit.stage = "sent"
  /\ AskQuestions([questions EXCEPT !.submit.stage =
                     IF questions.status[questions.submit.id] = "pending" THEN "read" ELSE "refused"])

AnswerWrites ==
  /\ Goes("questions") /\ questions.submit # Nothing /\ questions.submit.stage = "read"
  /\ LET r == questions.submit IN
     AskQuestions([questions EXCEPT !.submit.stage = "done", !.status[r.id] = "answered", !.text[r.id] = r.text])

(* An answer that was taken empties the box, whatever is in it by now.     *)
AnswerTaken ==
  /\ Goes("questions") /\ questions.submit # Nothing /\ questions.submit.stage = "done"
  /\ AskQuestions([questions EXCEPT !.submit = Nothing, !.answering = Nothing, !.draft = Nothing,
                   !.seen = questions.status])

AnswerRefused ==
  /\ Goes("questions") /\ questions.submit # Nothing /\ questions.submit.stage = "refused"
  /\ AskQuestions([questions EXCEPT !.submit = Nothing])

DismissQuestion(i) ==
  /\ Use("questions") /\ Pending(i) /\ AskQuestions([questions EXCEPT !.dismissing = @ \cup {i}])

(* cancel_question updates only a pending question.                        *)
Dismissed(i) ==
  /\ Goes("questions") /\ i \in questions.dismissing
  /\ LET status == [questions.status EXCEPT ![i] = IF @ = "pending" THEN "cancelled" ELSE @] IN
     AskQuestions([questions EXCEPT !.dismissing = @ \ {i}, !.status = status, !.seen = status])

OthersDecide(i) ==
  /\ News("questions") /\ questions.status[i] = "pending"
  /\ \E s \in {"answered", "cancelled"} :
       AskQuestions([questions EXCEPT !.status[i] = s, !.text[i] = IF s = "answered" THEN Others ELSE @])

QuestionsNext ==
  \/ LoadQuestions \/ SetFilterOfQuestions \/ TypeAnswer \/ CancelAnswering \/ SubmitAnswer
  \/ AnswerReads \/ AnswerWrites \/ AnswerTaken \/ AnswerRefused
  \/ \E i \in Question : StartAnswering(i) \/ DismissQuestion(i) \/ Dismissed(i) \/ OthersDecide(i)

-----------------------------------------------------------------------------
(* notes-panel.ts.                                                         *)
Writes(n) == UNCHANGED <<questions, activity, console>> /\ notes' = n

(* loadNotes selects the first note when there is none.                    *)
NotesListed(n) ==
  [n EXCEPT !.seen = n.exists,
            !.active = IF @ = Nothing /\ n.exists # {} THEN CHOOSE s \in n.exists : TRUE ELSE @]

LoadNotes == Goes("notes") /\ Writes(NotesListed(notes))

SelectNote(s) ==
  Use("notes") /\ s \in notes.seen /\ Writes([notes EXCEPT !.active = s, !.editing = FALSE])

StartEditing ==
  /\ Use("notes") /\ notes.active \in notes.seen /\ ~notes.editing
  /\ Writes([notes EXCEPT !.edit = notes.active, !.editing = TRUE])

CancelEditing == Use("notes") /\ notes.editing /\ Writes([notes EXCEPT !.editing = FALSE])

(* The button and the key of the editor save under the active name.        *)
SaveNote ==
  /\ Use("notes") /\ notes.editing /\ notes.active \in notes.seen /\ notes.save = Nothing
  /\ Writes([notes EXCEPT !.save = [id |-> notes.active, text |-> notes.edit, stage |-> "sent"]])

(* upsertNote stores the whole text, over whatever another one stored.     *)
Stored ==
  /\ Goes("notes") /\ notes.save # Nothing /\ notes.save.stage = "sent"
  /\ Writes([notes EXCEPT !.save.stage = "done", !.content[notes.save.id] = notes.save.text])

(* The editor is closed, whichever note is in it by now.                   *)
NoteSaved ==
  /\ Goes("notes") /\ notes.save # Nothing /\ notes.save.stage = "done"
  /\ Writes(NotesListed([notes EXCEPT !.save = Nothing, !.editing = FALSE]))

CreateNote ==
  /\ Use("notes")
  /\ \E s \in Note \ (notes.exists \cup notes.creating) : Writes([notes EXCEPT !.creating = @ \cup {s}])

(* The new, empty note is selected and edited.                             *)
NoteCreated(s) ==
  /\ Goes("notes") /\ s \in notes.creating
  /\ Writes(NotesListed([notes EXCEPT !.creating = @ \ {s}, !.exists = @ \cup {s},
                                 !.active = s, !.editing = TRUE, !.edit = Nothing]))

(* The user writes into an empty editor.                                   *)
TypeNote ==
  Use("notes") /\ notes.editing /\ notes.edit = Nothing /\ Writes([notes EXCEPT !.edit = notes.active])

OthersCreate ==
  /\ News("notes")
  /\ \E s \in Note \ (notes.exists \cup notes.creating) :
       Writes([notes EXCEPT !.exists = @ \cup {s}, !.content[s] = s])

NotesNext ==
  \/ LoadNotes \/ StartEditing \/ CancelEditing \/ SaveNote \/ Stored \/ NoteSaved
  \/ CreateNote \/ TypeNote \/ OthersCreate \/ \E s \in Note : SelectNote(s) \/ NoteCreated(s)

-----------------------------------------------------------------------------
(* The feed and the view of activity.                                      *)
ActivityIs(p) == UNCHANGED <<questions, notes, console>> /\ activity' = p
Loading(p, a) == [p EXCEPT !.loads = @ \cup {Asked(a)}]

(* Something happens.  Told by the socket, both load.                      *)
ActivityHappens ==
  /\ News(kind) /\ kind \in {"feed", "view"}
  /\ ActivityIs(IF linked THEN Loading(activity, activity.of) ELSE [activity EXCEPT !.missed = TRUE])

LinkChanges ==
  /\ kind \in {"feed", "view"} /\ uses < MaxUses /\ uses' = uses + 1 /\ linked' = ~linked
  /\ UNCHANGED <<kind, questions, notes, activity, console, news, fails>>

(* The interval of the feed.                                               *)
FeedPolls == Goes("feed") /\ ActivityIs(Loading(activity, activity.of))

(* The view's filter by actor.                                             *)
FilterActor(a) == Use("view") /\ a # activity.of /\ ActivityIs(Loading([activity EXCEPT !.of = a], a))

ActivityServed ==
  /\ Goes(kind) /\ kind \in {"feed", "view"}
  /\ \E r \in activity.loads : r.n = NotYet /\
       ActivityIs([activity EXCEPT !.loads = (@ \ {r}) \cup {[r EXCEPT !.n = news]}])

(* The list becomes the answer.  One that comes late, with no later one to *)
(* come, is what the list stays at.                                        *)
ActivityLoaded ==
  /\ Goes(kind) /\ kind \in {"feed", "view"}
  /\ \E r \in activity.loads : r.n # NotYet /\
       ActivityIs([activity EXCEPT !.loads = @ \ {r}, !.shown = r,
                !.missed = @ \/ ((r.of # activity.of \/ (activity.shown.of = activity.of /\ r.n < activity.shown.n))
                                 /\ \A o \in activity.loads \ {r} : o.of # activity.of \/ o.n < activity.shown.n)])

ActivityFails ==
  /\ kind \in {"feed", "view"} /\ fails < MaxFails /\ fails' = fails + 1
  /\ \E r \in activity.loads : ActivityIs([activity EXCEPT !.loads = @ \ {r}, !.missed = TRUE])
  /\ UNCHANGED <<kind, news, linked, uses>>

ActivityNext ==
  \/ ActivityHappens \/ LinkChanges \/ FeedPolls \/ ActivityServed \/ ActivityLoaded \/ ActivityFails
  \/ \E a \in Actor : FilterActor(a)

-----------------------------------------------------------------------------
(* agent-console.ts.                                                       *)
Watches(c) == UNCHANGED <<questions, notes, activity>> /\ console' = c

NotServed == MaxNews + MaxUses + 1
LoadingOf(c, parts) == [c EXCEPT !.loads = @ \cup {[part |-> p, of |-> c.who, n |-> NotServed] : p \in parts}]

(* updated: the console is opened for an agent, or, with the keyboard, for *)
(* another one.  What is shown of the one before stays until the answers   *)
(* come, and so does what was typed.                                       *)
OpenConsole(a) ==
  /\ Use("console") /\ console.who # a
  /\ Watches(LoadingOf([console EXCEPT !.who = a, !.untold = FALSE], {"messages", "info"}))

(* What it has sent reaches the server all the same.                       *)
CloseConsole ==
  /\ Use("console") /\ console.who # Nothing
  /\ Watches([Closed(console.mail) EXCEPT !.posts =
                 {[p EXCEPT !.stage = "left"] : p \in {q \in console.posts : q.stage # "done"}}])

(* The timer of ten seconds, while it is open.                             *)
ConsolePolls ==
  /\ Goes("console") /\ console.who # Nothing /\ \A r \in console.loads : r.of # console.who
  /\ Watches(LoadingOf(console, {"messages", "info"}))

(* The socket tells all participants of what one of them wrote: whatever it*)
(* is, an open console loads its messages.  (An event that is lost is like *)
(* a load that fails.)                                                     *)
Told(c) == IF c.who = Nothing THEN c ELSE LoadingOf(c, {"messages"})

(* What an agent writes is one INSERT (mcp_handler.rs) that nobody is told.*)
AgentWrites(a) ==
  News("console") /\ Watches([console EXCEPT !.mail[a] = @ + 1, !.untold = @ \/ a = console.who])

ConsoleServed(r) ==
  /\ Goes("console") /\ r \in console.loads /\ r.part = "messages" /\ r.n = NotServed
  /\ Watches([console EXCEPT !.loads = (@ \ {r}) \cup {[r EXCEPT !.n = console.mail[r.of]]},
                                 !.untold = @ /\ r.of # console.who])

(* loadMessages and loadAgentDetail: each overwrites what is shown, though *)
(* the agent may be another by now, or a later answer have come before.    *)
Overtakes(r) == r.of # console.who \/ (r.part = "messages" /\ r.of = console.messages.of /\ r.n < console.messages.n)

ConsoleLoaded(r) ==
  /\ Goes("console") /\ r \in console.loads /\ (r.part = "info" \/ r.n # NotServed)
  /\ LET c == [console EXCEPT !.loads = @ \ {r}, !.missed = @ \/ Overtakes(r)] IN
       Watches(IF r.part = "messages" THEN [c EXCEPT !.messages = [of |-> r.of, n |-> r.n]]
               ELSE [c EXCEPT !.info = r.of])

ConsoleFails ==
  /\ kind = "console" /\ fails < MaxFails /\ fails' = fails + 1
  /\ \/ \E r \in console.loads : Watches([console EXCEPT !.loads = @ \ {r}, !.missed = TRUE])
     \/ \E p \in console.posts : Watches([console EXCEPT !.posts = @ \ {p}, !.missed = @ \/ p.stage = "done"])
  /\ UNCHANGED <<kind, news, linked, uses>>

TypeMessage == Use("console") /\ console.who # Nothing /\ Watches([console EXCEPT !.box = TRUE])

(* sendMessage: nothing keeps Enter from sending the text again while it   *)
(* is under way.                                                           *)
SendMessage ==
  /\ Use("console") /\ console.who # Nothing /\ console.box /\ Cardinality(console.posts) < 2
  /\ LET again == \E p \in console.posts : ~p.again IN
       Watches([console EXCEPT !.posts = @ \cup {[of |-> console.who, again |-> again, stage |-> "sent"]}])

Posted(p) ==
  /\ Goes("console") /\ p \in console.posts /\ p.stage # "done"
  /\ LET answered == IF p.stage = "sent" THEN {[p EXCEPT !.stage = "done"]} ELSE {} IN
       Watches(Told([console EXCEPT !.mail[p.of] = @ + 1, !.posts = (@ \ {p}) \cup answered]))

(* The message is added to the list that is shown and the box is emptied,  *)
(* whoever they are for by now.  The load that the server's event started  *)
(* has it, too: if that came first, the message is there twice.            *)
MessageSent(p) ==
  /\ Goes("console") /\ p \in console.posts /\ p.stage = "done"
  /\ Watches([console EXCEPT !.posts = @ \ {p}, !.box = FALSE, !.messages.n = @ + 1,
                  !.missed = @ \/ ~\E r \in console.loads : r.part = "messages" /\ r.of = console.who])

ConsoleNext ==
  \/ CloseConsole \/ ConsolePolls \/ ConsoleFails \/ TypeMessage \/ SendMessage
  \/ \E a \in Actor : OpenConsole(a) \/ AgentWrites(a)
  \/ \E r \in console.loads : ConsoleServed(r) \/ ConsoleLoaded(r)
  \/ \E p \in console.posts : Posted(p) \/ MessageSent(p)

-----------------------------------------------------------------------------
PanelsNext == QuestionsNext \/ NotesNext \/ ActivityNext \/ ConsoleNext

PanelsSpec == PanelsInit /\ [][PanelsNext]_panelVars

-----------------------------------------------------------------------------
(* A question never gets the answer that was written to another one,       *)
(* however questions are opened, answered, dismissed and decided by others *)
(* while a request is under way.                                           *)
AnswersMatch == \A i \in Question : questions.text[i] \in {Nothing, Others, i}

(* A note never gets the text of another note.                             *)
NotesMatch == \A s \in Note : notes.content[s] \in {Nothing, s}

(* At rest the view shows all activity of the actor it is filtered by,     *)
(* unless a notice was lost, a load failed or an answer came late.         *)
ViewCurrent ==
  kind = "view" /\ activity.loads = {} /\ ~activity.missed => activity.shown = [of |-> activity.of, n |-> news]

(* At rest the console shows the messages with the agent it is open for,   *)
(* and who that is, with the same exceptions, and until the timer has found*)
(* what the agent wrote; a message that was sent is there once if the list *)
(* was loaded after the answer.                                            *)
ConsoleCurrent ==
  console.who # Nothing /\ console.loads = {} /\ console.posts = {} /\ ~console.missed /\ ~console.untold =>
    console.messages = [of |-> console.who, n |-> console.mail[console.who]] /\ console.info = console.who

(* What was written for one thing reaches no other, and what is shown is of*)
(* the thing selected.                                                     *)
EntriesMatch == AnswersMatch /\ NotesMatch /\ ViewCurrent /\ ConsoleCurrent
=============================================================================
