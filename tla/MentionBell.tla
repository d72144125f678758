----------------------------- MODULE MentionBell -----------------------------
(***************************************************************************)
(* The bell of the shell (app-shell.ts): how many of the comments of the   *)
(* session that mention this participant are still unread.  It is loaded   *)
(* when a session is entered (app-state.ts) and at every event "mentioned" *)
(* of the session's socket (session-connection.ts), and a click on it has  *)
(* the server delete what is unread (routes/tasks.rs).                     *)
(*                                                                         *)
(* Requests are served in any order and their answers come in any order.   *)
(* The connection is one that is there or not: SessionConnection is about  *)
(* how.  Who is mentioned by a text is left out.                           *)
(***************************************************************************)
EXTENDS Naturals, Sequences, FiniteSets, SequencesExt

CONSTANTS
  Session, NoSession,
  Mention,       \* rows of unread_mentions for this participant
  MaxRequests,   \* bound on requests under way
  MaxMoves,      \* bound on what the user does
  MaxMishaps     \* bound on requests that fail and connections that drop

ASSUME BellAssumption ==
  /\ NoSession \notin Session /\ IsFiniteSet(Session)
  /\ MaxRequests \in Nat \ {0} /\ MaxMoves \in Nat /\ MaxMishaps \in Nat

VARIABLES
  frame,         \* "none" without a shell
  held, wired,   \* the session of the store, and whether its socket is there
  unread,        \* the rows of each session
  called,        \* there are events that the socket has not delivered
  bell,          \* the mentions that the bell counts
  posed,         \* requests that the server has not served, by what they ask
  replies,       \* what it served, oldest first, and whether a later one was taken in before
  untold,        \* there is a change that nothing told of
  strayed,       \* the last answer was of a former session or was overtaken
  moves, mishaps

bellVars == <<frame, held, wired, unread, called, bell, posed, replies, untold, strayed, moves, mishaps>>

BellAsk    == [kind : {"load", "clear"}, session : Session]
BellAnswer == [ask : BellAsk, got : SUBSET Mention, late : BOOLEAN]

BellTypeOK ==
  /\ frame \in {"none", "shell"}
  /\ held \in Session \cup {NoSession} /\ wired \in BOOLEAN
  /\ unread \in [Session -> SUBSET Mention] /\ called \in BOOLEAN /\ bell \subseteq Mention
  /\ posed \in [BellAsk -> Nat] /\ replies \in Seq(BellAnswer)
  /\ untold \in BOOLEAN /\ strayed \in BOOLEAN
  /\ moves \in 0 .. MaxMoves /\ mishaps \in 0 .. MaxMishaps

BellInit ==
  /\ frame \in {"none", "shell"}
  /\ held = NoSession /\ wired = FALSE /\ unread = [s \in Session |-> {}] /\ called = FALSE /\ bell = {}
  /\ posed = [a \in BellAsk |-> 0] /\ replies = <<>> /\ untold = FALSE /\ strayed = FALSE
  /\ moves = 0 /\ mishaps = 0

-----------------------------------------------------------------------------
UnderWay == Len(replies) + Cardinality({q \in BellAsk \X (1 .. MaxRequests) : q[2] <= posed[q[1]]})
Poses(k, s) ==
  UnderWay < MaxRequests /\ posed' = [posed EXCEPT ![[kind |-> k, session |-> s]] = @ + 1]

Moving  == frame = "shell" /\ moves < MaxMoves /\ moves' = moves + 1 /\ UNCHANGED mishaps
Mishap  == frame = "shell" /\ mishaps < MaxMishaps /\ mishaps' = mishaps + 1 /\ UNCHANGED moves
Quietly == frame = "shell" /\ UNCHANGED <<moves, mishaps>>
Kept    == UNCHANGED frame

(* Mutant: only an event loads the bell.                                   *)
EnterQuietly(s) ==
  /\ Moving /\ Kept /\ held' = s /\ wired' = FALSE /\ called' = FALSE
  /\ UNCHANGED <<unread, bell, posed, replies, untold, strayed>>

(* setSession: "session-connected".  The former session's socket is closed.*)
Enter(s) ==
  /\ Moving /\ Kept /\ held' = s /\ wired' = FALSE /\ called' = FALSE /\ Poses("load", s)
  /\ UNCHANGED <<unread, bell, replies, untold, strayed>>

(* clearSession, by the button or by the page that is left: the bell is    *)
(* not shown any more, and keeps what it counted.                          *)
Exit ==
  /\ Moving /\ Kept /\ held # NoSession
  /\ held' = NoSession /\ wired' = FALSE /\ called' = FALSE
  /\ UNCHANGED <<unread, bell, posed, replies, untold, strayed>>

(* The socket joins, and the server sends it what comes from now on; a     *)
(* socket that dropped joins again, and nothing is loaded.                 *)
Linked ==
  /\ Quietly /\ Kept /\ held # NoSession /\ ~wired /\ wired' = TRUE
  /\ UNCHANGED <<held, unread, called, bell, posed, replies, untold, strayed>>

LinkDrops ==
  /\ Mishap /\ Kept /\ wired /\ wired' = FALSE /\ called' = FALSE /\ untold' = (untold \/ called)
  /\ UNCHANGED <<held, unread, bell, posed, replies, strayed>>

(* A comment of the session mentions this participant: a row, and an event *)
(* for the sockets that are there.                                         *)
Mentioned(m, s) ==
  /\ Quietly /\ Kept /\ \A t \in Session : m \notin unread[t]
  /\ unread' = [unread EXCEPT ![s] = @ \cup {m}]
  /\ called' = (called \/ (held = s /\ wired)) /\ untold' = (untold \/ (held = s /\ ~wired))
  /\ UNCHANGED <<held, wired, bell, posed, replies, strayed>>

CallHeard ==
  /\ Quietly /\ Kept /\ called /\ called' = FALSE /\ Poses("load", held)
  /\ UNCHANGED <<held, wired, unread, bell, replies, untold, strayed>>

(* _clearMentions: the page of the latest mention's task, and the request. *)
ClearMentions ==
  /\ Moving /\ Kept /\ held # NoSession /\ bell # {} /\ Poses("clear", held)
  /\ UNCHANGED <<held, wired, unread, called, bell, replies, untold, strayed>>

-----------------------------------------------------------------------------
(* list_unread_mentions, clear_unread_mentions: everything that is unread, *)
(* whether or not the bell has counted it.                                 *)
Served(a) ==
  /\ Quietly /\ Kept /\ posed[a] > 0 /\ posed' = [posed EXCEPT ![a] = @ - 1]
  /\ LET left == IF a.kind = "load" THEN unread[a.session] ELSE {} IN
       /\ unread' = [unread EXCEPT ![a.session] = left]
       /\ replies' = Append(replies, [ask |-> a, got |-> left, late |-> FALSE])
  /\ untold' = (untold /\ a.session # held)
  /\ UNCHANGED <<held, wired, called, bell, strayed>>

Lateness(n) == [k \in DOMAIN replies |-> IF k < n THEN [replies[k] EXCEPT !.late = TRUE] ELSE replies[k]]

(* Both set the bell without a look at the session it is for by now.       *)
Taken(n) ==
  /\ Quietly /\ Kept /\ replies' = RemoveAt(Lateness(n), n)
  /\ bell' = replies[n].got
  /\ strayed' = (replies[n].late \/ replies[n].ask.session # held)
  /\ UNCHANGED <<held, wired, unread, called, posed, untold>>

(* A request that is not served, or whose answer is lost.                  *)
RequestFails(a) ==
  /\ Mishap /\ Kept /\ posed[a] > 0 /\ posed' = [posed EXCEPT ![a] = @ - 1]
  /\ untold' = (untold \/ (a.kind = "load" /\ a.session = held))
  /\ UNCHANGED <<held, wired, unread, called, bell, replies, strayed>>

AnswerLost(n) ==
  /\ Mishap /\ Kept /\ replies' = RemoveAt(replies, n) /\ untold' = (untold \/ replies[n].ask.session = held)
  /\ UNCHANGED <<held, wired, unread, called, bell, posed, strayed>>

BellNext ==
  \/ \E s \in Session : Enter(s)
  \/ \E m \in Mention, s \in Session : Mentioned(m, s)
  \/ Exit \/ Linked \/ LinkDrops \/ CallHeard \/ ClearMentions
  \/ \E a \in BellAsk : Served(a) \/ RequestFails(a)
  \/ \E n \in DOMAIN replies : Taken(n) \/ AnswerLost(n)

BellSpec == BellInit /\ [][BellNext]_bellVars

-----------------------------------------------------------------------------
(* With nothing under way the bell counts what is unread in the session    *)
(* that is held, unless the last answer was one of a former session or was *)
(* overtaken, or a change was not told: it came without a socket, or a     *)
(* request failed.                                                         *)
BellFollows ==
  held # NoSession /\ ~called /\ UnderWay = 0 /\ ~strayed /\ ~untold => bell = unread[held]
=============================================================================
