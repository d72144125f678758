-------------------------- MODULE SessionConnection --------------------------
(***************************************************************************)
(* The live connection of a browser to the session it shows: joining       *)
(* (session-lobby.ts, session-api.ts), the store (app-state.ts), the       *)
(* socket with its reconnection (session-connection.ts), the shell that    *)
(* leaves the session when the page is left (app-shell.ts), and the        *)
(* server's list of connections (ws/handler.rs).                           *)
(*                                                                         *)
(* A socket that is closed by the client gives its close event later; one  *)
(* that the network drops gives it at once.  The server learns of either   *)
(* later still.  A closed socket that the server has forgotten is free     *)
(* again, so that Socket bounds how many there are at a time.              *)
(***************************************************************************)
EXTENDS Naturals, Sequences, FiniteSets

CONSTANTS
  Code,       \* codes of sessions
  Socket,     \* WebSockets
  Me, Peer,   \* the participant at this browser, and another one
  None,
  MaxMoves,   \* bound on what the user does
  MaxTabs,    \* bound on the connections of the peer
  MaxPeer,    \* bound on what the peer does
  MaxDrops    \* bound on dropped sockets

ASSUME ConnectionAssumption ==
  /\ None \notin Code \cup Socket /\ None \notin Nat
  /\ \A S \in SUBSET {Me, Peer} : S # None
  /\ Me # Peer

VARIABLES
  page,       \* the session whose page is shown, or None for another page
  joins,      \* requests to join under way, by code
  store,      \* the participants shown online, or None without a session
  session,    \* activeSessionCode, which is also the code in the store
  active,     \* activeSocket
  timer,      \* the generation reconnectTimer was set in, or None
  generation,
  phase, code, born,  \* of a socket: its state, session and generation
  inbox,      \* of a socket: what the server sent and the client has not read
  served,     \* sockets that the server has in its list
  tabs,       \* connections of the peer, of the session Home
  missed,     \* the peer came or went while this client, which had been told
              \* who is online, was not in the server's list
  moves, peers, drops

clientVars == <<page, joins, store, session, active, timer, generation, phase, code, born>>
connVars   == <<clientVars, inbox, served, tabs, missed, moves, peers, drops>>

Who  == {Me, Peer}
Live == {s \in Socket : phase[s] \in {"connecting", "open"}}
Free == {s \in Socket : phase[s] = "unused"}

Message == [on : {"joined"}] \cup [on : {"connected", "disconnected"}, who : Who]

ConnectionTypeOK ==
  /\ page \in Code \cup {None}
  /\ joins \in [Code -> [stage : {"none", "asked", "served", "refused"}, from : Code \cup {None},
                        online : SUBSET Who, stale : BOOLEAN]]
  /\ store = None \/ store \in SUBSET Who
  /\ session \in Code \cup {None} /\ active \in Socket \cup {None}
  /\ timer \in Nat \cup {None}
  /\ generation \in Nat
  /\ phase \in [Socket -> {"unused", "connecting", "open", "closing", "closed"}]
  /\ code \in [Socket -> Code \cup {None}] /\ born \in [Socket -> Nat]
  /\ inbox \in [Socket -> Seq(Message)] /\ served \subseteq Socket
  /\ tabs \in Nat /\ missed \in BOOLEAN
  /\ moves \in Nat /\ peers \in Nat /\ drops \in Nat

NoJoin == [stage |-> "none", from |-> None, online |-> {}, stale |-> FALSE]

ConnectionInit ==
  /\ page = None /\ joins = [c \in Code |-> NoJoin]
  /\ store = None /\ session = None /\ active = None /\ timer = None /\ generation = 0
  /\ phase = [s \in Socket |-> "unused"] /\ code = [s \in Socket |-> None]
  /\ born = [s \in Socket |-> 0] /\ inbox = [s \in Socket |-> <<>>]
  /\ served = {} /\ tabs = 1 /\ missed = FALSE
  /\ moves = 0 /\ peers = 0 /\ drops = 0

-----------------------------------------------------------------------------
(* What the server tells the connections of a session.                     *)
Broadcast(list, m) ==
  /\ inbox' = [s \in Socket |-> IF s \in list /\ phase[s] = "open" THEN Append(inbox[s], m)
                                ELSE inbox[s]]

Online == (IF tabs > 0 THEN {Peer} ELSE {}) \cup (IF served # {} THEN {Me} ELSE {})

PeerMoves(m) ==
  /\ peers < MaxPeer /\ peers' = peers + 1
  /\ Broadcast(served, m)
  /\ missed' = (missed \/ active \notin served)
  /\ joins' = [c \in Code |-> [joins[c] EXCEPT !.stale = @ \/ joins[c].stage = "served"]]
  /\ UNCHANGED <<page, store, session, active, timer, generation, phase, code, born,
                 served, moves, drops>>

(* The peer opens and closes its tabs on all sessions alike.               *)
PeerConnects ==
  tabs < MaxTabs /\ tabs' = tabs + 1 /\ PeerMoves([on |-> "connected", who |-> Peer])

(* participant_disconnected is sent when any of the tabs is closed.        *)
PeerDisconnects ==
  tabs > 0 /\ tabs' = tabs - 1 /\ PeerMoves([on |-> "disconnected", who |-> Peer])

-----------------------------------------------------------------------------
(* session-connection.ts.                                                  *)
(* activeSocket.close(): the close event comes later.                      *)
Closed(p) == [s \in Socket |-> IF s = active THEN "closing" ELSE p[s]]

(* openSocket, after the sockets became p.                                 *)
New == CHOOSE s \in Free : TRUE

OpenSocket(p, c, g) ==
  /\ Free # {}
  /\ phase' = [p EXCEPT ![New] = "connecting"]
  /\ code' = [code EXCEPT ![New] = c] /\ born' = [born EXCEPT ![New] = g]
  /\ active' = New

(* Mutant: the handlers keep the generation of before.                     *)
ConnectSessionStale(c) ==
  /\ timer' = None /\ generation' = generation + 1 /\ session' = c
  /\ OpenSocket(Closed(phase), c, generation)

ConnectSession(c) ==
  /\ timer' = None /\ generation' = generation + 1 /\ session' = c
  /\ OpenSocket(Closed(phase), c, generation + 1)

(* Mutant: the timer is not cleared.                                       *)
DisconnectSessionOnly ==
  /\ generation' = generation /\ session' = None /\ timer' = timer
  /\ phase' = Closed(phase) /\ active' = None /\ UNCHANGED <<code, born>>

DisconnectSession ==
  /\ generation' = generation + 1 /\ session' = None /\ timer' = None
  /\ phase' = Closed(phase) /\ active' = None /\ UNCHANGED <<code, born>>

(* The open event: join is sent with the code the socket was opened for.   *)
Open(s) ==
  /\ phase[s] = "connecting" /\ phase' = [phase EXCEPT ![s] = "open"]
  /\ UNCHANGED <<page, joins, store, session, active, timer, generation, code, born,
                 inbox, served, tabs, missed, moves, peers, drops>>

(* The server puts the connection into its list and tells all of it.       *)
ServeJoin(s) ==
  /\ phase[s] = "open" /\ s \notin served /\ served' = served \cup {s}
  /\ inbox' = [r \in Socket |->
                 LET told == IF r \in served' /\ phase[r] = "open"
                             THEN Append(inbox[r], [on |-> "connected", who |-> Me]) ELSE inbox[r]
                 IN IF r = s THEN Append(told, [on |-> "joined"]) ELSE told]
  /\ UNCHANGED <<clientVars, tabs, missed, moves, peers, drops>>

(* The message event: joined and participant_connected mark the            *)
(* participant online, participant_disconnected offline.                   *)
First(s) == Head(inbox[s])

(* Mutant: nobody is ever taken off the list.                              *)
ReceiveArrivals(s) ==
  /\ phase[s] = "open" /\ inbox[s] # <<>>
  /\ inbox' = [inbox EXCEPT ![s] = Tail(@)]
  /\ store' = CASE store = None -> None
                [] store # None /\ First(s).on = "joined" -> store \cup {Me}
                [] store # None /\ First(s).on = "connected" -> store \cup {First(s).who}
                [] OTHER -> store
  /\ UNCHANGED <<page, joins, session, active, timer, generation, phase, code, born,
                 served, tabs, missed, moves, peers, drops>>

Receive(s) ==
  /\ phase[s] = "open" /\ inbox[s] # <<>>
  /\ inbox' = [inbox EXCEPT ![s] = Tail(@)]
  /\ store' = CASE store = None -> None
                [] store # None /\ First(s).on = "joined" -> store \cup {Me}
                [] store # None /\ First(s).on = "connected" -> store \cup {First(s).who}
                [] OTHER -> store \ {First(s).who}
  /\ UNCHANGED <<page, joins, session, active, timer, generation, phase, code, born,
                 served, tabs, missed, moves, peers, drops>>

(* The close event.  Only a socket of this generation reconnects; without  *)
(* a session intentionalDisconnect is set, or was never needed.            *)
OnClose(s) ==
  /\ phase' = [phase EXCEPT ![s] = IF s \in served THEN "closed" ELSE "unused"]
  /\ inbox' = [inbox EXCEPT ![s] = <<>>]
  /\ active' = IF active = s THEN None ELSE active
  /\ timer' = IF session # None /\ born[s] = generation /\ timer = None THEN generation ELSE timer
  /\ missed' = (missed \/ (s = active /\ \E i \in DOMAIN inbox[s] : inbox[s][i].on # "joined"))
  /\ UNCHANGED <<page, joins, store, session, generation, code, born, served, tabs,
                 moves, peers>>

ClosingEnds(s) == phase[s] = "closing" /\ OnClose(s) /\ UNCHANGED drops

Drop(s) == s \in Live /\ drops < MaxDrops /\ drops' = drops + 1 /\ OnClose(s)

(* The server finds the connection gone, and tells the others.             *)
Forget(s) ==
  /\ s \in served /\ phase[s] \in {"closing", "closed"} /\ served' = served \ {s}
  /\ Broadcast(served', [on |-> "disconnected", who |-> Me])
  /\ phase' = [phase EXCEPT ![s] = IF @ = "closed" THEN "unused" ELSE @]
  /\ UNCHANGED <<page, joins, store, session, active, timer, generation, code, born,
                 tabs, missed, moves, peers, drops>>

(* reconnectTimer: the backoff only says when.                             *)
Reconnect ==
  /\ timer # None /\ timer' = None
  /\ IF session # None /\ timer = generation THEN OpenSocket(phase, session, generation)
     ELSE UNCHANGED <<phase, code, born, active>>
  /\ UNCHANGED <<page, joins, store, session, generation, inbox, served, tabs, missed,
                 moves, peers, drops>>

-----------------------------------------------------------------------------
(* The lobby and the shell.                                                *)
Move == moves < MaxMoves /\ moves' = moves + 1

(* _leaveSession, and _onLocationChanged off the page of the session.      *)
Leave ==
  /\ store' = None /\ DisconnectSession

Asking(c) == joins' = [joins EXCEPT ![c] = [NoJoin EXCEPT !.stage = "asked", !.from = page']]

(* The page of a session is opened.  Without a session the lobby joins;    *)
(* with another session the shell leaves that one, and the lobby, which    *)
(* found a session when it was mounted, goes to the projects.              *)
Visit(c) ==
  /\ Move /\ page # c
  /\ CASE session = None -> /\ page' = c /\ joins[c].stage = "none" /\ Asking(c)
                            /\ UNCHANGED <<store, session, active, timer, generation, phase, code, born>>
       [] session = c -> /\ page' = c
                         /\ UNCHANGED <<joins, store, session, active, timer, generation, phase, code, born>>
       [] OTHER -> page' = None /\ Leave /\ UNCHANGED joins
  /\ UNCHANGED <<inbox, served, tabs, missed, peers, drops>>

(* Any other page, or the button that leaves the session.                  *)
GoElsewhere ==
  /\ Move /\ (page # None \/ session # None)
  /\ page' = None /\ UNCHANGED joins
  /\ IF session # None THEN Leave
     ELSE UNCHANGED <<store, session, active, timer, generation, phase, code, born>>
  /\ UNCHANGED <<inbox, served, tabs, missed, peers, drops>>

(* The forms that create or join a session, in a project.                  *)
AskJoin(c) ==
  /\ Move /\ page = None /\ page' = None /\ joins[c].stage = "none" /\ Asking(c)
  /\ UNCHANGED <<store, session, active, timer, generation, phase, code, born,
                 inbox, served, tabs, missed, peers, drops>>

(* join_session answers with the participants as they are.                 *)
AnswerJoin(c) ==
  /\ joins[c].stage = "asked"
  /\ \E stage \in {"served", "refused"} :
       joins' = [joins EXCEPT ![c].stage = stage, ![c].online = Online]
  /\ UNCHANGED <<page, store, session, active, timer, generation, phase, code, born,
                 inbox, served, tabs, missed, moves, peers, drops>>

(* setSession and connectSession, one after the other.  A lobby goes to    *)
(* the page of the session; so does the form, if it is still there.        *)
Joined(c) ==
  /\ joins[c].stage = "served" /\ joins' = [joins EXCEPT ![c] = NoJoin]
  /\ store' = joins[c].online \cup {Me} /\ missed' = joins[c].stale
  /\ page' \in IF page # None THEN {c} ELSE IF joins[c].from = None THEN {None, c} ELSE {None}
  /\ ConnectSession(c)
  /\ UNCHANGED <<inbox, served, tabs, moves, peers, drops>>

NotJoined(c) ==
  /\ joins[c].stage = "refused" /\ joins' = [joins EXCEPT ![c] = NoJoin]
  /\ UNCHANGED <<page, store, session, active, timer, generation, phase, code, born,
                 inbox, served, tabs, missed, moves, peers, drops>>

-----------------------------------------------------------------------------
SocketStep(s) == Open(s) \/ ServeJoin(s) \/ Receive(s) \/ ClosingEnds(s) \/ Forget(s)

ConnectionNext ==
  \/ \E s \in Socket : SocketStep(s) \/ Drop(s)
  \/ Reconnect
  \/ \E c \in Code : Visit(c) \/ AskJoin(c) \/ AnswerJoin(c) \/ Joined(c) \/ NotJoined(c)
  \/ GoElsewhere \/ PeerConnects \/ PeerDisconnects

ConnectionSpec == ConnectionInit /\ [][ConnectionNext]_connVars

(* The network delivers, timers fire, the server answers; users and peers  *)
(* need do nothing.                                                        *)
ConnectionFairness ==
  /\ \A s \in Socket : WF_connVars(SocketStep(s))
  /\ WF_connVars(Reconnect)
  /\ \A c \in Code : WF_connVars(AnswerJoin(c)) /\ WF_connVars(Joined(c) \/ NotJoined(c))

-----------------------------------------------------------------------------
(* Reconnections, joins and departures in any order never leave two        *)
(* sockets that deliver: every notice would be handled twice.              *)
OneLiveSocket == \A r, s \in Live : r = s /\ active = s

(* The socket and the store are of one session, and no timer survives it.  *)
SocketFollowsSession ==
  /\ (store = None) <=> (session = None)
  /\ active # None => session # None /\ code[active] = session
  /\ timer # None => session # None

(* A session is never left without a socket or a timer that opens one.     *)
NeverStranded == session # None => active # None \/ timer # None

Quiescent ==
  /\ \A s \in Socket : phase[s] \in {"unused", "open"} /\ inbox[s] = <<>>
  /\ served = Live /\ timer = None /\ \A c \in Code : joins[c].stage = "none"

(* At rest, nobody is shown online who is not, unless the peer moved while *)
(* the client was not listening, since it never asks again.                *)
NoGhosts == Quiescent /\ store # None /\ ~missed => store \subseteq Online

(* Whoever stays in a session is connected to it again.                    *)
Reconnects == session # None ~> session = None \/ active \in served

(* Whatever order joins, departures, closes and timers come in.            *)
ConnectionFollowsSession == OneLiveSocket /\ SocketFollowsSession /\ NeverStranded
=============================================================================
