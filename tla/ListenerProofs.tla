---------------------------- MODULE ListenerProofs ----------------------------
(***************************************************************************)
(* What listens in the client, proved for any number of sessions, agents,  *)
(* projects, dashboards and sockets, and however often users move, peers   *)
(* come and go and the network drops: the connection follows the session,  *)
(* nobody who left stays online, and the live output of an agent and the   *)
(* dashboards of a project follow what is on the page.                     *)
(***************************************************************************)
EXTENDS MCLiveClient, TLAPS, FiniteSetTheorems

-----------------------------------------------------------------------------
(* The connection of a session.                                            *)
(* What makes it inductive: a socket that delivers is the active one, of   *)
(* this generation and this session; every socket that the client closed   *)
(* is of an earlier generation, so that its close event starts no timer;   *)
(* and a timer runs only while there is no socket.                         *)
OfNow(s) == active = s /\ born[s] = generation /\ code[s] = session

ConnectionInv ==
  /\ session # None => active # None \/ timer # None
  /\ \A s \in Live : OfNow(s)
  /\ \A s \in Socket : phase[s] = "closing" => born[s] < generation
  /\ active # None => active \in Live /\ session # None
  /\ timer # None => active = None /\ timer = generation /\ session # None
  /\ store = None <=> session = None

IInv == ConnectionTypeOK /\ ConnectionInv

connCore == <<store, session, active, timer, generation, phase, code, born>>

-----------------------------------------------------------------------------
(* A socket that is opened is one that was free.                           *)
LEMMA NewIsFree == Free # {} => New \in Free
BY DEF New

(* The invariant speaks of the core of the client's state only.            *)
LEMMA CoreOnly ==
  ASSUME ConnectionInv, UNCHANGED connCore
  PROVE  ConnectionInv'
BY DEF ConnectionInv, connCore, Live, OfNow

(* Closing the active socket leaves none that delivers.                    *)
LEMMA ClosedAll ==
  ASSUME IInv
  PROVE  /\ Closed(phase) \in [Socket -> {"unused", "connecting", "open", "closing", "closed"}]
         /\ \A s \in Socket : Closed(phase)[s] \notin {"connecting", "open"}
         /\ \A s \in Socket : Closed(phase)[s] = "closing" => phase[s] = "closing" \/ born[s] = generation
         /\ \A s \in Free : Closed(phase)[s] = "unused"
<1>1. Closed(phase) \in [Socket -> {"unused", "connecting", "open", "closing", "closed"}]
  BY DEF Closed, IInv, ConnectionTypeOK
<1>2. ASSUME NEW s \in Socket
      PROVE  /\ Closed(phase)[s] \notin {"connecting", "open"}
             /\ Closed(phase)[s] = "closing" => phase[s] = "closing" \/ born[s] = generation
  <2>1. CASE s = active
    <3>1. active # None
      BY <2>1, ConnectionAssumption
    <3>2. s \in Live /\ Closed(phase)[s] = "closing"
      BY <2>1, <3>1 DEF IInv, ConnectionInv, Closed
    <3> QED
      BY <3>2 DEF IInv, ConnectionInv, OfNow
  <2>2. CASE s # active
    <3>1. s \notin Live /\ Closed(phase)[s] = phase[s]
      BY <2>2 DEF IInv, ConnectionInv, OfNow, Closed
    <3> QED
      BY <3>1 DEF Live
  <2> QED
    BY <2>1, <2>2
<1>3. ASSUME NEW s \in Free
      PROVE  Closed(phase)[s] = "unused"
  <2>1. s # active
    BY ConnectionAssumption DEF IInv, ConnectionInv, Live, Free
  <2> QED
    BY <2>1 DEF Closed, Free
<1> QED
  BY <1>1, <1>2, <1>3

(* connectSession: one socket is opened, of a new generation.              *)
LEMMA ConnectKeeps ==
  ASSUME IInv, NEW c \in Code, ConnectSession(c), store' # None
  PROVE  /\ ConnectionInv'
         /\ phase' \in [Socket -> {"unused", "connecting", "open", "closing", "closed"}]
         /\ code' \in [Socket -> Code \cup {None}] /\ born' \in [Socket -> Nat]
         /\ active' \in Socket /\ session' = c /\ timer' = None /\ generation' \in Nat
<1>1. PICK n \in Free : n = New
  BY NewIsFree DEF ConnectSession, OpenSocket
<1>2. /\ n \in Socket /\ phase' = [Closed(phase) EXCEPT ![n] = "connecting"]
      /\ code' = [code EXCEPT ![n] = c] /\ born' = [born EXCEPT ![n] = generation + 1]
      /\ active' = n /\ session' = c /\ timer' = None /\ generation' = generation + 1
  BY <1>1 DEF ConnectSession, OpenSocket, Free
<1>3. /\ generation \in Nat /\ code \in [Socket -> Code \cup {None}] /\ born \in [Socket -> Nat]
  BY DEF IInv, ConnectionTypeOK
<1>4. /\ phase' \in [Socket -> {"unused", "connecting", "open", "closing", "closed"}]
      /\ code' \in [Socket -> Code \cup {None}] /\ born' \in [Socket -> Nat]
      /\ active' \in Socket /\ session' = c /\ timer' = None /\ generation' \in Nat
  BY <1>1, <1>2, <1>3, ClosedAll
<1>5. Live' = {n}
  BY <1>1, <1>2, ClosedAll DEF Live
<1>6. OfNow(n)'
  BY <1>1, <1>2, <1>3 DEF OfNow
<1>7. ASSUME NEW s \in Socket, phase'[s] = "closing"
      PROVE  born'[s] < generation'
  <2>1. s # n
    BY <1>1, <1>2, <1>7, ClosedAll
  <2>2. Closed(phase)[s] = "closing" /\ born'[s] = born[s]
    BY <1>2, <1>3, <1>7, <2>1, ClosedAll
  <2>3. phase[s] = "closing" \/ born[s] = generation
    BY <2>2, ClosedAll
  <2>4. born[s] \in Nat /\ born[s] <= generation
    BY <1>3, <2>3 DEF IInv, ConnectionInv
  <2> QED
    BY <1>2, <1>3, <2>2, <2>4
<1>8. session' # None /\ active' # None
  BY <1>1, <1>2, ConnectionAssumption
<1>9. ConnectionInv'
  BY <1>2, <1>5, <1>6, <1>7, <1>8 DEF ConnectionInv
<1> QED
  BY <1>4, <1>9

(* disconnectSession and the store's clearSession.                         *)
LEMMA LeaveKeeps ==
  ASSUME IInv, Leave
  PROVE  /\ ConnectionInv'
         /\ phase' \in [Socket -> {"unused", "connecting", "open", "closing", "closed"}]
         /\ generation' \in Nat /\ store' = None /\ session' = None /\ active' = None /\ timer' = None
         /\ UNCHANGED <<code, born>>
<1> USE DEF Leave, DisconnectSession
<1>1. /\ phase' = Closed(phase) /\ generation' = generation + 1 /\ UNCHANGED <<code, born>>
      /\ store' = None /\ session' = None /\ active' = None /\ timer' = None
  OBVIOUS
<1>2. generation \in Nat /\ born \in [Socket -> Nat]
  BY DEF IInv, ConnectionTypeOK
<1>3. Live' = {}
  BY <1>1, ClosedAll DEF Live
<1>4. ASSUME NEW s \in Socket, phase'[s] = "closing"
      PROVE  born'[s] < generation'
  <2>1. phase[s] = "closing" \/ born[s] = generation
    BY <1>1, <1>4, ClosedAll
  <2>2. born[s] \in Nat /\ born[s] <= generation
    BY <1>2, <2>1 DEF IInv, ConnectionInv
  <2> QED
    BY <1>1, <1>2, <2>2
<1> QED
  BY <1>1, <1>2, <1>3, <1>4, ClosedAll DEF ConnectionInv

(* A close event, of a socket that the client closed or the network cut.   *)
LEMMA CloseKeeps ==
  ASSUME IInv, NEW s \in Socket, phase[s] \in {"connecting", "open", "closing"}, OnClose(s),
         drops' \in Nat
  PROVE  IInv'
<1> DEFINE end == IF s \in served THEN "closed" ELSE "unused"
<1>1. /\ phase' = [phase EXCEPT ![s] = end] /\ phase'[s] = end
      /\ inbox' = [inbox EXCEPT ![s] = <<>>]
      /\ active' = IF active = s THEN None ELSE active
      /\ timer' = IF session # None /\ born[s] = generation /\ timer = None THEN generation ELSE timer
      /\ UNCHANGED <<page, joins, store, session, generation, code, born, served, tabs, moves, peers>>
  BY DEF OnClose, IInv, ConnectionTypeOK
<1>2. missed' \in BOOLEAN
  BY Zenon DEF OnClose, IInv, ConnectionTypeOK
<1>3. Live' = Live \ {s}
  BY <1>1 DEF Live, IInv, ConnectionTypeOK
<1>4. phase[s] # "closing" => s \in Live /\ active = s /\ born[s] = generation
  BY DEF Live, IInv, ConnectionInv, OfNow
<1>5. active # s => phase[s] = "closing" /\ born[s] # generation
  BY <1>4 DEF IInv, ConnectionInv, ConnectionTypeOK
<1>6. active = s => session # None /\ timer = None /\ born[s] = generation
  <2>1. ASSUME active = s PROVE active # None
    BY <2>1, ConnectionAssumption
  <2> QED
    BY <2>1 DEF IInv, ConnectionInv, OfNow
<1>7. CASE active = s
  <2>1. active' = None /\ timer' = generation /\ Live' = {} /\ generation \in Nat
    BY <1>1, <1>3, <1>6, <1>7 DEF IInv, ConnectionInv, OfNow, ConnectionTypeOK
  <2>2. ConnectionInv'
    BY <1>1, <1>6, <2>1, ConnectionAssumption DEF IInv, ConnectionInv, ConnectionTypeOK
  <2>3. ConnectionTypeOK'
    BY <1>1, <1>2, <2>1 DEF IInv, ConnectionTypeOK
  <2> QED
    BY <2>2, <2>3 DEF IInv
<1>8. CASE active # s
  <2>1. active' = active /\ timer' = timer /\ Live' = Live
    BY <1>1, <1>3, <1>5, <1>8 DEF Live
  <2>2. ConnectionInv'
    BY <1>1, <2>1 DEF IInv, ConnectionInv, ConnectionTypeOK, OfNow
  <2>3. ConnectionTypeOK'
    BY <1>1, <1>2, <2>1 DEF IInv, ConnectionTypeOK
  <2> QED
    BY <2>2, <2>3 DEF IInv
<1> QED
  BY <1>7, <1>8

(* The timer opens a socket of the same generation, for the same session.  *)
LEMMA ReconnectKeeps ==
  ASSUME IInv, Reconnect
  PROVE  IInv'
<1>1. active = None /\ timer = generation /\ session # None /\ timer' = None
  BY DEF Reconnect, IInv, ConnectionInv
<1>2. PICK n \in Free : n = New
  BY <1>1, NewIsFree DEF Reconnect, OpenSocket
<1>3. /\ n \in Socket /\ phase' = [phase EXCEPT ![n] = "connecting"]
      /\ code' = [code EXCEPT ![n] = session] /\ born' = [born EXCEPT ![n] = generation]
      /\ active' = n
      /\ UNCHANGED <<page, joins, store, session, generation, inbox, served, tabs, missed, moves, peers, drops>>
  BY <1>1, <1>2 DEF Reconnect, OpenSocket, Free
<1>4. Live = {}
  BY <1>1, ConnectionAssumption DEF IInv, ConnectionInv, Live, OfNow
<1>5. Live' = {n}
  BY <1>3, <1>4 DEF Live, IInv, ConnectionTypeOK
<1>6. OfNow(n)'
  BY <1>3 DEF OfNow, IInv, ConnectionTypeOK
<1>7. ConnectionInv'
  BY <1>1, <1>3, <1>5, <1>6, ConnectionAssumption DEF IInv, ConnectionInv, ConnectionTypeOK
<1>8. ConnectionTypeOK'
  BY <1>1, <1>3 DEF IInv, ConnectionTypeOK
<1> QED
  BY <1>7, <1>8 DEF IInv

(* The open event changes the phase of a socket that delivers.             *)
LEMMA OpenKeeps ==
  ASSUME IInv, NEW s \in Socket, Open(s)
  PROVE  IInv'
<1>1. Live' = Live
  BY DEF Open, Live, IInv, ConnectionTypeOK
<1>2. ConnectionInv'
  BY <1>1 DEF Open, IInv, ConnectionInv, ConnectionTypeOK, OfNow
<1>3. ConnectionTypeOK'
  BY DEF Open, IInv, ConnectionTypeOK
<1> QED
  BY <1>2, <1>3 DEF IInv

(* A message changes who is shown online, and nothing else.                *)
LEMMA ReceiveKeeps ==
  ASSUME IInv, NEW s \in Socket, Receive(s)
  PROVE  IInv'
<1> DEFINE m == First(s)
<1>1. inbox[s] \in Seq(Message) /\ m \in Message /\ Tail(inbox[s]) \in Seq(Message)
  BY DEF Receive, First, IInv, ConnectionTypeOK
<1>2. m.on = "connected" => m.who \in Who
  BY <1>1 DEF Message
<1>3. /\ store = None => store' = None
      /\ store # None => store' \in SUBSET Who
  BY <1>1, <1>2 DEF Receive, Who, IInv, ConnectionTypeOK
<1>4. (store' = None) = (store = None) /\ store' \in (SUBSET Who) \cup {None}
  BY <1>3, ConnectionAssumption DEF Who
<1>5. UNCHANGED <<page, joins, session, active, timer, generation, phase, code, born, served, tabs, missed,
                  moves, peers, drops>>
  BY DEF Receive
<1>6. inbox' \in [Socket -> Seq(Message)]
  BY <1>1 DEF Receive, IInv, ConnectionTypeOK
<1>7. ConnectionInv'
  BY <1>4, <1>5 DEF IInv, ConnectionInv, Live, OfNow
<1>8. ConnectionTypeOK'
  BY <1>4, <1>5, <1>6 DEF IInv, ConnectionTypeOK
<1> QED
  BY <1>7, <1>8 DEF IInv

(* A broadcast puts a message at the end of inboxes.                       *)
LEMMA BroadcastTyped ==
  ASSUME IInv, NEW list, NEW m \in Message, Broadcast(list, m)
  PROVE  inbox' \in [Socket -> Seq(Message)]
<1>1. ASSUME NEW s \in Socket PROVE Append(inbox[s], m) \in Seq(Message)
  BY DEF IInv, ConnectionTypeOK
<1> QED
  BY <1>1 DEF Broadcast, IInv, ConnectionTypeOK

JoinStates == [stage : {"none", "asked", "served", "refused"}, from : Code \cup {None},
               online : SUBSET Who, stale : BOOLEAN]

(* The peer comes or goes.                                                 *)
LEMMA PeerKeeps ==
  ASSUME IInv, NEW on \in {"connected", "disconnected"}, PeerMoves([on |-> on, who |-> Peer]), tabs' \in Nat
  PROVE  IInv'
<1>1. [on |-> on, who |-> Peer] \in Message
  BY DEF Message, Who
<1>2. inbox' \in [Socket -> Seq(Message)]
  BY <1>1, BroadcastTyped DEF PeerMoves
<1>3. ASSUME NEW c \in Code
      PROVE  [joins[c] EXCEPT !.stale = @ \/ joins[c].stage = "served"] \in JoinStates
  <2>1. joins[c] \in JoinStates
    BY DEF IInv, ConnectionTypeOK, JoinStates
  <2> QED
    BY <2>1 DEF JoinStates
<1>4. joins' \in [Code -> JoinStates]
  BY <1>3 DEF PeerMoves
<1>5. missed' \in BOOLEAN
  BY Zenon DEF PeerMoves, IInv, ConnectionTypeOK
<1>6. ConnectionTypeOK'
  BY <1>2, <1>4, <1>5 DEF PeerMoves, IInv, ConnectionTypeOK, JoinStates
<1>7. UNCHANGED connCore
  BY DEF PeerMoves, connCore
<1> QED
  BY <1>6, <1>7, CoreOnly DEF IInv

(* The server learns of a connection, and of its end.                      *)
LEMMA ServerKeeps ==
  ASSUME IInv, NEW s \in Socket, ServeJoin(s) \/ Forget(s)
  PROVE  IInv'
<1>1. CASE ServeJoin(s)
  <2> DEFINE Told(r) == IF r \in served' /\ phase[r] = "open"
                        THEN Append(inbox[r], [on |-> "connected", who |-> Me]) ELSE inbox[r]
  <2>1. [on |-> "connected", who |-> Me] \in Message /\ [on |-> "joined"] \in Message
    BY DEF Message, Who
  <2>2. ASSUME NEW r \in Socket
        PROVE  Told(r) \in Seq(Message) /\ Append(Told(r), [on |-> "joined"]) \in Seq(Message)
    <3>1. inbox[r] \in Seq(Message)
      BY DEF IInv, ConnectionTypeOK
    <3>2. Told(r) \in Seq(Message)
      BY <2>1, <3>1
    <3> HIDE DEF Told
    <3> QED
      BY <2>1, <3>2
  <2>3. inbox' = [r \in Socket |-> IF r = s THEN Append(Told(r), [on |-> "joined"]) ELSE Told(r)]
    BY <1>1 DEF ServeJoin
  <2>4. inbox' \in [Socket -> Seq(Message)]
    <3> HIDE DEF Told
    <3> QED
      BY <2>2, <2>3
  <2>5. ConnectionTypeOK'
    BY <1>1, <2>4 DEF ServeJoin, clientVars, IInv, ConnectionTypeOK
  <2>6. UNCHANGED connCore
    BY <1>1 DEF ServeJoin, clientVars, connCore
  <2> QED
    BY <2>5, <2>6, CoreOnly DEF IInv
<1>2. CASE Forget(s)
  <2>1. [on |-> "disconnected", who |-> Me] \in Message
    BY DEF Message, Who
  <2>2. inbox' \in [Socket -> Seq(Message)]
    BY <1>2, <2>1, BroadcastTyped DEF Forget
  <2>3. ConnectionTypeOK'
    BY <1>2, <2>2 DEF Forget, IInv, ConnectionTypeOK
  <2>4. Live' = Live /\ \A r \in Socket : phase'[r] = "closing" => phase[r] = "closing"
    BY <1>2 DEF Forget, Live, IInv, ConnectionTypeOK
  <2>5. ConnectionInv'
    BY <1>2, <2>4 DEF Forget, IInv, ConnectionInv, OfNow
  <2> QED
    BY <2>3, <2>5 DEF IInv
<1> QED
  BY <1>1, <1>2

(* The user opens a page.                                                  *)
LEMMA UserKeeps ==
  ASSUME IInv, (\E c \in Code : Visit(c)) \/ GoElsewhere
  PROVE  IInv'
<1>1. /\ moves' \in Nat /\ page' \in Code \cup {None}
      /\ UNCHANGED <<inbox, served, tabs, missed, peers, drops>>
  BY DEF Visit, GoElsewhere, Move, IInv, ConnectionTypeOK
<1>2. Leave \/ UNCHANGED connCore
  BY DEF Visit, GoElsewhere, connCore
<1>3. joins' \in [Code -> JoinStates]
  <2>1. joins \in [Code -> JoinStates]
    BY DEF IInv, ConnectionTypeOK, JoinStates
  <2>2. ASSUME NEW c \in Code, Asking(c) PROVE joins' \in [Code -> JoinStates]
    <3>1. [NoJoin EXCEPT !.stage = "asked", !.from = page'] \in JoinStates
      BY <1>1 DEF NoJoin, JoinStates
    <3> QED
      BY <2>1, <2>2, <3>1 DEF Asking
  <2>3. (\E c \in Code : Asking(c)) \/ joins' = joins
    BY DEF Visit, GoElsewhere
  <2> QED
    BY <2>1, <2>2, <2>3
<1>4. CASE Leave
  BY <1>1, <1>3, <1>4, LeaveKeeps DEF IInv, ConnectionTypeOK, JoinStates
<1>5. CASE UNCHANGED connCore
  <2>1. ConnectionTypeOK'
    BY <1>1, <1>3, <1>5 DEF connCore, IInv, ConnectionTypeOK, JoinStates
  <2> QED
    BY <1>5, <2>1, CoreOnly DEF IInv
<1> QED
  BY <1>2, <1>4, <1>5

(* A join is asked for, answered, and taken up.                            *)
LEMMA JoinKeeps ==
  ASSUME IInv, NEW c \in Code, AskJoin(c) \/ AnswerJoin(c) \/ Joined(c) \/ NotJoined(c)
  PROVE  IInv'
<1>1. joins \in [Code -> JoinStates]
  BY DEF IInv, ConnectionTypeOK, JoinStates
<1>2. NoJoin \in JoinStates
  BY DEF NoJoin, JoinStates
<1>3. CASE AskJoin(c)
  <2>1. [NoJoin EXCEPT !.stage = "asked", !.from = page'] \in JoinStates
    BY <1>3 DEF AskJoin, NoJoin, JoinStates
  <2>2. joins' \in [Code -> JoinStates]
    BY <1>1, <1>3, <2>1 DEF AskJoin, Asking
  <2>3. ConnectionTypeOK' /\ UNCHANGED connCore
    BY <1>3, <2>2 DEF AskJoin, Move, connCore, IInv, ConnectionTypeOK, JoinStates
  <2> QED
    BY <2>3, CoreOnly DEF IInv
<1>4. CASE AnswerJoin(c)
  <2>1. Online \in SUBSET Who
    BY DEF Online, Who
  <2>2. PICK stage \in {"served", "refused"} : joins' = [joins EXCEPT ![c].stage = stage, ![c].online = Online]
    BY <1>4 DEF AnswerJoin
  <2>3. joins[c] \in JoinStates
    BY <1>1
  <2>4. joins' \in [Code -> JoinStates]
    BY <1>1, <2>1, <2>2, <2>3 DEF JoinStates
  <2>5. ConnectionTypeOK' /\ UNCHANGED connCore
    BY <1>4, <2>4 DEF AnswerJoin, connCore, IInv, ConnectionTypeOK, JoinStates
  <2> QED
    BY <2>5, CoreOnly DEF IInv
<1>5. CASE Joined(c)
  <2>1. joins' \in [Code -> JoinStates] /\ joins[c] \in JoinStates
    BY <1>1, <1>2, <1>5 DEF Joined
  <2>2. store' \in SUBSET Who /\ store' # None /\ missed' \in BOOLEAN
    BY <1>5, <2>1, ConnectionAssumption DEF Joined, JoinStates, Who
  <2>3. page' \in Code \cup {None}
    BY <1>5 DEF Joined
  <2>4. ConnectSession(c)
    BY <1>5 DEF Joined
  <2>5. UNCHANGED <<inbox, served, tabs, moves, peers, drops>>
    BY <1>5 DEF Joined
  <2> QED
    BY <2>1, <2>2, <2>3, <2>4, <2>5, ConnectKeeps DEF IInv, ConnectionTypeOK, JoinStates
<1>6. CASE NotJoined(c)
  <2>1. joins' \in [Code -> JoinStates]
    BY <1>1, <1>2, <1>6 DEF NotJoined
  <2>2. ConnectionTypeOK' /\ UNCHANGED connCore
    BY <1>6, <2>1 DEF NotJoined, connCore, IInv, ConnectionTypeOK, JoinStates
  <2> QED
    BY <2>2, CoreOnly DEF IInv
<1> QED
  BY <1>3, <1>4, <1>5, <1>6

-----------------------------------------------------------------------------
LEMMA InitHolds == ConnectionInit => IInv
<1> SUFFICES ASSUME ConnectionInit PROVE IInv
  OBVIOUS
<1>1. NoJoin \in JoinStates
  BY DEF NoJoin, JoinStates
<1>2. <<>> \in Seq(Message)
  OBVIOUS
<1>3. ConnectionTypeOK
  BY <1>1, <1>2 DEF ConnectionInit, ConnectionTypeOK, JoinStates
<1>4. ConnectionInv
  BY DEF ConnectionInit, ConnectionInv, Live
<1> QED
  BY <1>3, <1>4 DEF IInv

LEMMA StepHolds == IInv /\ [ConnectionNext]_connVars => IInv'
<1> SUFFICES ASSUME IInv, [ConnectionNext]_connVars PROVE IInv'
  OBVIOUS
<1>1. ASSUME NEW s \in Socket, SocketStep(s) \/ Drop(s) PROVE IInv'
  <2>1. CASE Open(s)
    BY <2>1, OpenKeeps
  <2>2. CASE ServeJoin(s) \/ Forget(s)
    BY <2>2, ServerKeeps
  <2>3. CASE Receive(s)
    BY <2>3, ReceiveKeeps
  <2>4. CASE ClosingEnds(s)
    BY <2>4, CloseKeeps DEF ClosingEnds, IInv, ConnectionTypeOK
  <2>5. CASE Drop(s)
    BY <2>5, CloseKeeps DEF Drop, Live, IInv, ConnectionTypeOK
  <2> QED
    BY <1>1, <2>1, <2>2, <2>3, <2>4, <2>5 DEF SocketStep
<1>2. CASE Reconnect
  BY <1>2, ReconnectKeeps
<1>3. CASE (\E c \in Code : Visit(c)) \/ GoElsewhere
  BY <1>3, UserKeeps
<1>4. ASSUME NEW c \in Code, AskJoin(c) \/ AnswerJoin(c) \/ Joined(c) \/ NotJoined(c) PROVE IInv'
  BY <1>4, JoinKeeps
<1>5. CASE PeerConnects
  BY <1>5, PeerKeeps DEF PeerConnects, IInv, ConnectionTypeOK
<1>6. CASE PeerDisconnects
  BY <1>6, PeerKeeps DEF PeerDisconnects, IInv, ConnectionTypeOK
<1>7. CASE UNCHANGED connVars
  <2>1. UNCHANGED connCore /\ ConnectionTypeOK'
    BY <1>7 DEF connVars, clientVars, connCore, IInv, ConnectionTypeOK
  <2> QED
    BY <2>1, CoreOnly DEF IInv
<1> QED
  BY <1>1, <1>2, <1>3, <1>4, <1>5, <1>6, <1>7 DEF ConnectionNext

LEMMA Invariance == ConnectionSpec => []IInv
BY InitHolds, StepHolds, PTL DEF ConnectionSpec

(* Every variable of the connection stays within its type.                 *)
THEOREM ConnectionTyped == ConnectionSpec => []ConnectionTypeOK
<1>1. IInv => ConnectionTypeOK
  BY DEF IInv
<1> QED
  BY <1>1, Invariance, PTL

(* At most one socket of session-connection.ts delivers, it is the active  *)
(* one and of the session in the store, and a session is never left        *)
(* without a socket or a timer that opens one.                             *)
THEOREM ConnectionFollows == ConnectionSpec => []ConnectionFollowsSession
<1>1. IInv => ConnectionFollowsSession
  <2> SUFFICES ASSUME IInv PROVE ConnectionFollowsSession
    OBVIOUS
  <2>1. OneLiveSocket
    BY DEF IInv, ConnectionInv, OneLiveSocket, OfNow
  <2>2. SocketFollowsSession
    BY DEF IInv, ConnectionInv, SocketFollowsSession, OfNow
  <2>3. NeverStranded
    BY DEF IInv, ConnectionInv, NeverStranded
  <2> QED
    BY <2>1, <2>2, <2>3 DEF ConnectionFollowsSession
<1> QED
  BY <1>1, Invariance, PTL
-----------------------------------------------------------------------------
(* What makes NoGhosts inductive: while the peer has no connection left, a *)
(* client that missed nothing does not show it, or has yet to read that it *)
(* went; nothing that it reads after that brings the peer back.            *)
Arrived == [on |-> "connected", who |-> Peer]
Left    == [on |-> "disconnected", who |-> Peer]

Settles(shown, q) ==
  \E i \in 0 .. Len(q) :
    /\ i = 0 => Peer \notin shown
    /\ i > 0 => q[i] = Left
    /\ \A j \in i + 1 .. Len(q) : q[j] # Arrived

Unread == IF active = None THEN <<>> ELSE inbox[active]

GhostInv ==
  /\ \A s \in Socket : phase[s] \in {"unused", "connecting", "closed"} => inbox[s] = <<>>
  /\ \A s \in served : phase[s] \in {"open", "closing", "closed"}
  /\ \A c \in Code : joins[c].stage = "served" /\ ~joins[c].stale /\ tabs = 0 => Peer \notin joins[c].online
  /\ store # None /\ ~missed /\ tabs = 0 => Settles(store, Unread)

(* Reading and writing the list of messages.                               *)
LEMMA SettlesAppend ==
  ASSUME NEW shown, NEW q \in Seq(Message), NEW m \in Message, m # Arrived, Settles(shown, q)
  PROVE  Settles(shown, Append(q, m))
<1>1. PICK i \in 0 .. Len(q) : /\ i = 0 => Peer \notin shown
                               /\ i > 0 => q[i] = Left
                               /\ \A j \in i + 1 .. Len(q) : q[j] # Arrived
  BY DEF Settles
<1>2. /\ Len(q) \in Nat /\ Len(Append(q, m)) = Len(q) + 1
      /\ \A j \in 1 .. Len(q) : Append(q, m)[j] = q[j]
      /\ Append(q, m)[Len(q) + 1] = m
  OBVIOUS
<1>3. i \in 0 .. Len(Append(q, m)) /\ (i > 0 => Append(q, m)[i] = Left)
  BY <1>1, <1>2
<1>4. ASSUME NEW j \in i + 1 .. Len(Append(q, m)) PROVE Append(q, m)[j] # Arrived
  <2>1. (j \in i + 1 .. Len(q) /\ j \in 1 .. Len(q)) \/ j = Len(q) + 1
    BY <1>2
  <2>2. CASE j \in i + 1 .. Len(q) /\ j \in 1 .. Len(q)
    <3>1. q[j] # Arrived /\ Append(q, m)[j] = q[j]
      BY <1>1, <1>2, <2>2
    <3> QED
      BY <3>1
  <2>3. CASE j = Len(q) + 1
    BY <1>2, <2>3
  <2> QED
    BY <2>1, <2>2, <2>3
<1> QED
  BY <1>1, <1>3, <1>4 DEF Settles

LEMMA SettlesAt ==
  ASSUME NEW shown, NEW q, NEW k \in 0 .. Len(q), k = 0 => Peer \notin shown, k > 0 => q[k] = Left,
         \A j \in k + 1 .. Len(q) : q[j] # Arrived
  PROVE  Settles(shown, q)
  BY DEF Settles

LEMMA SettlesOnLeft ==
  ASSUME NEW shown, NEW q \in Seq(Message)
  PROVE  Settles(shown, Append(q, Left))
<1>1. /\ Len(q) \in Nat /\ Len(Append(q, Left)) = Len(q) + 1
      /\ Append(q, Left)[Len(q) + 1] = Left
  BY DEF Left, Message, Who
<1>2. Len(q) + 1 \in 0 .. Len(Append(q, Left)) /\ Len(q) + 1 > 0
  BY <1>1
<1>3. \A j \in Len(q) + 1 + 1 .. Len(Append(q, Left)) : FALSE
  BY <1>1
<1> QED
  BY <1>1, <1>2, <1>3 DEF Settles

LEMMA SettlesTail ==
  ASSUME NEW shown \in SUBSET Who, NEW q \in Seq(Message), q # <<>>, Settles(shown, q), NEW rest,
         Head(q).on = "joined" => rest = shown \cup {Me},
         Head(q).on = "connected" => rest = shown \cup {Head(q).who},
         Head(q).on = "disconnected" => rest = shown \ {Head(q).who}
  PROVE  Settles(rest, Tail(q))
<1>1. PICK i \in 0 .. Len(q) : /\ i = 0 => Peer \notin shown
                               /\ i > 0 => q[i] = Left
                               /\ \A j \in i + 1 .. Len(q) : q[j] # Arrived
  BY DEF Settles
<1>2. /\ Len(q) \in Nat /\ Len(q) > 0 /\ Len(Tail(q)) = Len(q) - 1 /\ Head(q) = q[1] /\ q[1] \in Message
      /\ \A j \in 1 .. Len(q) - 1 : Tail(q)[j] = q[j + 1]
  OBVIOUS
<1>3. CASE i > 1
  <2>1. i - 1 \in 0 .. Len(Tail(q)) /\ i - 1 > 0 /\ Tail(q)[i - 1] = Left
    BY <1>1, <1>2, <1>3
  <2>2. ASSUME NEW j \in (i - 1) + 1 .. Len(Tail(q)) PROVE Tail(q)[j] # Arrived
    <3>1. j + 1 \in i + 1 .. Len(q) /\ j \in 1 .. Len(q) - 1
      BY <1>2, <1>3
    <3>2. q[j + 1] # Arrived
      BY <1>1, <3>1
    <3>3. Tail(q)[j] = q[j + 1]
      BY <1>2, <3>1
    <3> QED
      BY <3>2, <3>3
  <2> QED
    BY <2>1, <2>2 DEF Settles
<1>4. CASE i <= 1
  <2>1. Peer \notin rest
    <3>1. CASE i = 0
      <4>0. 1 \in i + 1 .. Len(q)
        BY <1>2, <3>1
      <4>1. q[1] # Arrived /\ Peer \notin shown
        BY <1>1, <3>1, <4>0
      <4>2. Head(q).on = "connected" => Head(q).who # Peer
        BY <1>2, <4>1 DEF Arrived, Message
      <4>3. Head(q).on \in {"joined", "connected", "disconnected"}
        BY <1>2 DEF Message
      <4> QED
        BY <4>1, <4>2, <4>3, ConnectionAssumption
    <3>2. CASE i = 1
      <4>1. Head(q) = Left
        BY <1>1, <1>2, <3>2
      <4> QED
        BY <4>1 DEF Left
    <3> QED
      BY <1>4, <3>1, <3>2
  <2>2. ASSUME NEW j \in 0 + 1 .. Len(Tail(q)) PROVE Tail(q)[j] # Arrived
    <3>1. j + 1 \in i + 1 .. Len(q) /\ j \in 1 .. Len(q) - 1
      BY <1>2, <1>4
    <3>2. q[j + 1] # Arrived
      BY <1>1, <3>1
    <3>3. Tail(q)[j] = q[j + 1]
      BY <1>2, <3>1
    <3> QED
      BY <3>2, <3>3
  <2>3. 0 \in 0 .. Len(Tail(q))
    BY <1>2
  <2>4. ~(0 > 0)
    OBVIOUS
  <2> QED
    BY ONLY <2>1, <2>2, <2>3, <2>4, SettlesAt
<1> QED
  BY <1>3, <1>4

LEMMA SettlesEmpty ==
  ASSUME NEW shown
  PROVE  Settles(shown, <<>>) <=> Peer \notin shown
<1>1. Len(<<>>) = 0
  OBVIOUS
<1> QED
  BY <1>1 DEF Settles

(* A drained list of which nothing was about the peer.                     *)
LEMMA SettlesForgotten ==
  ASSUME NEW shown, NEW q \in Seq(Message), Settles(shown, q), \A i \in DOMAIN q : q[i].on = "joined"
  PROVE  Settles(shown, <<>>)
<1>1. PICK i \in 0 .. Len(q) : (i = 0 => Peer \notin shown) /\ (i > 0 => q[i] = Left)
  BY DEF Settles
<1>2. i = 0
  BY <1>1 DEF Left
<1> QED
  BY <1>1, <1>2, SettlesEmpty

(* The sockets that cannot deliver have nothing to deliver.                *)
Hollow == {s \in Socket : phase[s] \in {"unused", "connecting", "closed"}}

LEMMA GhostFacts ==
  ASSUME IInv, GhostInv
  PROVE  /\ \A s \in Hollow : inbox[s] = <<>>
         /\ \A s \in served : s \in Socket /\ phase[s] \in {"open", "closing", "closed"}
         /\ joins \in [Code -> JoinStates]
         /\ inbox \in [Socket -> Seq(Message)] /\ Unread \in Seq(Message)
         /\ phase \in [Socket -> {"unused", "connecting", "open", "closing", "closed"}]
         /\ active # None => active \in Socket /\ phase[active] \in {"connecting", "open"}
         /\ \A s \in Socket : phase[s] = "open" => active = s /\ active # None
         /\ store # None => store \in SUBSET Who
<1>1. Unread \in Seq(Message)
  BY DEF Unread, IInv, ConnectionTypeOK
<1>2. \A s \in Socket : phase[s] = "open" => active = s /\ active # None
  BY ConnectionAssumption DEF IInv, ConnectionInv, Live, OfNow
<1> QED
  BY <1>1, <1>2 DEF GhostInv, Hollow, IInv, ConnectionTypeOK, ConnectionInv, Live, JoinStates

(* A broadcast that is not about the peer coming, to those whose socket is *)
(* open.                                                                   *)
LEMMA BroadcastSettles ==
  ASSUME IInv, GhostInv, NEW list, NEW m \in Message, Broadcast(list, m), m # Arrived, active' = active
  PROVE  /\ \A s \in Hollow : inbox'[s] = inbox[s]
         /\ \A shown : Settles(shown, Unread) => Settles(shown, Unread')
<1>1. \A s \in Socket : inbox'[s] = IF s \in list /\ phase[s] = "open" THEN Append(inbox[s], m) ELSE inbox[s]
  BY DEF Broadcast
<1>2. \A s \in Hollow : inbox'[s] = inbox[s]
  BY <1>1 DEF Hollow
<1>3. Unread' = Unread \/ Unread' = Append(Unread, m)
  BY <1>1, GhostFacts DEF Unread
<1>4. ASSUME NEW shown, Settles(shown, Unread) PROVE Settles(shown, Unread')
  <2>1. Settles(shown, Append(Unread, m))
    BY <1>4, GhostFacts, SettlesAppend
  <2> QED
    BY <1>3, <1>4, <2>1
<1> QED
  BY <1>2, <1>4

LEMMA GhostSocket ==
  ASSUME IInv, GhostInv, NEW s \in Socket, Open(s) \/ Receive(s) \/ ServeJoin(s) \/ Forget(s)
  PROVE  GhostInv'
<1>1. UNCHANGED <<joins, tabs, missed, active>>
  BY DEF Open, Receive, ServeJoin, Forget, clientVars
<1>2. CASE Open(s)
  <2>1. /\ phase[s] = "connecting" /\ phase' = [phase EXCEPT ![s] = "open"]
        /\ UNCHANGED <<store, inbox, served>>
    BY <1>2 DEF Open
  <2>2. \A r \in Socket : phase'[r] = IF r = s THEN "open" ELSE phase[r]
    BY <2>1, GhostFacts
  <2>3. Unread' = Unread
    BY <1>1, <2>1 DEF Unread
  <2> QED
    BY <1>1, <2>1, <2>2, <2>3, GhostFacts DEF GhostInv, Hollow
<1>3. CASE Receive(s)
  <2>1. /\ phase[s] = "open" /\ inbox[s] # <<>> /\ inbox' = [inbox EXCEPT ![s] = Tail(@)]
        /\ UNCHANGED <<phase, served>>
    BY <1>3 DEF Receive
  <2>2. active = s /\ active # None /\ inbox[s] \in Seq(Message) /\ Unread = inbox[s]
    BY <2>1, GhostFacts DEF Unread
  <2>3. Unread' = Tail(inbox[s]) /\ \A r \in Socket : r # s => inbox'[r] = inbox[r]
    BY <1>1, <2>1, <2>2, GhostFacts DEF Unread
  <2>4. ASSUME store' # None, ~missed, tabs = 0
        PROVE  Settles(store', Unread')
    <3>1. store # None
      BY <1>3, <2>4 DEF Receive
    <3>2. Settles(store, inbox[s]) /\ store \in SUBSET Who
      BY <2>2, <2>4, <3>1, GhostFacts DEF GhostInv
    <3>3. /\ Head(inbox[s]).on = "joined" => store' = store \cup {Me}
          /\ Head(inbox[s]).on = "connected" => store' = store \cup {Head(inbox[s]).who}
          /\ Head(inbox[s]).on = "disconnected" => store' = store \ {Head(inbox[s]).who}
      BY <1>3, <3>1 DEF Receive, First
    <3> QED
      BY <2>1, <2>2, <2>3, <3>2, <3>3, SettlesTail
  <2> QED
    BY <1>1, <2>1, <2>3, <2>4, GhostFacts DEF GhostInv, Hollow
<1>4. CASE ServeJoin(s)
  <2> DEFINE Told(r) == IF r \in served' /\ phase[r] = "open"
                        THEN Append(inbox[r], [on |-> "connected", who |-> Me]) ELSE inbox[r]
  <2>1. /\ phase[s] = "open" /\ served' = served \cup {s} /\ UNCHANGED <<phase, store>>
        /\ inbox' = [r \in Socket |-> IF r = s THEN Append(Told(r), [on |-> "joined"]) ELSE Told(r)]
    BY <1>4 DEF ServeJoin, clientVars
  <2>2. /\ [on |-> "connected", who |-> Me] \in Message /\ [on |-> "connected", who |-> Me] # Arrived
        /\ [on |-> "joined"] \in Message /\ [on |-> "joined"] # Arrived
    <3>1. [on |-> "connected", who |-> Me].who # Arrived.who /\ [on |-> "joined"].on # Arrived.on
      BY ConnectionAssumption DEF Arrived
    <3> QED
      BY <3>1 DEF Message, Who
  <2>3. active = s /\ active # None /\ Unread = inbox[s] /\ inbox[s] \in Seq(Message)
    BY <2>1, GhostFacts DEF Unread
  <2>4. \A r \in Socket : r # s /\ phase[r] # "open" => inbox'[r] = inbox[r]
    BY <2>1
  <2>5. Unread' = Append(Append(inbox[s], [on |-> "connected", who |-> Me]), [on |-> "joined"])
    BY <1>1, <2>1, <2>3 DEF Unread
  <2>6. Append(inbox[s], [on |-> "connected", who |-> Me]) \in Seq(Message)
    BY <2>2, <2>3
  <2>7. Settles(store, Unread) => Settles(store, Unread')
    BY <2>2, <2>3, <2>5, <2>6, SettlesAppend
  <2> HIDE DEF Told
  <2> QED
    BY <1>1, <2>1, <2>4, <2>7, GhostFacts DEF GhostInv, Hollow
<1>5. CASE Forget(s)
  <2>1. /\ s \in served /\ phase[s] \in {"closing", "closed"} /\ served' = served \ {s} /\ UNCHANGED store
        /\ Broadcast(served', [on |-> "disconnected", who |-> Me])
        /\ phase' = [phase EXCEPT ![s] = IF @ = "closed" THEN "unused" ELSE @]
    BY <1>5 DEF Forget
  <2>2. [on |-> "disconnected", who |-> Me] \in Message /\ [on |-> "disconnected", who |-> Me] # Arrived
    <3>1. [on |-> "disconnected", who |-> Me].on # Arrived.on
      BY DEF Arrived
    <3> QED
      BY <3>1 DEF Message, Who
  <2>3. /\ \A r \in Hollow : inbox'[r] = inbox[r]
        /\ Settles(store, Unread) => Settles(store, Unread')
    BY <1>1, <2>1, <2>2, BroadcastSettles
  <2>4. \A r \in Socket : phase'[r] = phase[r] \/ (r = s /\ phase[r] = "closed" /\ phase'[r] = "unused")
    BY <2>1, GhostFacts
  <2> QED
    BY <1>1, <2>1, <2>3, <2>4, GhostFacts DEF GhostInv, Hollow
<1> QED
  BY <1>2, <1>3, <1>4, <1>5

(* A socket that closes takes what was not read with it; then the client   *)
(* has missed it.                                                          *)
LEMMA GhostClose ==
  ASSUME IInv, GhostInv, NEW s \in Socket, phase[s] \in {"connecting", "open", "closing"}, OnClose(s)
  PROVE  GhostInv'
<1>1. /\ phase' = [phase EXCEPT ![s] = IF s \in served THEN "closed" ELSE "unused"]
      /\ inbox' = [inbox EXCEPT ![s] = <<>>]
      /\ active' = IF active = s THEN None ELSE active
      /\ UNCHANGED <<joins, store, served, tabs>>
  BY DEF OnClose
<1>2. \A r \in Socket : /\ phase'[r] = IF r # s THEN phase[r] ELSE IF s \in served THEN "closed" ELSE "unused"
                        /\ inbox'[r] = IF r # s THEN inbox[r] ELSE <<>>
  BY <1>1, GhostFacts
<1>3. ASSUME store # None, ~missed', tabs = 0
      PROVE  Settles(store, Unread')
  <2>1. ~missed /\ (s = active => \A i \in DOMAIN inbox[s] : inbox[s][i].on = "joined")
    BY <1>3 DEF OnClose
  <2>2. Settles(store, Unread)
    BY <1>3, <2>1 DEF GhostInv
  <2>3. CASE active = s
    <3>1. s # None
      BY ConnectionAssumption
    <3>2. Unread = inbox[s] /\ Unread' = <<>>
      BY <1>1, <2>3, <3>1 DEF Unread
    <3> QED
      BY <2>1, <2>2, <2>3, <3>2, GhostFacts, SettlesForgotten
  <2>4. CASE active # s
    <3>1. Unread' = Unread
      BY <1>1, <1>2, <2>4, GhostFacts DEF Unread
    <3> QED
      BY <2>2, <3>1
  <2> QED
    BY <2>3, <2>4
<1> QED
  BY <1>1, <1>2, <1>3, GhostFacts DEF GhostInv, Hollow

(* A new socket has nothing to deliver.                                    *)
LEMMA GhostReconnect ==
  ASSUME IInv, GhostInv, Reconnect
  PROVE  GhostInv'
<1>1. active = None /\ timer = generation /\ session # None
  BY DEF Reconnect, IInv, ConnectionInv
<1>2. PICK n \in Free : n = New
  BY <1>1, NewIsFree DEF Reconnect, OpenSocket
<1>3. /\ n \in Socket /\ n # None /\ phase[n] = "unused" /\ phase' = [phase EXCEPT ![n] = "connecting"]
      /\ active' = n /\ UNCHANGED <<joins, store, inbox, served, tabs, missed>>
  BY <1>1, <1>2, ConnectionAssumption DEF Reconnect, OpenSocket, Free
<1>4. n \in Hollow /\ inbox[n] = <<>> /\ n \notin served
  BY <1>3, GhostFacts DEF Hollow
<1>5. Unread = <<>> /\ Unread' = <<>>
  BY <1>1, <1>3, <1>4 DEF Unread
<1>6. \A r \in Socket : r # n => phase'[r] = phase[r]
  BY <1>3, GhostFacts
<1> QED
  BY <1>3, <1>4, <1>5, <1>6, GhostFacts DEF GhostInv, Hollow

(* The user leaves the session, or opens a page without one.               *)
LEMMA GhostUser ==
  ASSUME IInv, GhostInv, (\E c \in Code : Visit(c)) \/ GoElsewhere
  PROVE  GhostInv'
<1>1. UNCHANGED <<inbox, served, tabs, missed>>
  BY DEF Visit, GoElsewhere
<1>2. \A c \in Code : joins'[c].stage = "served" => joins'[c] = joins[c]
  <2>1. ASSUME NEW c \in Code, Asking(c)
        PROVE  \A d \in Code : joins'[d].stage = "served" => joins'[d] = joins[d]
    <3>1. joins' = [joins EXCEPT ![c] = [NoJoin EXCEPT !.stage = "asked", !.from = page']]
      BY <2>1 DEF Asking
    <3> QED
      BY <3>1, GhostFacts DEF NoJoin
  <2>2. (\E c \in Code : Asking(c)) \/ joins' = joins
    BY DEF Visit, GoElsewhere
  <2> QED
    BY <2>1, <2>2
<1>3. CASE Leave
  <2>1. store' = None /\ phase' = Closed(phase)
    BY <1>3 DEF Leave, DisconnectSession
  <2>2. \A r \in Socket : phase'[r] = IF r = active THEN "closing" ELSE phase[r]
    BY <2>1 DEF Closed
  <2> QED
    BY <1>1, <1>2, <2>1, <2>2, GhostFacts DEF GhostInv, Hollow
<1>4. CASE UNCHANGED connCore
  BY <1>1, <1>2, <1>4 DEF GhostInv, connCore, Unread
<1>5. Leave \/ UNCHANGED connCore
  BY DEF Visit, GoElsewhere, connCore
<1> QED
  BY <1>3, <1>4, <1>5

(* A join that is taken up shows who was online when it was answered.      *)
LEMMA GhostJoin ==
  ASSUME IInv, GhostInv, NEW c \in Code, AskJoin(c) \/ AnswerJoin(c) \/ Joined(c) \/ NotJoined(c)
  PROVE  GhostInv'
<1>1. UNCHANGED <<inbox, served, tabs>>
  BY DEF AskJoin, AnswerJoin, Joined, NotJoined
<1>2. CASE AskJoin(c) \/ NotJoined(c)
  <2>1. \A d \in Code : joins'[d].stage = "served" => joins'[d] = joins[d]
    <3>1. PICK stage \in {"asked", "none"}, from \in {page', None} :
            joins' = [joins EXCEPT ![c] = [stage |-> stage, from |-> from, online |-> {}, stale |-> FALSE]]
      BY <1>2 DEF AskJoin, NotJoined, Asking, NoJoin
    <3> QED
      BY <3>1, GhostFacts
  <2>2. UNCHANGED <<store, missed, active, phase>>
    BY <1>2 DEF AskJoin, NotJoined
  <2> QED
    BY <1>1, <2>1, <2>2 DEF GhostInv, Unread
<1>3. CASE AnswerJoin(c)
  <2>1. PICK stage \in {"served", "refused"} : joins' = [joins EXCEPT ![c].stage = stage, ![c].online = Online]
    BY <1>3 DEF AnswerJoin
  <2>2. /\ joins'[c].online = Online
        /\ \A d \in Code : d # c => joins'[d] = joins[d]
    BY <2>1, GhostFacts DEF JoinStates
  <2>3. tabs = 0 => Peer \notin Online
    BY ConnectionAssumption DEF Online
  <2>4. UNCHANGED <<store, missed, active, phase>>
    BY <1>3 DEF AnswerJoin
  <2> QED
    BY <1>1, <2>2, <2>3, <2>4 DEF GhostInv, Unread
<1>4. CASE Joined(c)
  <2>1. /\ joins[c].stage = "served" /\ joins' = [joins EXCEPT ![c] = NoJoin]
        /\ store' = joins[c].online \cup {Me} /\ missed' = joins[c].stale /\ ConnectSession(c)
    BY <1>4 DEF Joined
  <2>2. PICK n \in Free : n = New
    BY <2>1, NewIsFree DEF ConnectSession, OpenSocket
  <2>3. /\ n \in Socket /\ n # None /\ phase[n] = "unused" /\ active' = n
        /\ phase' = [Closed(phase) EXCEPT ![n] = "connecting"]
    BY <2>1, <2>2, ConnectionAssumption DEF ConnectSession, OpenSocket, Free
  <2>4. \A r \in Socket : phase'[r] = IF r = n THEN "connecting" ELSE IF r = active THEN "closing" ELSE phase[r]
    BY <2>3 DEF Closed
  <2>5. n \in Hollow /\ inbox[n] = <<>> /\ n \notin served
    BY <2>3, GhostFacts DEF Hollow
  <2>6. Unread' = <<>>
    BY <1>1, <2>3, <2>5 DEF Unread
  <2>7. ~missed' /\ tabs = 0 => Peer \notin store'
    BY <2>1, ConnectionAssumption DEF GhostInv
  <2>8. \A d \in Code : joins'[d].stage = "served" => joins'[d] = joins[d]
    BY <2>1, GhostFacts DEF NoJoin
  <2> QED
    BY <1>1, <2>4, <2>5, <2>6, <2>7, <2>8, GhostFacts, SettlesEmpty DEF GhostInv, Hollow
<1> QED
  BY <1>2, <1>3, <1>4

(* The peer comes or goes: whoever is not told has missed it.              *)
LEMMA GhostPeer ==
  ASSUME IInv, GhostInv, PeerConnects \/ PeerDisconnects
  PROVE  GhostInv'
<1>1. UNCHANGED <<store, active, phase, served>>
  BY DEF PeerConnects, PeerDisconnects, PeerMoves
<1>2. \A c \in Code : ~(joins'[c].stage = "served" /\ ~joins'[c].stale)
  <2>1. joins' = [c \in Code |-> [joins[c] EXCEPT !.stale = @ \/ joins[c].stage = "served"]]
    BY DEF PeerConnects, PeerDisconnects, PeerMoves
  <2>2. ASSUME NEW c \in Code PROVE ~(joins'[c].stage = "served" /\ ~joins'[c].stale)
    <3>1. joins[c] \in JoinStates
      BY GhostFacts
    <3>2. joins'[c] = [joins[c] EXCEPT !.stale = @ \/ joins[c].stage = "served"]
      BY <2>1
    <3>3. joins'[c].stage = joins[c].stage /\ joins'[c].stale = (joins[c].stale \/ joins[c].stage = "served")
      BY <3>1, <3>2 DEF JoinStates
    <3> QED
      BY <3>3
  <2> QED
    BY <2>2
<1>3. \A s \in Hollow : inbox'[s] = inbox[s]
  BY DEF PeerConnects, PeerDisconnects, PeerMoves, Broadcast, Hollow
<1>4. CASE PeerConnects
  <2>1. tabs' = tabs + 1 /\ tabs \in Nat
    BY <1>4 DEF PeerConnects, IInv, ConnectionTypeOK
  <2>2. tabs' # 0
    BY <2>1
  <2> QED
    BY <1>1, <1>2, <1>3, <2>2, GhostFacts DEF GhostInv, Hollow
<1>5. CASE PeerDisconnects
  <2>1. Broadcast(served, Left) /\ missed' = (missed \/ active \notin served)
    BY <1>5 DEF PeerDisconnects, PeerMoves, Left
  <2>2. ASSUME ~missed', store # None
        PROVE  Settles(store, Unread')
    <3>1. active \in served
      BY <2>1, <2>2
    <3>2. /\ active # None /\ active \in Socket /\ phase[active] = "open"
          /\ Unread = inbox[active] /\ Unread \in Seq(Message)
      <4>1. active # None /\ active \in Socket
        BY <3>1, GhostFacts, ConnectionAssumption
      <4> QED
        BY <3>1, <4>1, GhostFacts DEF Unread
    <3>3. Unread' = Append(Unread, Left)
      BY <1>1, <2>1, <3>1, <3>2 DEF Broadcast, Unread
    <3> QED
      BY <3>2, <3>3, SettlesOnLeft
  <2> QED
    BY <1>1, <1>2, <1>3, <2>2, GhostFacts DEF GhostInv, Hollow
<1> QED
  BY <1>4, <1>5

LEMMA GhostsHold == ConnectionSpec => []GhostInv
<1>1. ConnectionInit => GhostInv
  <2> SUFFICES ASSUME ConnectionInit PROVE GhostInv
    OBVIOUS
  <2> QED
    BY DEF ConnectionInit, GhostInv, NoJoin
<1>2. IInv /\ GhostInv /\ [ConnectionNext]_connVars => GhostInv'
  <2> SUFFICES ASSUME IInv, GhostInv, [ConnectionNext]_connVars PROVE GhostInv'
    OBVIOUS
  <2>1. ASSUME NEW s \in Socket, SocketStep(s) \/ Drop(s) PROVE GhostInv'
    <3>1. CASE ClosingEnds(s)
      BY <3>1, GhostClose DEF ClosingEnds
    <3>2. CASE Drop(s)
      BY <3>2, GhostClose DEF Drop, Live
    <3> QED
      BY <2>1, <3>1, <3>2, GhostSocket DEF SocketStep
  <2>2. CASE UNCHANGED connVars
    BY <2>2 DEF connVars, clientVars, GhostInv, Unread
  <2> QED
    BY <2>1, <2>2, GhostReconnect, GhostUser, GhostJoin, GhostPeer DEF ConnectionNext
<1> QED
  BY <1>1, <1>2, Invariance, PTL DEF ConnectionSpec

(* At rest the store shows nobody online who is not, whatever order the    *)
(* notices of ws/handler.rs, the answers to joins and the reconnections    *)
(* came in, unless the peer moved while this client was not listening.     *)
THEOREM GhostFree == ConnectionSpec => []NoGhosts
<1>1. IInv /\ GhostInv => NoGhosts
  <2> SUFFICES ASSUME IInv, GhostInv, Quiescent, store # None, ~missed PROVE store \subseteq Online
    BY DEF NoGhosts
  <2>1. timer = None /\ served = Live /\ \A s \in Socket : inbox[s] = <<>>
    BY DEF Quiescent
  <2>2. active \in Live /\ active \in Socket /\ active # None
    BY <2>1 DEF IInv, ConnectionInv, Live
  <2>3. Me \in Online
    BY <2>1, <2>2 DEF Online
  <2>4. Unread = <<>>
    BY <2>1, <2>2 DEF Unread
  <2>5. tabs = 0 => Peer \notin store
    BY <2>4, SettlesEmpty DEF GhostInv
  <2>6. tabs # 0 => Peer \in Online
    <3>1. tabs \in Nat
      BY DEF IInv, ConnectionTypeOK
    <3> QED
      BY <3>1 DEF Online
  <2>7. store \in SUBSET Who
    BY GhostFacts
  <2> QED
    BY <2>3, <2>5, <2>6, <2>7 DEF Who
<1> QED
  BY <1>1, Invariance, GhostsHold, PTL
-----------------------------------------------------------------------------
(* The live output of an agent.                                            *)
(* What makes the stream's property inductive: the service is live or it   *)
(* is quiet; a live one has a socket or a timer for the next one; its      *)
(* socket connects or is open, and an open one hears all subscriptions.    *)
Linked(s) ==
  /\ s.live => ~s.quit /\ (s.timer \/ s.cur # Nobody)
  /\ ~s.live => ~s.timer /\ s.cur = Nobody
  /\ s.cur # Nobody => s.wire[s.cur] \in {"connecting", "open"}
  /\ IsOpen(s) => s.subs \subseteq s.heard[s.cur]

StreamInv ==
  /\ Linked(st)
  /\ panel \in Agent => st.live /\ panel \in st.subs
  /\ LogKeepsPolling

StreamIInv == StreamTypeOK /\ StreamInv

-----------------------------------------------------------------------------
(* One operation of agent-stream.ts after the other, on any state of it.   *)
LEMMA OpenWireKeeps ==
  ASSUME NEW s \in Service, s.live, ~s.quit, Unused(s) # {}
  PROVE  /\ OpenWire(s) \in Service /\ Linked(OpenWire(s))
         /\ OpenWire(s).live /\ OpenWire(s).subs = s.subs
         /\ \E w \in Wire : Unused(OpenWire(s)) = Unused(s) \ {w}
<1>1. PICK w \in Unused(s) : w = CHOOSE x \in Unused(s) : TRUE
  OBVIOUS
<1>2. w \in Wire /\ w # Nobody
  BY StreamAssumption DEF Unused
<1>3. OpenWire(s) = [s EXCEPT !.cur = w, !.wire[w] = "connecting", !.heard[w] = {}]
  BY <1>1 DEF OpenWire
<1>4. OpenWire(s) \in Service
  <2>1. [s.heard EXCEPT ![w] = {}] \in [Wire -> SUBSET Agent]
    BY <1>2 DEF Service
  <2>2. [s.wire EXCEPT ![w] = "connecting"] \in [Wire -> {"unused", "connecting", "open", "closing"}]
    BY <1>2 DEF Service
  <2>3. OpenWire(s) = [s EXCEPT !.cur = w, !.wire = [s.wire EXCEPT ![w] = "connecting"],
                                !.heard = [s.heard EXCEPT ![w] = {}]]
    BY <1>3 DEF Service
  <2> QED
    BY <1>2, <2>1, <2>2, <2>3 DEF Service
<1>5. /\ OpenWire(s).live = s.live /\ OpenWire(s).quit = s.quit /\ OpenWire(s).cur = w
      /\ OpenWire(s).subs = s.subs
      /\ OpenWire(s).wire = [s.wire EXCEPT ![w] = "connecting"]
  BY <1>3 DEF Service
<1>6. OpenWire(s).wire[w] = "connecting"
  BY <1>2, <1>5 DEF Service
<1>7. Linked(OpenWire(s))
  BY <1>2, <1>5, <1>6 DEF Linked, IsOpen
<1>8. Unused(OpenWire(s)) = Unused(s) \ {w}
  BY <1>2, <1>5 DEF Unused, Service
<1> QED
  BY <1>2, <1>4, <1>5, <1>7, <1>8

LEMMA DisconnectKeeps ==
  ASSUME NEW s \in Service, Linked(s)
  PROVE  /\ Disconnect(s) \in Service /\ Linked(Disconnect(s))
         /\ ~Disconnect(s).live /\ Disconnect(s).subs = {}
         /\ Unused(Disconnect(s)) = Unused(s)
<1>1. Disconnect(s) \in Service
  BY DEF Disconnect, Service
<1>2. /\ Disconnect(s).live = FALSE /\ Disconnect(s).timer = FALSE
      /\ Disconnect(s).cur = Nobody /\ Disconnect(s).subs = {}
      /\ Disconnect(s).wire = [w \in Wire |-> IF w = s.cur THEN "closing" ELSE s.wire[w]]
  BY DEF Disconnect, Service
<1>3. Linked(Disconnect(s))
  BY <1>2 DEF Linked, IsOpen
<1>4. Unused(Disconnect(s)) = Unused(s)
  BY <1>2, StreamAssumption DEF Unused, Linked
<1> QED
  BY <1>1, <1>2, <1>3, <1>4

LEMMA ConnectKeepsLink ==
  ASSUME NEW s \in Service, Linked(s), (s.live /\ IsOpen(s)) \/ Unused(s) # {}
  PROVE  /\ Connect(s) \in Service /\ Linked(Connect(s)) /\ Connect(s).live
         /\ s.live /\ IsOpen(s) => Connect(s) = s
         /\ ~(s.live /\ IsOpen(s)) => \E w \in Wire : Unused(Connect(s)) = Unused(s) \ {w}
<1>1. CASE s.live /\ IsOpen(s)
  BY <1>1 DEF Connect
<1>2. CASE ~(s.live /\ IsOpen(s))
  <2> DEFINE d == [Disconnect(s) EXCEPT !.quit = FALSE, !.live = TRUE]
  <2>1. /\ Disconnect(s) \in Service /\ Unused(Disconnect(s)) = Unused(s)
    BY DisconnectKeeps
  <2>2. d \in Service /\ d.live /\ ~d.quit /\ d.wire = Disconnect(s).wire
    BY <2>1 DEF Service
  <2>3. Unused(d) = Unused(s)
    BY <2>1, <2>2 DEF Unused
  <2>4. Connect(s) = OpenWire(d)
    BY <1>2 DEF Connect
  <2> HIDE DEF d
  <2> QED
    BY <1>2, <2>2, <2>3, <2>4, OpenWireKeeps
<1> QED
  BY <1>1, <1>2

LEMMA SubscribeKeeps ==
  ASSUME NEW s \in Service, Linked(s), NEW a \in Agent
  PROVE  /\ Subscribe(s, a) \in Service /\ Linked(Subscribe(s, a))
         /\ Subscribe(s, a).live = s.live /\ a \in Subscribe(s, a).subs
         /\ Subscribe(s, a).wire = s.wire /\ Subscribe(s, a).cur = s.cur
<1> DEFINE k == [s EXCEPT !.subs = @ \cup {a}]
<1>1. k \in Service /\ k.subs = s.subs \cup {a}
  BY DEF Service
<1>2. /\ k.live = s.live /\ k.quit = s.quit /\ k.timer = s.timer /\ k.cur = s.cur
      /\ k.wire = s.wire /\ k.heard = s.heard
  BY DEF Service
<1>3. IsOpen(k) <=> IsOpen(s)
  BY <1>2 DEF IsOpen
<1>4. CASE IsOpen(s)
  <2>1. s.cur \in Wire
    BY <1>4 DEF IsOpen, Service
  <2>2. Subscribe(s, a) = [k EXCEPT !.heard[k.cur] = @ \cup {a}]
    BY <1>3, <1>4 DEF Subscribe, SendSubscribe
  <2>3. Subscribe(s, a) \in Service
    <3>1. [s.heard EXCEPT ![s.cur] = @ \cup {a}] \in [Wire -> SUBSET Agent]
      BY <2>1 DEF Service
    <3>2. Subscribe(s, a) = [k EXCEPT !.heard = [s.heard EXCEPT ![s.cur] = @ \cup {a}]]
      BY <1>1, <1>2, <2>2 DEF Service
    <3> HIDE DEF k
    <3> QED
      BY <1>1, <3>1, <3>2 DEF Service
  <2>4. /\ Subscribe(s, a).live = s.live /\ Subscribe(s, a).quit = s.quit
        /\ Subscribe(s, a).timer = s.timer /\ Subscribe(s, a).cur = s.cur
        /\ Subscribe(s, a).wire = s.wire /\ Subscribe(s, a).subs = s.subs \cup {a}
        /\ Subscribe(s, a).heard[s.cur] = s.heard[s.cur] \cup {a}
    BY <1>1, <1>2, <2>1, <2>2 DEF Service
  <2> QED
    BY <1>4, <2>3, <2>4 DEF Linked, IsOpen
<1>5. CASE ~IsOpen(s)
  <2>1. Subscribe(s, a) = k
    BY <1>3, <1>5 DEF Subscribe, SendSubscribe
  <2> HIDE DEF k
  <2> QED
    BY <1>1, <1>2, <1>5, <2>1 DEF Linked, IsOpen
<1> QED
  BY <1>4, <1>5

LEMMA UnsubscribeKeeps ==
  ASSUME NEW s \in Service, Linked(s), NEW a \in Agent
  PROVE  /\ Unsubscribe(s, a) \in Service /\ Linked(Unsubscribe(s, a))
         /\ Unsubscribe(s, a).live = s.live
         /\ Unsubscribe(s, a).wire = s.wire /\ Unsubscribe(s, a).cur = s.cur
<1> DEFINE k == [s EXCEPT !.subs = @ \ {a}]
<1>1. k \in Service /\ k.subs = s.subs \ {a}
  BY DEF Service
<1>2. /\ k.live = s.live /\ k.quit = s.quit /\ k.timer = s.timer /\ k.cur = s.cur
      /\ k.wire = s.wire /\ k.heard = s.heard
  BY DEF Service
<1>3. CASE IsOpen(s)
  <2>1. s.cur \in Wire
    BY <1>3 DEF IsOpen, Service
  <2>2. Unsubscribe(s, a) = [k EXCEPT !.heard[s.cur] = @ \ {a}]
    BY <1>3 DEF Unsubscribe
  <2>3. Unsubscribe(s, a) \in Service
    <3>1. [s.heard EXCEPT ![s.cur] = @ \ {a}] \in [Wire -> SUBSET Agent]
      BY <2>1 DEF Service
    <3>2. Unsubscribe(s, a) = [k EXCEPT !.heard = [s.heard EXCEPT ![s.cur] = @ \ {a}]]
      BY <1>1, <1>2, <2>2 DEF Service
    <3> HIDE DEF k
    <3> QED
      BY <1>1, <3>1, <3>2 DEF Service
  <2>4. /\ Unsubscribe(s, a).live = s.live /\ Unsubscribe(s, a).quit = s.quit
        /\ Unsubscribe(s, a).timer = s.timer /\ Unsubscribe(s, a).cur = s.cur
        /\ Unsubscribe(s, a).wire = s.wire /\ Unsubscribe(s, a).subs = s.subs \ {a}
        /\ Unsubscribe(s, a).heard[s.cur] = s.heard[s.cur] \ {a}
    BY <1>1, <1>2, <2>1, <2>2 DEF Service
  <2> QED
    BY <1>3, <2>3, <2>4 DEF Linked, IsOpen
<1>4. CASE ~IsOpen(s)
  <2>1. Unsubscribe(s, a) = k
    BY <1>4 DEF Unsubscribe
  <2> HIDE DEF k
  <2> QED
    BY <1>1, <1>2, <1>4, <2>1 DEF Linked, IsOpen
<1> QED
  BY <1>3, <1>4
LEMMA StartKeeps ==
  ASSUME NEW s \in Service, Linked(s), NEW a \in Agent, (s.live /\ IsOpen(s)) \/ Unused(s) # {}
  PROVE  /\ StartStreaming(s, a) \in Service /\ Linked(StartStreaming(s, a))
         /\ StartStreaming(s, a).live /\ a \in StartStreaming(s, a).subs
         /\ StartStreaming(s, a).cur = Connect(s).cur /\ StartStreaming(s, a).wire = Connect(s).wire
BY ConnectKeepsLink, SubscribeKeeps DEF StartStreaming

LEMMA StopKeeps ==
  ASSUME NEW s \in Service, Linked(s), NEW a \in Agent
  PROVE  /\ StopStreaming(s, a) \in Service /\ Linked(StopStreaming(s, a))
         /\ StopStreaming(s, a).live = s.live
         /\ StopStreaming(s, a).cur = s.cur /\ StopStreaming(s, a).wire = s.wire
BY UnsubscribeKeeps DEF StopStreaming

(* The mounted panel starts, stops and starts again: two free sockets are  *)
(* enough, whether or not the service had one that is open.                *)
LEMMA MountKeeps ==
  ASSUME NEW s \in Service, Linked(s), NEW a \in Agent, Cardinality(Unused(s)) >= 2
  PROVE  LET t == StartStreaming(StopStreaming(StartStreaming(s, a), a), a)
         IN t \in Service /\ Linked(t) /\ t.live /\ a \in t.subs
<1> DEFINE t1 == StartStreaming(s, a)
           t2 == StopStreaming(t1, a)
<1>1. Unused(s) # {} /\ ~\E w : Unused(s) = {w}
  <2>1. IsFiniteSet(Unused(s))
    BY StreamAssumption, FS_Subset DEF Unused
  <2> QED
    BY <2>1, FS_EmptySet, FS_Singleton
<1>2. /\ t1 \in Service /\ Linked(t1) /\ t1.live
      /\ t1.cur = Connect(s).cur /\ t1.wire = Connect(s).wire
  BY <1>1, StartKeeps
<1>3. /\ t2 \in Service /\ Linked(t2) /\ t2.live
      /\ t2.cur = Connect(s).cur /\ t2.wire = Connect(s).wire
  BY <1>2, StopKeeps
<1>4. (t2.live /\ IsOpen(t2)) \/ Unused(t2) # {}
  <2>1. CASE s.live /\ IsOpen(s)
    BY <1>1, <1>3, <2>1, ConnectKeepsLink DEF IsOpen
  <2>2. CASE ~(s.live /\ IsOpen(s))
    <3>1. PICK w \in Wire : Unused(Connect(s)) = Unused(s) \ {w}
      BY <1>1, <2>2, ConnectKeepsLink
    <3>2. Unused(t2) = Unused(s) \ {w}
      BY <1>3, <3>1 DEF Unused
    <3> QED
      BY <1>1, <3>2
  <2> QED
    BY <2>1, <2>2
<1>5. StartStreaming(t2, a) \in Service /\ Linked(StartStreaming(t2, a))
      /\ StartStreaming(t2, a).live /\ a \in StartStreaming(t2, a).subs
  <2> HIDE DEF t2
  <2> QED
    BY <1>3, <1>4, StartKeeps
<1> QED
  BY <1>5

LEMMA OpenedKeeps ==
  ASSUME NEW s \in Service, Linked(s), NEW w \in Wire, s.wire[w] = "connecting"
  PROVE  /\ Opened(s, w) \in Service /\ Linked(Opened(s, w))
         /\ Opened(s, w).live = s.live /\ Opened(s, w).subs = s.subs
<1> DEFINE k == [s EXCEPT !.wire[w] = "open"]
<1>1. k \in Service
  <2>1. [s.wire EXCEPT ![w] = "open"] \in [Wire -> {"unused", "connecting", "open", "closing"}]
    BY DEF Service
  <2> QED
    BY <2>1 DEF Service
<1>2. /\ k.live = s.live /\ k.quit = s.quit /\ k.timer = s.timer /\ k.cur = s.cur
      /\ k.subs = s.subs /\ k.heard = s.heard /\ k.wire = [s.wire EXCEPT ![w] = "open"]
  BY DEF Service
<1>3. s.wire \in [Wire -> {"unused", "connecting", "open", "closing"}] /\ s.cur \in Wire \cup {Nobody}
  BY DEF Service
<1>4. k.cur # Nobody => k.wire[k.cur] \in {"connecting", "open"}
  BY <1>2, <1>3 DEF Linked
<1>5. Opened(s, w) = IF IsOpen(k) THEN [k EXCEPT !.heard[k.cur] = @ \cup s.subs] ELSE k
  BY <1>2 DEF Opened, SendSubscribe
<1> HIDE DEF k
<1>6. CASE IsOpen(k)
  <2>1. k.cur \in Wire /\ k.heard \in [Wire -> SUBSET Agent] /\ s.subs \in SUBSET Agent
    BY <1>1, <1>6 DEF IsOpen, Service
  <2>2. Opened(s, w) = [k EXCEPT !.heard = [k.heard EXCEPT ![k.cur] = @ \cup s.subs]]
    BY <1>1, <1>5, <1>6 DEF Service
  <2>3. [k.heard EXCEPT ![k.cur] = @ \cup s.subs] \in [Wire -> SUBSET Agent]
    BY <2>1
  <2>4. Opened(s, w) \in Service
    BY <1>1, <2>2, <2>3 DEF Service
  <2>5. /\ Opened(s, w).live = s.live /\ Opened(s, w).quit = s.quit
        /\ Opened(s, w).timer = s.timer /\ Opened(s, w).cur = k.cur
        /\ Opened(s, w).wire = k.wire /\ Opened(s, w).subs = s.subs
        /\ Opened(s, w).heard = [k.heard EXCEPT ![k.cur] = @ \cup s.subs]
    BY <1>1, <1>2, <2>2 DEF Service
  <2>6. s.subs \subseteq Opened(s, w).heard[k.cur]
    BY <2>1, <2>5
  <2> QED
    BY <1>2, <1>4, <2>4, <2>5, <2>6 DEF Linked
<1>7. CASE ~IsOpen(k)
  BY <1>1, <1>2, <1>4, <1>5, <1>7 DEF Linked
<1> QED
  BY <1>6, <1>7

(* The close event of the current socket leaves a timer, unless the        *)
(* service is quiet; that of an older socket leaves the current one.       *)
LEMMA ClosedWireKeeps ==
  ASSUME NEW s \in Service, Linked(s), NEW w \in Wire
  PROVE  /\ ClosedWire(s, w) \in Service /\ Linked(ClosedWire(s, w))
         /\ ClosedWire(s, w).live = s.live /\ ClosedWire(s, w).subs = s.subs
<1> DEFINE k == ClosedWire(s, w)
           c == IF s.cur = w THEN Nobody ELSE s.cur
           b == s.timer \/ (~s.quit /\ s.live)
<1>1. /\ s.wire \in [Wire -> {"unused", "connecting", "open", "closing"}]
      /\ s.heard \in [Wire -> SUBSET Agent] /\ s.cur \in Wire \cup {Nobody}
  BY DEF Service
<1>2. k = [s EXCEPT !.wire = [s.wire EXCEPT ![w] = "unused"], !.heard = [s.heard EXCEPT ![w] = {}],
                    !.cur = c, !.timer = b]
  BY DEF ClosedWire, Service
<1>3. /\ [s.wire EXCEPT ![w] = "unused"] \in [Wire -> {"unused", "connecting", "open", "closing"}]
      /\ [s.heard EXCEPT ![w] = {}] \in [Wire -> SUBSET Agent]
      /\ c \in Wire \cup {Nobody} /\ b \in BOOLEAN
  BY <1>1
<1>4. k \in Service
  <2> HIDE DEF k, c, b
  <2> QED
    BY <1>2, <1>3 DEF Service
<1>5. /\ k.live = s.live /\ k.quit = s.quit /\ k.subs = s.subs /\ k.cur = c /\ k.timer = b
      /\ k.wire = [s.wire EXCEPT ![w] = "unused"] /\ k.heard = [s.heard EXCEPT ![w] = {}]
  <2> HIDE DEF k, c, b
  <2> QED
    BY <1>2 DEF Service
<1>6. c # Nobody => c = s.cur /\ k.wire[c] = s.wire[c] /\ k.heard[c] = s.heard[c]
  BY <1>1, <1>5
<1>7. Linked(k)
  <2> HIDE DEF k
  <2> QED
    BY <1>5, <1>6 DEF Linked, IsOpen
<1> QED
  BY <1>4, <1>5, <1>7

LEMMA ElapsedKeeps ==
  ASSUME NEW s \in Service, Linked(s), s.timer, Unused(s) # {}
  PROVE  /\ Elapsed(s) \in Service /\ Linked(Elapsed(s))
         /\ Elapsed(s).live = s.live /\ Elapsed(s).subs = s.subs
<1> DEFINE off == [s EXCEPT !.timer = FALSE]
<1>1. s.live /\ ~s.quit
  BY DEF Linked
<1>2. off \in Service /\ off.live /\ ~off.quit /\ off.subs = s.subs /\ off.wire = s.wire
  BY <1>1 DEF Service
<1>3. Unused(off) = Unused(s)
  BY <1>2 DEF Unused
<1>4. Elapsed(s) = OpenWire(off)
  BY <1>1 DEF Elapsed
<1> HIDE DEF off
<1> QED
  BY <1>1, <1>2, <1>3, <1>4, OpenWireKeeps
-----------------------------------------------------------------------------
(* The steps of the stream.                                                *)
LEMMA LoadCounts ==
  ASSUME NEW h \in [loads : 0 .. 2, loaded : BOOLEAN, poll : BOOLEAN], h.loads < 2
  PROVE  /\ Load(h) \in [loads : 0 .. 2, loaded : BOOLEAN, poll : BOOLEAN]
         /\ ~h.loaded => Load(h).loads = h.loads + 1 /\ ~Load(h).loaded
<1>1. h.loads + 1 \in 0 .. 2
  OBVIOUS
<1>2. CASE h.loaded
  BY <1>2 DEF Load
<1>3. CASE ~h.loaded
  <2>1. Load(h) = [h EXCEPT !.loads = h.loads + 1]
    BY <1>3 DEF Load
  <2> DEFINE n == h.loads + 1
  <2> HIDE DEF n
  <2>2. Load(h) = [h EXCEPT !.loads = n] /\ n \in 0 .. 2
    BY <1>1, <2>1 DEF n
  <2>3. Load(h) \in [loads : 0 .. 2, loaded : BOOLEAN, poll : BOOLEAN] /\ Load(h).loads = n /\ ~Load(h).loaded
    BY <1>3, <2>2
  <2> QED
    BY <2>3 DEF n
<1> QED
  BY <1>2, <1>3

LEMMA StreamStep ==
  ASSUME StreamIInv, [StreamNext]_streamVars
  PROVE  StreamIInv'
<1> DEFINE Hist == [loads : 0 .. 2, loaded : BOOLEAN, poll : BOOLEAN]
<1>1. /\ st \in Service /\ Linked(st) /\ panel \in Agent \cup {Nobody, Log} /\ hist \in Hist
      /\ watched \in Nat /\ cuts \in Nat /\ LogKeepsPolling
      /\ panel \in Agent => st.live /\ panel \in st.subs
  BY DEF StreamIInv, StreamTypeOK, StreamInv
<1>2. /\ Log \notin Agent /\ Nobody \notin Agent /\ Log # Nobody
  BY StreamAssumption
<1>3. SUFFICES /\ st' \in Service /\ Linked(st') /\ panel' \in Agent \cup {Nobody, Log} /\ hist' \in Hist
               /\ watched' \in Nat /\ cuts' \in Nat
               /\ panel' \in Agent => st'.live /\ panel' \in st'.subs
               /\ panel' = Log => hist'.poll \/ hist'.loads > 0
  BY DEF StreamIInv, StreamTypeOK, StreamInv, LogKeepsPolling, Linked, IsOpen
<1>4. CASE UNCHANGED streamVars
  BY <1>1, <1>4 DEF streamVars, LogKeepsPolling
<1>5. ASSUME NEW a \in Agent, Retarget(a)
      PROVE  st' \in Service /\ Linked(st') /\ panel' = a /\ hist' \in Hist
             /\ watched' \in Nat /\ cuts' \in Nat /\ st'.live /\ a \in st'.subs
  <2>1. /\ st' = StartStreaming(StopStreaming(st, a), a) /\ panel' = a /\ Unused(st) # {}
        /\ hist.loads < 2 /\ hist' = Load(hist) /\ watched' = watched + 1 /\ cuts' = cuts
    BY <1>5 DEF Retarget, Watch
  <2>2. Unused(StopStreaming(st, a)) # {}
    BY <1>1, <2>1, StopKeeps DEF Unused
  <2>3. st' \in Service /\ Linked(st') /\ st'.live /\ a \in st'.subs
    BY <1>1, <2>1, <2>2, StopKeeps, StartKeeps
  <2>4. hist' \in Hist
    BY <1>1, <2>1, LoadCounts
  <2> QED
    BY <1>1, <2>1, <2>3, <2>4
<1>6. ASSUME NEW a \in Agent \cup {Log}, Mount(a)
      PROVE  st' \in Service /\ Linked(st') /\ panel' = a /\ hist' \in Hist /\ hist'.loads > 0
             /\ watched' \in Nat /\ cuts' \in Nat /\ (a \in Agent => st'.live /\ a \in st'.subs)
  <2>1. /\ panel' = a /\ hist' = Load(Load(Fresh)) /\ watched' = watched + 1 /\ cuts' = cuts
        /\ Cardinality(Unused(st)) >= 2
    BY <1>6 DEF Mount, Watch
  <2>2. hist' \in Hist /\ hist'.loads > 0
    <3>1. Fresh \in Hist /\ ~Fresh.loaded /\ Fresh.loads = 0
      BY DEF Fresh
    <3>2. Load(Fresh) \in Hist /\ ~Load(Fresh).loaded /\ Load(Fresh).loads = 1
      BY <3>1, LoadCounts
    <3>3. Load(Load(Fresh)) \in Hist /\ Load(Load(Fresh)).loads = 2
      BY <3>2, LoadCounts
    <3> QED
      BY <2>1, <3>3
  <2>3. CASE a \in Agent
    BY <1>1, <1>6, <2>1, <2>2, <2>3, MountKeeps DEF Mount
  <2>4. CASE a = Log
    BY <1>1, <1>2, <1>6, <2>1, <2>2, <2>4 DEF Mount
  <2> QED
    BY <2>3, <2>4
<1>7. CASE Unmount
  BY <1>1, <1>2, <1>7, StopKeeps DEF Unmount, Watch, Fresh
<1>8. CASE LeaveStream
  BY <1>1, <1>2, <1>8, StopKeeps, DisconnectKeeps DEF LeaveStream, Watch, Fresh
<1>9. CASE Fire
  BY <1>1, <1>9, ElapsedKeeps DEF Fire, LogKeepsPolling
<1>10. ASSUME NEW w \in Wire, WireStep(w) \/ Cut(w)
       PROVE  st' \in Service /\ Linked(st') /\ st'.live = st.live /\ st'.subs = st.subs
              /\ panel' = panel /\ hist' = hist /\ watched' = watched /\ cuts' \in Nat
  BY <1>1, <1>10, OpenedKeeps, ClosedWireKeeps DEF WireStep, StreamOpens, StreamCloses, Cut
<1>11. CASE LoadEnds
  <2>1. /\ hist.loads > 0 /\ hist' = [hist EXCEPT !.loads = @ - 1, !.loaded = TRUE, !.poll = @ \/ panel \notin Agent]
        /\ UNCHANGED <<st, panel, watched, cuts>>
    BY <1>11 DEF LoadEnds, Loaded
  <2>2. hist' \in Hist
    <3>1. hist.loads - 1 \in 0 .. 2 /\ (hist.poll \/ panel \notin Agent) \in BOOLEAN
      BY <1>1, <2>1
    <3>2. hist' = [loads |-> hist.loads - 1, loaded |-> TRUE, poll |-> hist.poll \/ panel \notin Agent]
      BY <1>1, <2>1
    <3> QED
      BY <3>1, <3>2
  <2>3. panel = Log => hist'.poll
    BY <1>1, <1>2, <2>1
  <2> QED
    BY <1>1, <2>1, <2>2, <2>3
<1>12. CASE PollLog
  BY <1>1, <1>12 DEF PollLog
<1> HIDE DEF Hist
<1> QED
  BY <1>1, <1>2, <1>4, <1>5, <1>6, <1>7, <1>8, <1>9, <1>10, <1>11, <1>12 DEF StreamNext, LogKeepsPolling

(* The types of the service, the panel and its history.                    *)
THEOREM StreamTyped == StreamSpec => []StreamTypeOK
<1>1. StreamInit => StreamIInv
  BY StreamAssumption DEF StreamInit, StreamIInv, StreamTypeOK, Service, Fresh, StreamInv, Linked, IsOpen,
     LogKeepsPolling
<1>2. StreamIInv => StreamTypeOK
  BY DEF StreamIInv
<1> QED
  BY <1>1, <1>2, StreamStep, PTL DEF StreamSpec

(* At rest the current socket of the service is open and hears the agent   *)
(* of the mounted panel, no late close event revives a connection that was *)
(* given up, and the panel of a workspace goes on asking for its log:      *)
(* whatever agent-stream.ts went through before.                           *)
THEOREM StreamFollows == StreamSpec => []StreamFollowsPanel
<1>1. StreamInit => StreamIInv
  BY StreamAssumption DEF StreamInit, StreamIInv, StreamTypeOK, Service, Fresh, StreamInv, Linked, IsOpen,
     LogKeepsPolling
<1>2. StreamIInv => StreamFollowsPanel
  <2> SUFFICES ASSUME StreamIInv PROVE StreamFollowsPanel
    OBVIOUS
  <2>1. Linked(st) /\ st \in Service
    BY DEF StreamIInv, StreamInv, StreamTypeOK
  <2>2. QuietAfterDisconnect /\ LogKeepsPolling
    BY <2>1 DEF StreamIInv, StreamInv, Linked, QuietAfterDisconnect
  <2>3. ASSUME panel \in Agent, ~st.timer, \A w \in Wire : st.wire[w] \in {"unused", "open"}
        PROVE  st.cur \in Deliveries(panel)
    <3>1. st.live /\ panel \in st.subs /\ st.cur # Nobody
      BY <2>1, <2>3 DEF StreamIInv, StreamInv, Linked
    <3>2. st.cur \in Wire /\ st.wire[st.cur] = "open"
      BY <2>1, <2>3, <3>1 DEF Service, Linked
    <3>3. panel \in st.heard[st.cur]
      BY <2>1, <3>1, <3>2 DEF Linked, IsOpen
    <3> QED
      BY <3>2, <3>3 DEF Deliveries
  <2> QED
    BY <2>2, <2>3 DEF StreamFollowsPanel, StreamFed
<1> QED
  BY <1>1, <1>2, StreamStep, PTL DEF StreamSpec

-----------------------------------------------------------------------------
(* What makes the dashboards' property inductive: a socket in use is that  *)
(* of its project's connection and the other way round; whoever has a      *)
(* socket or a timer is listened to; and what a dashboard waits for is, as *)
(* what it shows, of the project and the period it has selected.           *)
Net == [conn : [Project -> Connection], lines : [Line -> LineState]]

Owned(s) ==
  /\ \A l \in Line : s.lines[l].state \in {"connecting", "open"} => s.conn[s.lines[l].of].ws = l
  /\ \A p \in Project : s.conn[p].ws # NoLine =>
       s.lines[s.conn[p].ws].state \in {"connecting", "open"} /\ s.lines[s.conn[p].ws].of = p

Active(s, p) == s.conn[p].ws # NoLine \/ s.conn[p].timers > 0

Answers(w, r) ==
  w.of # NoLine /\ r # NoLine => r.of = w.of /\ r.period = w.period /\ (w.told => r.fresh)

ProjectInv ==
  /\ Owned(Current)
  /\ \A p \in Project : Active(Current, p) => Listeners(p) # {}
  /\ \A p \in Project : conn[p].timers <= breaks
  /\ breaks <= MaxBreaks
  /\ \A v \in Viewer : Answers(view[v], view[v].latest) /\ Answers(view[v], view[v].shown)

ProjectIInv == ProjectTypeOK /\ ProjectInv

-----------------------------------------------------------------------------
(* The operations of project-ws.ts, on any state of its connections.       *)
LEMMA OpenLineKeeps ==
  ASSUME NEW s \in Net, Owned(s), NEW p \in Project, s.conn[p].ws # NoLine \/ Idle(s) # {}
  PROVE  LET t == OpenLine(s, p)
         IN /\ t \in Net /\ Owned(t)
            /\ \A q \in Project : t.conn[q].timers = s.conn[q].timers
            /\ \A q \in Project \ {p} : t.conn[q] = s.conn[q]
            /\ s.conn[p].ws # NoLine => t = s
            /\ \E l \in Line : Idle(s) \ {l} \subseteq Idle(t)
<1> DEFINE t == OpenLine(s, p)
<1>1. CASE s.conn[p].ws # NoLine
  <2>1. t = s
    BY <1>1 DEF OpenLine
  <2>2. s.conn[p].ws \in Line
    BY <1>1 DEF Net, Connection
  <2> HIDE DEF t
  <2> QED
    BY <2>1, <2>2 DEF t
<1>2. CASE s.conn[p].ws = NoLine
  <2>1. PICK l \in Idle(s) : l = CHOOSE x \in Idle(s) : TRUE
    BY <1>2
  <2>2. /\ l \in Line /\ l # NoLine /\ s.lines[l].state = "unused"
        /\ s.conn \in [Project -> Connection] /\ s.lines \in [Line -> LineState]
    BY ProjectAssumption DEF Idle, Net
  <2> DEFINE c == [ws |-> l, timers |-> s.conn[p].timers]
             n == [state |-> "connecting", of |-> p, subscribed |-> FALSE]
  <2>3. t = [conn |-> [s.conn EXCEPT ![p] = c], lines |-> [s.lines EXCEPT ![l] = n]]
    <3>1. t = [s EXCEPT !.conn[p].ws = l, !.lines[l] = n]
      BY <1>2, <2>1 DEF OpenLine
    <3>2. [s.conn[p] EXCEPT !.ws = l] = c
      BY <2>2 DEF Connection
    <3> HIDE DEF n, c, t
    <3> QED
      BY <3>1, <3>2 DEF Net
  <2>4. c \in Connection /\ n \in LineState
    BY <2>2 DEF Connection, LineState
  <2>5. /\ t.conn = [s.conn EXCEPT ![p] = c] /\ t.lines = [s.lines EXCEPT ![l] = n]
        /\ t \in Net
    <3> HIDE DEF c, n
    <3> QED
      BY <2>2, <2>3, <2>4 DEF Net
  <2>6. /\ t.conn[p] = c /\ t.lines[l] = n
        /\ \A q \in Project \ {p} : t.conn[q] = s.conn[q]
        /\ \A k \in Line \ {l} : t.lines[k] = s.lines[k]
    <3> HIDE DEF c, n, t
    <3> QED
      BY <2>2, <2>5
  <2>7. ASSUME NEW k \in Line, t.lines[k].state \in {"connecting", "open"}
        PROVE  t.conn[t.lines[k].of].ws = k
    <3>1. CASE k = l
      BY <2>6, <3>1
    <3>2. CASE k # l
      <4>1. t.lines[k] = s.lines[k] /\ s.lines[k].of \in Project
        BY <2>2, <2>6, <3>2 DEF LineState
      <4>2. s.conn[s.lines[k].of].ws = k
        BY <2>7, <4>1 DEF Owned
      <4>3. s.lines[k].of # p
        BY <1>2, <4>2, ProjectAssumption
      <4> HIDE DEF t
      <4> QED
        BY <2>6, <4>1, <4>2, <4>3
    <3> QED
      BY <3>1, <3>2
  <2>8. ASSUME NEW q \in Project, t.conn[q].ws # NoLine
        PROVE  t.lines[t.conn[q].ws].state \in {"connecting", "open"} /\ t.lines[t.conn[q].ws].of = q
    <3>1. CASE q = p
      BY <2>6, <3>1
    <3>2. CASE q # p
      <4>1. t.conn[q] = s.conn[q] /\ s.conn[q].ws \in Line
        BY <2>2, <2>6, <2>8, <3>2 DEF Connection
      <4>2. s.lines[s.conn[q].ws].state \in {"connecting", "open"} /\ s.lines[s.conn[q].ws].of = q
        BY <2>8, <4>1 DEF Owned
      <4>3. s.conn[q].ws # l
        BY <2>2, <4>2
      <4> HIDE DEF t
      <4> QED
        BY <2>6, <4>1, <4>2, <4>3
    <3> QED
      BY <3>1, <3>2
  <2>9. Owned(t)
    BY <2>7, <2>8 DEF Owned
  <2>10. \A q \in Project : t.conn[q].timers = s.conn[q].timers
    BY <2>6
  <2>11. Idle(s) \ {l} \subseteq Idle(t)
    BY <2>6 DEF Idle
  <2> HIDE DEF t
  <2> QED
    BY <1>2, <2>2, <2>5, <2>6, <2>9, <2>10, <2>11 DEF t
<1> QED
  BY <1>1, <1>2

LEMMA TeardownKeeps ==
  ASSUME NEW s \in Net, Owned(s), NEW p \in Project
  PROVE  LET t == Teardown(s, p)
         IN /\ t \in Net /\ Owned(t)
            /\ ~Active(t, p) /\ t.conn[p] = [ws |-> NoLine, timers |-> 0]
            /\ \A q \in Project \ {p} : t.conn[q] = s.conn[q]
            /\ Idle(s) \subseteq Idle(t)
<1> DEFINE t == Teardown(s, p)
           c == [ws |-> NoLine, timers |-> 0]
           L == [l \in Line |-> IF l = s.conn[p].ws THEN [s.lines[l] EXCEPT !.state = "closing"]
                               ELSE s.lines[l]]
<1>1. s.conn \in [Project -> Connection] /\ s.lines \in [Line -> LineState]
  BY DEF Net
<1>2. t = [s EXCEPT !.conn = [s.conn EXCEPT ![p] = c], !.lines = L]
  BY DEF Teardown, Net
<1>3. c \in Connection
  BY ProjectAssumption DEF Connection
<1>4. L \in [Line -> LineState]
  BY <1>1 DEF LineState
<1>5. /\ t \in Net /\ t.conn = [s.conn EXCEPT ![p] = c] /\ t.lines = L
  <2> HIDE DEF c, L, t
  <2> QED
    BY <1>1, <1>2, <1>3, <1>4 DEF Net
<1>6. /\ t.conn[p] = c
      /\ \A q \in Project \ {p} : t.conn[q] = s.conn[q]
  <2> HIDE DEF c, L, t
  <2> QED
    BY <1>1, <1>5
<1>7. /\ \A l \in Line : l # s.conn[p].ws => t.lines[l] = s.lines[l]
      /\ \A l \in Line : l = s.conn[p].ws => t.lines[l].state = "closing"
  <2>1. \A l \in Line : t.lines[l] = L[l]
    BY <1>5
  <2> HIDE DEF t
  <2> QED
    BY <1>1, <2>1 DEF LineState
<1> HIDE DEF t, L
<1>8. ASSUME NEW k \in Line, t.lines[k].state \in {"connecting", "open"}
      PROVE  t.conn[t.lines[k].of].ws = k
  <2>1. k # s.conn[p].ws /\ t.lines[k] = s.lines[k] /\ s.lines[k].of \in Project
    BY <1>1, <1>7, <1>8 DEF LineState
  <2>2. s.conn[s.lines[k].of].ws = k
    BY <1>8, <2>1 DEF Owned
  <2> QED
    BY <1>6, <2>1, <2>2
<1>9. ASSUME NEW q \in Project, t.conn[q].ws # NoLine
      PROVE  t.lines[t.conn[q].ws].state \in {"connecting", "open"} /\ t.lines[t.conn[q].ws].of = q
  <2>1. q # p /\ t.conn[q] = s.conn[q] /\ s.conn[q].ws \in Line
    BY <1>1, <1>6, <1>9 DEF Connection
  <2>2. s.lines[s.conn[q].ws].state \in {"connecting", "open"} /\ s.lines[s.conn[q].ws].of = q
    BY <1>9, <2>1 DEF Owned
  <2>3. s.conn[q].ws # s.conn[p].ws
    BY <2>1, <2>2, ProjectAssumption DEF Owned
  <2> QED
    BY <1>7, <2>1, <2>2, <2>3
<1>10. Idle(s) \subseteq Idle(t)
  <2> SUFFICES ASSUME NEW l \in Idle(s) PROVE l \in Idle(t)
    OBVIOUS
  <2>1. l \in Line /\ s.lines[l].state = "unused"
    BY DEF Idle
  <2>2. l # s.conn[p].ws
    BY <2>1, ProjectAssumption DEF Owned
  <2> QED
    BY <1>7, <2>1, <2>2 DEF Idle
<1> QED
  BY <1>5, <1>6, <1>8, <1>9, <1>10 DEF Owned, Active, t

(* A dashboard that goes takes the connection with it if it was the last.  *)
LEMMA UnsubscribedKeeps ==
  ASSUME ProjectIInv, NEW v \in Viewer
  PROVE  LET t == Unsubscribed(Current, v)
         IN /\ t \in Net /\ Owned(t) /\ Idle(Current) \subseteq Idle(t)
            /\ \A q \in Project : t.conn[q].timers <= conn[q].timers
            /\ \A q \in Project : Active(t, q) => Listeners(q) \ {v} # {}
<1>1. /\ Current \in Net /\ Current.conn = conn /\ Current.lines = lines /\ Owned(Current)
      /\ conn \in [Project -> Connection] /\ view \in [Viewer -> Dashboard]
  BY DEF ProjectIInv, ProjectTypeOK, ProjectInv, Current, Net
<1>2. view[v].of \in Project \cup {NoLine} /\ \A q \in Project : conn[q].timers \in Nat
  BY <1>1, ProjectAssumption DEF Dashboard, Connection
<1>3. ASSUME NEW q \in Project, Active(Current, q), ~(view[v].of = q /\ Listeners(q) = {v})
      PROVE  Listeners(q) \ {v} # {}
  <2>1. Listeners(q) # {}
    BY <1>3 DEF ProjectIInv, ProjectInv
  <2>2. CASE v \in Listeners(q)
    BY <1>3, <2>2 DEF Listeners
  <2>3. CASE v \notin Listeners(q)
    BY <2>1, <2>3
  <2> QED
    BY <2>2, <2>3
<1>4. CASE view[v].of # NoLine /\ Listeners(view[v].of) = {v}
  <2> DEFINE p == view[v].of
             t == Teardown(Current, p)
  <2>1. p \in Project /\ Unsubscribed(Current, v) = t
    BY <1>2, <1>4 DEF Unsubscribed
  <2>2. /\ t \in Net /\ Owned(t) /\ ~Active(t, p) /\ t.conn[p] = [ws |-> NoLine, timers |-> 0]
        /\ \A q \in Project \ {p} : t.conn[q] = conn[q]
        /\ Idle(Current) \subseteq Idle(t)
    BY <1>1, <2>1, TeardownKeeps
  <2> HIDE DEF t
  <2>3. ASSUME NEW q \in Project
        PROVE  /\ t.conn[q].timers <= conn[q].timers
               /\ Active(t, q) => Listeners(q) \ {v} # {}
    <3>1. CASE q = p
      BY <1>2, <2>2, <3>1
    <3>2. CASE q # p
      <4>1. t.conn[q] = conn[q] /\ (Active(t, q) <=> Active(Current, q))
        BY <1>1, <2>2, <3>2 DEF Active
      <4> QED
        BY <1>2, <1>3, <3>2, <4>1
    <3> QED
      BY <3>1, <3>2
  <2> QED
    BY <2>1, <2>2, <2>3
<1>5. CASE ~(view[v].of # NoLine /\ Listeners(view[v].of) = {v})
  <2>1. Unsubscribed(Current, v) = Current
    BY <1>5 DEF Unsubscribed
  <2>2. \A q \in Project : ~(view[v].of = q /\ Listeners(q) = {v})
    BY <1>5, ProjectAssumption
  <2> QED
    BY <1>1, <1>2, <1>3, <2>1, <2>2
<1> QED
  BY <1>4, <1>5

(* _load asks for what is selected.                                        *)
LEMMA AsksTyped ==
  ASSUME NEW w \in Dashboard, w.of # NoLine
  PROVE  /\ Asks(w) \in Dashboard /\ Asks(w).of = w.of
         /\ Answers(Asks(w), Asks(w).latest) /\ Answers(Asks(w), Asks(w).shown)
<1> DEFINE r == [of |-> w.of, period |-> w.period, fresh |-> TRUE]
<1>1. r \in Request
  BY DEF Dashboard, Request
<1>2. Asks(w) = [w EXCEPT !.spinner = TRUE, !.told = TRUE, !.shown = NoLine,
                          !.older = @ \/ w.latest # NoLine, !.latest = r]
  BY DEF Asks
<1>3. r.of = w.of /\ r.period = w.period /\ r.fresh
  OBVIOUS
<1> HIDE DEF r
<1>4. /\ Asks(w) \in Dashboard /\ Asks(w).of = w.of /\ Asks(w).period = w.period
      /\ Asks(w).latest = r /\ Asks(w).shown = NoLine
  BY <1>1, <1>2 DEF Dashboard
<1> QED
  BY <1>3, <1>4 DEF Answers

LEMMA AwayTyped == Away \in Dashboard /\ Away.of = NoLine
BY ProjectAssumption DEF Away, Dashboard

(* The step of a user keeps the invariant if the connections it leaves are *)
(* owned and listened to, and every dashboard keeps its answers.           *)
LEMMA NetworkKept ==
  ASSUME ProjectIInv, NEW t \in Net, Owned(t), Becomes(t),
         \A q \in Project : t.conn[q].timers <= conn[q].timers,
         \A q \in Project : Active(t, q) => Listeners(q)' # {},
         view' \in [Viewer -> Dashboard],
         \A v \in Viewer : Answers(view'[v], view'[v].latest) /\ Answers(view'[v], view'[v].shown),
         {views', runs'} \subseteq Nat, breaks' = breaks
  PROVE  ProjectIInv'
<1>1. /\ conn' \in [Project -> Connection] /\ lines' \in [Line -> LineState] /\ conn' = t.conn
      /\ conn \in [Project -> Connection] /\ breaks \in Nat
  BY DEF Becomes, Net, ProjectIInv, ProjectTypeOK
<1>2. Current' = t
  BY DEF Current, Becomes, Net
<1>3. ASSUME NEW p \in Project
      PROVE  conn'[p].timers <= breaks'
  <2>1. /\ conn'[p].timers \in Nat /\ conn[p].timers \in Nat
        /\ conn'[p].timers <= conn[p].timers /\ conn[p].timers <= breaks
    BY <1>1, ProjectAssumption DEF Connection, ProjectIInv, ProjectInv
  <2> QED
    BY <1>1, <2>1
<1>4. ProjectTypeOK'
  BY <1>1 DEF ProjectTypeOK
<1>5. Owned(Current)' /\ \A p \in Project : Active(Current, p)' => Listeners(p)' # {}
  BY <1>2 DEF Owned, Active
<1>6. ProjectInv'
  BY <1>3, <1>5 DEF ProjectInv, Answers, ProjectIInv
<1> QED
  BY <1>4, <1>6 DEF ProjectIInv

-----------------------------------------------------------------------------
(* The steps of the dashboards and their sockets.                          *)
LEMMA ViewStep ==
  ASSUME ProjectIInv, NEW v \in Viewer, NEW w \in Dashboard, view' = [view EXCEPT ![v] = w],
         Answers(w, w.latest), Answers(w, w.shown)
  PROVE  /\ view' \in [Viewer -> Dashboard]
         /\ \A u \in Viewer : Answers(view'[u], view'[u].latest) /\ Answers(view'[u], view'[u].shown)
         /\ \A q \in Project : (Listeners(q) \ {v}) \cup (IF w.of = q THEN {v} ELSE {}) = Listeners(q)'
<1>1. view \in [Viewer -> Dashboard]
  BY DEF ProjectIInv, ProjectTypeOK
<1>2. \A u \in Viewer : view'[u] = IF u = v THEN w ELSE view[u]
  BY <1>1
<1>3. \A u \in Viewer : Answers(view[u], view[u].latest) /\ Answers(view[u], view[u].shown)
  BY DEF ProjectIInv, ProjectInv
<1> QED
  BY <1>1, <1>2, <1>3 DEF Listeners

LEMMA MountStep ==
  ASSUME ProjectIInv, NEW v \in Viewer, NEW p \in Project, MountMetrics(v, p)
  PROVE  ProjectIInv'
<1> DEFINE w == Asks([Away EXCEPT !.of = p])
<1>1. /\ view[v].of = NoLine /\ view' = [view EXCEPT ![v] = w] /\ views' = views + 1
      /\ breaks' = breaks /\ runs' = runs
      /\ Listeners(p) # {} \/ Cardinality(Idle(Current)) >= 2
      /\ Becomes(IF Listeners(p) = {} THEN OpenLine(Teardown(OpenLine(Current, p), p), p)
                  ELSE IF Idle(Current) = {} THEN Current ELSE OpenLine(Current, p))
  BY DEF MountMetrics, Act
<1>2. /\ Current \in Net /\ Current.conn = conn /\ Owned(Current) /\ conn \in [Project -> Connection]
      /\ views \in Nat /\ breaks \in Nat /\ runs \in Nat
      /\ \A q \in Project : Active(Current, q) => Listeners(q) # {}
  BY DEF ProjectIInv, ProjectTypeOK, ProjectInv, Current, Net
<1>3. w \in Dashboard /\ w.of = p /\ Answers(w, w.latest) /\ Answers(w, w.shown)
  <2> DEFINE a == [Away EXCEPT !.of = p]
  <2>1. a \in Dashboard /\ a.of = p
    BY AwayTyped DEF Dashboard
  <2>2. a.of # NoLine
    BY <2>1, ProjectAssumption
  <2> HIDE DEF a
  <2> QED
    BY <2>1, <2>2, AsksTyped DEF a
<1> HIDE DEF w
<1>4. /\ view' \in [Viewer -> Dashboard]
      /\ \A u \in Viewer : Answers(view'[u], view'[u].latest) /\ Answers(view'[u], view'[u].shown)
      /\ \A q \in Project : (Listeners(q) \ {v}) \cup (IF w.of = q THEN {v} ELSE {}) = Listeners(q)'
  BY <1>1, <1>3, ViewStep
<1>5. Listeners(p)' # {} /\ \A q \in Project : Listeners(q) \subseteq Listeners(q)'
  BY <1>1, <1>3, <1>4, ProjectAssumption DEF Listeners
<1>6. ASSUME NEW t \in Net, Owned(t), Becomes(t), \A q \in Project : t.conn[q].timers <= conn[q].timers,
             \A q \in Project \ {p} : t.conn[q] = conn[q]
      PROVE  ProjectIInv'
  <2>1. ASSUME NEW q \in Project, Active(t, q)
        PROVE  Listeners(q)' # {}
    <3>1. CASE q = p
      BY <1>5, <3>1
    <3>2. CASE q # p
      BY <1>2, <1>5, <1>6, <2>1, <3>2 DEF Active
    <3> QED
      BY <3>1, <3>2
  <2>2. {views', runs'} \subseteq Nat
    BY <1>1, <1>2
  <2> QED
    BY <1>1, <1>4, <1>6, <2>1, <2>2, NetworkKept
<1>7. \A q \in Project : conn[q].timers \in Nat
  BY <1>2, ProjectAssumption DEF Connection
<1>8. CASE Listeners(p) = {}
  <2> DEFINE t1 == OpenLine(Current, p)
             t2 == Teardown(t1, p)
             t3 == OpenLine(t2, p)
  <2>1. Idle(Current) # {} /\ ~\E l : Idle(Current) = {l}
    <3>1. IsFiniteSet(Idle(Current))
      BY ProjectAssumption, FS_Subset DEF Idle
    <3> QED
      BY <1>1, <1>8, <3>1, FS_EmptySet, FS_Singleton
  <2>2. /\ t1 \in Net /\ Owned(t1) /\ \A q \in Project : t1.conn[q].timers = conn[q].timers
        /\ \A q \in Project \ {p} : t1.conn[q] = conn[q]
        /\ \E l \in Line : Idle(Current) \ {l} \subseteq Idle(t1)
    BY <1>2, <2>1, OpenLineKeeps
  <2>3. Idle(t1) # {}
    BY <2>1, <2>2
  <2> HIDE DEF t1
  <2>4. /\ t2 \in Net /\ Owned(t2) /\ t2.conn[p].timers = 0
        /\ \A q \in Project \ {p} : t2.conn[q] = conn[q]
        /\ Idle(t2) # {}
    BY <2>2, <2>3, TeardownKeeps
  <2> HIDE DEF t2
  <2>5. /\ t3 \in Net /\ Owned(t3) /\ t3.conn[p].timers = 0
        /\ \A q \in Project \ {p} : t3.conn[q] = conn[q]
    BY <2>4, OpenLineKeeps
  <2>6. Becomes(t3)
    BY <1>1, <1>8 DEF t2, t1
  <2> HIDE DEF t3
  <2>7. \A q \in Project : t3.conn[q].timers <= conn[q].timers
    <3>1. ASSUME NEW q \in Project
          PROVE  t3.conn[q].timers <= conn[q].timers
      <4>1. CASE q = p
        BY <1>7, <2>5, <4>1
      <4>2. CASE q # p
        BY <1>7, <2>5, <4>2
      <4> QED
        BY <4>1, <4>2
    <3> QED
      BY <3>1
  <2> QED
    BY <1>6, <2>5, <2>6, <2>7
<1>9. CASE Listeners(p) # {} /\ Idle(Current) = {}
  <2>1. Becomes(Current)
    BY <1>1, <1>9
  <2> QED
    BY <1>2, <1>6, <1>7, <2>1
<1>10. CASE Listeners(p) # {} /\ Idle(Current) # {}
  <2>1. Becomes(OpenLine(Current, p))
    BY <1>1, <1>10
  <2>2. /\ OpenLine(Current, p) \in Net /\ Owned(OpenLine(Current, p))
        /\ \A q \in Project : OpenLine(Current, p).conn[q].timers = conn[q].timers
        /\ \A q \in Project \ {p} : OpenLine(Current, p).conn[q] = conn[q]
    BY <1>2, <1>10, OpenLineKeeps
  <2> QED
    BY <1>6, <1>7, <2>1, <2>2
<1> QED
  BY <1>8, <1>9, <1>10

LEMMA ShowStep ==
  ASSUME ProjectIInv, NEW v \in Viewer, NEW p \in Project, ShowProject(v, p)
  PROVE  ProjectIInv'
<1> DEFINE w == Asks([view[v] EXCEPT !.of = p])
           t1 == Unsubscribed(Current, v)
           t == OpenLine(t1, p)
<1>1. /\ view' = [view EXCEPT ![v] = w] /\ views' = views + 1
      /\ breaks' = breaks /\ runs' = runs /\ Idle(Current) # {} /\ Becomes(t)
      /\ view \in [Viewer -> Dashboard] /\ views \in Nat /\ runs \in Nat
  BY DEF ShowProject, Act, ProjectIInv, ProjectTypeOK
<1>2. w \in Dashboard /\ w.of = p /\ Answers(w, w.latest) /\ Answers(w, w.shown)
  <2> DEFINE a == [view[v] EXCEPT !.of = p]
  <2>1. a \in Dashboard /\ a.of = p
    BY <1>1 DEF Dashboard
  <2>2. a.of # NoLine
    BY <2>1, ProjectAssumption
  <2> HIDE DEF a
  <2> QED
    BY <2>1, <2>2, AsksTyped DEF a
<1> HIDE DEF w
<1>3. /\ view' \in [Viewer -> Dashboard]
      /\ \A u \in Viewer : Answers(view'[u], view'[u].latest) /\ Answers(view'[u], view'[u].shown)
      /\ \A q \in Project : (Listeners(q) \ {v}) \cup (IF w.of = q THEN {v} ELSE {}) = Listeners(q)'
  BY <1>1, <1>2, ViewStep
<1>4. /\ t1 \in Net /\ Owned(t1) /\ Idle(t1) # {}
      /\ \A q \in Project : t1.conn[q].timers <= conn[q].timers
      /\ \A q \in Project : Active(t1, q) => Listeners(q) \ {v} # {}
  BY <1>1, UnsubscribedKeeps
<1> HIDE DEF t1
<1>5. /\ t \in Net /\ Owned(t) /\ \A q \in Project : t.conn[q].timers <= conn[q].timers
      /\ \A q \in Project \ {p} : t.conn[q] = t1.conn[q]
  BY <1>4, OpenLineKeeps
<1> HIDE DEF t
<1>6. ASSUME NEW q \in Project, Active(t, q)
      PROVE  Listeners(q)' # {}
  <2>1. CASE q = p
    BY <1>2, <1>3, <2>1
  <2>2. CASE q # p
    BY <1>3, <1>4, <1>5, <1>6, <2>2 DEF Active
  <2> QED
    BY <2>1, <2>2
<1>7. {views', runs'} \subseteq Nat
  BY <1>1
<1> QED
  BY <1>1, <1>3, <1>5, <1>6, <1>7, NetworkKept

LEMMA UnmountStep ==
  ASSUME ProjectIInv, NEW v \in Viewer, UnmountMetrics(v)
  PROVE  ProjectIInv'
<1> DEFINE t == Unsubscribed(Current, v)
<1>1. /\ view' = [view EXCEPT ![v] = Away] /\ views' = views + 1
      /\ breaks' = breaks /\ runs' = runs /\ Becomes(t)
      /\ views \in Nat /\ runs \in Nat
  BY DEF UnmountMetrics, Act, ProjectIInv, ProjectTypeOK
<1>2. Away \in Dashboard /\ Answers(Away, Away.latest) /\ Answers(Away, Away.shown)
  BY AwayTyped DEF Answers
<1>3. /\ view' \in [Viewer -> Dashboard]
      /\ \A u \in Viewer : Answers(view'[u], view'[u].latest) /\ Answers(view'[u], view'[u].shown)
      /\ \A q \in Project : Listeners(q) \ {v} \subseteq Listeners(q)'
  BY <1>1, <1>2, ViewStep
<1>4. /\ t \in Net /\ Owned(t) /\ \A q \in Project : t.conn[q].timers <= conn[q].timers
      /\ \A q \in Project : Active(t, q) => Listeners(q) \ {v} # {}
  BY UnsubscribedKeeps
<1> HIDE DEF t
<1>5. \A q \in Project : Active(t, q) => Listeners(q)' # {}
  BY <1>3, <1>4
<1>6. {views', runs'} \subseteq Nat
  BY <1>1
<1> QED
  BY <1>1, <1>3, <1>4, <1>5, <1>6, NetworkKept

(* Steps that leave the sockets alone, and dashboards where they are.      *)
LEMMA OnlyViews ==
  ASSUME ProjectIInv, UNCHANGED <<conn, lines, breaks>>, {views', runs'} \subseteq Nat,
         view' \in [Viewer -> Dashboard],
         \A v \in Viewer : /\ view'[v].of = view[v].of
                           /\ Answers(view'[v], view'[v].latest) /\ Answers(view'[v], view'[v].shown)
  PROVE  ProjectIInv'
<1>1. \A p \in Project : Listeners(p)' = Listeners(p)
  BY DEF Listeners
<1>2. Owned(Current)' /\ \A p \in Project : Active(Current, p)' <=> Active(Current, p)
  BY DEF ProjectIInv, ProjectInv, Owned, Current, Active
<1>3. ProjectTypeOK'
  BY DEF ProjectIInv, ProjectTypeOK
<1>4. ProjectInv'
  BY <1>1, <1>2 DEF ProjectIInv, ProjectInv, Answers
<1> QED
  BY <1>3, <1>4 DEF ProjectIInv

LEMMA LoadSteps ==
  ASSUME ProjectIInv, NEW v \in Viewer,
         LatestLoaded(v) \/ OlderLoaded(v) \/ \E d \in Period : OnPeriodChange(v, d)
  PROVE  ProjectIInv'
<1>1. /\ view \in [Viewer -> Dashboard] /\ views \in Nat /\ runs \in Nat
      /\ \A u \in Viewer : Answers(view[u], view[u].latest) /\ Answers(view[u], view[u].shown)
  BY DEF ProjectIInv, ProjectTypeOK, ProjectInv
<1>2. ASSUME NEW w \in Dashboard, view' = [view EXCEPT ![v] = w], w.of = view[v].of,
             Answers(w, w.latest), Answers(w, w.shown),
             UNCHANGED <<conn, lines, breaks>>, {views', runs'} \subseteq Nat
      PROVE  ProjectIInv'
  <2>1. \A u \in Viewer : view'[u] = IF u = v THEN w ELSE view[u]
    BY <1>1, <1>2
  <2>2. \A u \in Viewer : view'[u].of = view[u].of /\ Answers(view'[u], view'[u].latest) /\ Answers(view'[u], view'[u].shown)
    BY <1>1, <1>2, <2>1
  <2>3. view' \in [Viewer -> Dashboard]
    BY <1>1, <1>2
  <2> QED
    BY <1>2, <2>2, <2>3, OnlyViews
<1>3. CASE LatestLoaded(v)
  <2>1. PICK ok \in BOOLEAN :
          view' = [view EXCEPT ![v].latest = NoLine, ![v].spinner = FALSE,
                               ![v].shown = IF ok THEN view[v].latest ELSE @]
    BY <1>3 DEF LatestLoaded
  <2> DEFINE sh == IF ok THEN view[v].latest ELSE view[v].shown
             w == [view[v] EXCEPT !.latest = NoLine, !.spinner = FALSE, !.shown = sh]
  <2>2. view' = [view EXCEPT ![v] = w]
    BY <1>1, <2>1
  <2>3. sh \in Request \cup {NoLine} /\ Answers(view[v], sh)
    BY <1>1 DEF Dashboard
  <2> HIDE DEF sh
  <2>4. /\ w \in Dashboard /\ w.of = view[v].of /\ w.period = view[v].period /\ w.told = view[v].told
        /\ w.latest = NoLine /\ w.shown = sh
    BY <1>1, <2>3 DEF Dashboard
  <2> HIDE DEF w
  <2>5. Answers(w, w.latest) /\ Answers(w, w.shown)
    BY <2>3, <2>4 DEF Answers
  <2>6. UNCHANGED <<conn, lines, breaks>> /\ {views', runs'} \subseteq Nat
    BY <1>1, <1>3 DEF LatestLoaded
  <2> QED
    BY <1>2, <2>2, <2>4, <2>5, <2>6
<1>4. CASE OlderLoaded(v)
  <2>1. PICK ok \in BOOLEAN, more \in BOOLEAN :
          view' = [view EXCEPT ![v].older = more, ![v].spinner = FALSE,
                               ![v].shown = IF ok THEN NoLine ELSE @]
    BY <1>4 DEF OlderLoaded
  <2> DEFINE sh == IF ok THEN NoLine ELSE view[v].shown
             w == [view[v] EXCEPT !.older = more, !.spinner = FALSE, !.shown = sh]
  <2>2. view' = [view EXCEPT ![v] = w]
    BY <1>1, <2>1
  <2>3. sh \in Request \cup {NoLine} /\ Answers(view[v], sh)
    BY <1>1 DEF Dashboard, Answers
  <2> HIDE DEF sh
  <2>4. /\ w \in Dashboard /\ w.of = view[v].of /\ w.period = view[v].period /\ w.told = view[v].told
        /\ w.latest = view[v].latest /\ w.shown = sh
    BY <1>1, <2>3 DEF Dashboard
  <2> HIDE DEF w
  <2>5. Answers(w, w.latest) /\ Answers(w, w.shown)
    BY <1>1, <2>3, <2>4 DEF Answers
  <2>6. UNCHANGED <<conn, lines, breaks>> /\ {views', runs'} \subseteq Nat
    BY <1>1, <1>4 DEF OlderLoaded
  <2> QED
    BY <1>2, <2>2, <2>4, <2>5, <2>6
<1>5. ASSUME NEW d \in Period, OnPeriodChange(v, d)
      PROVE  ProjectIInv'
  <2> DEFINE a == [view[v] EXCEPT !.period = d]
  <2>1. /\ view[v].of # NoLine /\ view' = [view EXCEPT ![v] = Asks(a)]
    BY <1>5 DEF OnPeriodChange
  <2>2. a \in Dashboard /\ a.of = view[v].of
    BY <1>1 DEF Dashboard
  <2> HIDE DEF a
  <2>3. /\ Asks(a) \in Dashboard /\ Asks(a).of = view[v].of
        /\ Answers(Asks(a), Asks(a).latest) /\ Answers(Asks(a), Asks(a).shown)
    BY <2>1, <2>2, AsksTyped
  <2>4. UNCHANGED <<conn, lines, breaks>> /\ {views', runs'} \subseteq Nat
    BY <1>1, <1>5 DEF OnPeriodChange, Act
  <2> QED
    BY <1>2, <2>1, <2>3, <2>4
<1> QED
  BY <1>3, <1>4, <1>5

(* What a dashboard has asked for may miss a run that ends now, unless the *)
(* dashboard hears of the run and asks again.                              *)
LEMMA OutdatedKeeps ==
  ASSUME NEW w \in Dashboard, Answers(w, w.latest), Answers(w, w.shown)
  PROVE  /\ Outdated(w) \in Dashboard /\ Outdated(w).of = w.of
         /\ Answers(Outdated(w), Outdated(w).latest) /\ Answers(Outdated(w), Outdated(w).shown)
<1>1. ASSUME NEW r \in Request \cup {NoLine}
      PROVE  /\ Missed(r) \in Request \cup {NoLine}
             /\ Missed(r) # NoLine => Missed(r).of = r.of /\ Missed(r).period = r.period /\ r # NoLine
  BY DEF Missed, Request
<1> DEFINE l == Missed(w.latest)
           h == Missed(w.shown)
<1>2. w.latest \in Request \cup {NoLine} /\ w.shown \in Request \cup {NoLine}
  BY DEF Dashboard
<1>3. l \in Request \cup {NoLine} /\ h \in Request \cup {NoLine}
  BY <1>1, <1>2
<1>4. /\ l # NoLine => l.of = w.latest.of /\ l.period = w.latest.period /\ w.latest # NoLine
      /\ h # NoLine => h.of = w.shown.of /\ h.period = w.shown.period /\ w.shown # NoLine
  BY <1>1, <1>2
<1>5. Outdated(w) = [w EXCEPT !.latest = l, !.shown = h, !.told = FALSE]
  BY DEF Outdated
<1> HIDE DEF l, h
<1>6. /\ Outdated(w) \in Dashboard /\ Outdated(w).of = w.of /\ Outdated(w).period = w.period
      /\ Outdated(w).latest = l /\ Outdated(w).shown = h /\ Outdated(w).told = FALSE
  BY <1>3, <1>5 DEF Dashboard
<1> QED
  BY <1>4, <1>6 DEF Answers

LEMMA RunStep ==
  ASSUME ProjectIInv, NEW p \in Project, RunEnds(p)
  PROVE  ProjectIInv'
<1>1. /\ view \in [Viewer -> Dashboard] /\ views \in Nat /\ runs \in Nat
      /\ \A u \in Viewer : Answers(view[u], view[u].latest) /\ Answers(view[u], view[u].shown)
  BY DEF ProjectIInv, ProjectTypeOK, ProjectInv
<1>2. /\ runs' = runs + 1 /\ UNCHANGED <<conn, lines, views, breaks>>
      /\ view' = [v \in Viewer |-> IF view[v].of # p THEN view[v]
                                  ELSE IF Hears(p) THEN Asks(Outdated(view[v])) ELSE Outdated(view[v])]
  BY DEF RunEnds
<1>3. ASSUME NEW v \in Viewer
      PROVE  /\ view'[v] \in Dashboard /\ view'[v].of = view[v].of
             /\ Answers(view'[v], view'[v].latest) /\ Answers(view'[v], view'[v].shown)
  <2>1. CASE view[v].of # p
    BY <1>1, <1>2, <2>1
  <2>2. CASE view[v].of = p
    <3>1. /\ Outdated(view[v]) \in Dashboard /\ Outdated(view[v]).of = p /\ p # NoLine
          /\ Answers(Outdated(view[v]), Outdated(view[v]).latest)
          /\ Answers(Outdated(view[v]), Outdated(view[v]).shown)
      BY <1>1, <2>2, OutdatedKeeps, ProjectAssumption
    <3>2. view'[v] = IF Hears(p) THEN Asks(Outdated(view[v])) ELSE Outdated(view[v])
      BY <1>2, <2>2
    <3> QED
      BY <2>2, <3>1, <3>2, AsksTyped
  <2> QED
    BY <2>1, <2>2
<1>4. view' \in [Viewer -> Dashboard]
  BY <1>2, <1>3
<1>5. {views', runs'} \subseteq Nat
  BY <1>1, <1>2
<1> QED
  BY <1>2, <1>3, <1>4, <1>5, OnlyViews

(* Steps of the sockets leave every dashboard as it is.                    *)
LEMMA OnlySockets ==
  ASSUME ProjectIInv, UNCHANGED <<view, views, runs>>,
         conn' \in [Project -> Connection], lines' \in [Line -> LineState], breaks' \in Nat,
         Owned(Current)', \A p \in Project : Active(Current, p)' => Listeners(p) # {},
         breaks' <= MaxBreaks, \A p \in Project : conn'[p].timers <= breaks'
  PROVE  ProjectIInv'
<1>1. \A p \in Project : Listeners(p)' = Listeners(p)
  BY DEF Listeners
<1>2. ProjectTypeOK'
  BY DEF ProjectIInv, ProjectTypeOK
<1>3. ProjectInv'
  BY <1>1 DEF ProjectIInv, ProjectInv, Answers
<1> QED
  BY <1>2, <1>3 DEF ProjectIInv

LEMMA LineSteps ==
  ASSUME ProjectIInv, NEW l \in Line, LineOpens(l) \/ LineCloses(l) \/ Break(l)
  PROVE  ProjectIInv'
<1>1. /\ conn \in [Project -> Connection] /\ lines \in [Line -> LineState] /\ breaks \in Nat
      /\ Current.conn = conn /\ Current.lines = lines /\ Owned(Current) /\ breaks <= MaxBreaks
      /\ \A p \in Project : Active(Current, p) => Listeners(p) # {}
      /\ \A p \in Project : conn[p].timers <= breaks
  BY DEF ProjectIInv, ProjectTypeOK, ProjectInv, Current
<1>2. /\ Current'.conn = conn' /\ Current'.lines = lines'
  BY DEF Current
<1>3. CASE LineOpens(l) \/ LineCloses(l)
  <2>1. /\ UNCHANGED <<conn, view, views, breaks, runs>>
        /\ \/ /\ lines[l].state = "connecting"
              /\ lines' = [lines EXCEPT ![l].state = "open", ![l].subscribed = TRUE]
           \/ /\ lines[l].state = "closing"
              /\ lines' = [lines EXCEPT ![l].state = "unused", ![l].subscribed = FALSE]
    BY <1>3 DEF LineOpens, LineCloses
  <2>2. /\ lines' \in [Line -> LineState] /\ \A k \in Line : lines'[k].of = lines[k].of
        /\ \A k \in Line : lines'[k].state \in {"connecting", "open"}
                             <=> lines[k].state \in {"connecting", "open"}
    BY <1>1, <2>1 DEF LineState
  <2>3. Owned(Current)'
    <3>1. \A p \in Project : conn[p].ws \in Line \cup {NoLine}
      BY <1>1 DEF Connection
    <3> QED
      BY <1>1, <1>2, <2>1, <2>2, <3>1 DEF Owned
  <2>4. \A p \in Project : Active(Current, p)' => Listeners(p) # {}
    BY <1>1, <1>2, <2>1 DEF Active
  <2> QED
    BY <1>1, <2>1, <2>2, <2>3, <2>4, OnlySockets
<1>4. CASE Break(l)
  <2> DEFINE p == lines[l].of
             c == [ws |-> NoLine, timers |-> conn[p].timers + 1]
             n == [lines[l] EXCEPT !.state = "unused", !.subscribed = FALSE]
  <2>1. /\ lines[l].state \in {"connecting", "open"} /\ breaks < MaxBreaks /\ breaks' = breaks + 1
        /\ lines' = [lines EXCEPT ![l].state = "unused", ![l].subscribed = FALSE]
        /\ conn' = [conn EXCEPT ![lines[l].of] = [ws |-> NoLine, timers |-> @.timers + 1]]
        /\ UNCHANGED <<view, views, runs>>
    BY <1>4 DEF Break
  <2>2. p \in Project /\ conn[p].ws = l /\ l # NoLine /\ conn[p].timers \in Nat /\ MaxBreaks \in Nat
    BY <1>1, <2>1, ProjectAssumption DEF Owned, LineState, Connection
  <2>3. lines' = [lines EXCEPT ![l] = n] /\ conn' = [conn EXCEPT ![p] = c]
    BY <1>1, <2>1
  <2>4. n \in LineState /\ n.state = "unused"
    BY <1>1 DEF LineState
  <2>5. c \in Connection
    BY <1>1, <2>1, <2>2 DEF Connection
  <2>6. c.ws = NoLine /\ c.timers = conn[p].timers + 1
    OBVIOUS
  <2> HIDE DEF n, c, p
  <2>7. /\ lines' \in [Line -> LineState] /\ lines'[l] = n
        /\ \A k \in Line : k # l => lines'[k] = lines[k]
        /\ conn' \in [Project -> Connection] /\ conn'[p] = c
        /\ \A q \in Project : q # p => conn'[q] = conn[q]
    BY <1>1, <2>2, <2>3, <2>4, <2>5
  <2>8. ASSUME NEW k \in Line, lines'[k].state \in {"connecting", "open"}
        PROVE  conn'[lines'[k].of].ws = k
    <3>1. k # l /\ lines'[k] = lines[k] /\ lines[k].of \in Project
      BY <1>1, <2>4, <2>7, <2>8 DEF LineState
    <3>2. conn[lines[k].of].ws = k
      BY <1>1, <2>8, <3>1 DEF Owned
    <3> QED
      BY <2>2, <2>7, <3>1, <3>2
  <2>9. ASSUME NEW q \in Project, conn'[q].ws # NoLine
        PROVE  lines'[conn'[q].ws].state \in {"connecting", "open"} /\ lines'[conn'[q].ws].of = q
    <3>1. q # p /\ conn'[q] = conn[q] /\ conn[q].ws \in Line
      BY <1>1, <2>6, <2>7, <2>9 DEF Connection
    <3>2. lines[conn[q].ws].state \in {"connecting", "open"} /\ lines[conn[q].ws].of = q
      BY <1>1, <2>9, <3>1 DEF Owned
    <3>3. conn[q].ws # l
      BY <3>1, <3>2 DEF p
    <3> QED
      BY <2>7, <3>1, <3>2, <3>3
  <2>10. Owned(Current)'
    BY <1>2, <2>8, <2>9 DEF Owned
  <2>11. ASSUME NEW q \in Project
         PROVE  /\ Active(Current, q)' => Listeners(q) # {}
                /\ conn'[q].timers <= breaks'
    <3>1. CASE q = p
      <4>1. Active(Current, p)
        BY <1>1, <2>2 DEF Active
      <4> QED
        BY <1>1, <2>1, <2>2, <2>6, <2>7, <3>1, <4>1
    <3>2. CASE q # p
      <4>1. conn[q].timers \in Nat /\ conn'[q] = conn[q] /\ conn[q].timers <= breaks
        BY <1>1, <2>7, <3>2, ProjectAssumption DEF Connection
      <4>2. Active(Current, q)' => Active(Current, q)
        BY <1>1, <1>2, <4>1 DEF Active
      <4> QED
        BY <1>1, <2>1, <4>1, <4>2
    <3> QED
      BY <3>1, <3>2
  <2>12. breaks' \in Nat /\ breaks' <= MaxBreaks
    BY <1>1, <2>1, <2>2
  <2> QED
    BY <2>1, <2>7, <2>10, <2>11, <2>12, OnlySockets
<1> QED
  BY <1>3, <1>4

LEMMA TimerStep ==
  ASSUME ProjectIInv, NEW p \in Project, ProjectTimer(p)
  PROVE  ProjectIInv'
<1> DEFINE c == [ws |-> conn[p].ws, timers |-> conn[p].timers - 1]
           s == [conn |-> [conn EXCEPT ![p] = c], lines |-> lines]
           t == OpenLine(s, p)
<1>1. /\ conn \in [Project -> Connection] /\ lines \in [Line -> LineState] /\ breaks \in Nat
      /\ views \in Nat /\ runs \in Nat /\ view \in [Viewer -> Dashboard]
      /\ Current.conn = conn /\ Current.lines = lines /\ Owned(Current)
      /\ \A q \in Project : Active(Current, q) => Listeners(q) # {}
      /\ \A v \in Viewer : Answers(view[v], view[v].latest) /\ Answers(view[v], view[v].shown)
  BY DEF ProjectIInv, ProjectTypeOK, ProjectInv, Current
<1>2. /\ conn[p].timers > 0 /\ Idle(Current) # {} /\ UNCHANGED <<view, views, breaks, runs>>
      /\ Becomes(OpenLine([Current EXCEPT !.conn[p].timers = @ - 1], p))
  BY DEF ProjectTimer
<1>3. [Current EXCEPT !.conn[p].timers = @ - 1] = s
  BY <1>1 DEF Current, Connection
<1>4. conn[p].timers \in Nat /\ c \in Connection /\ c.ws = conn[p].ws /\ c.timers = conn[p].timers - 1
  BY <1>1, <1>2, ProjectAssumption DEF Connection
<1> HIDE DEF c
<1>5. /\ s.conn \in [Project -> Connection] /\ s.lines = lines /\ s.conn[p] = c
      /\ \A q \in Project : q # p => s.conn[q] = conn[q]
  BY <1>1, <1>4
<1>6. s \in Net
  BY <1>1, <1>5 DEF Net
<1> HIDE DEF s
<1>7. \A q \in Project : s.conn[q].ws = conn[q].ws
  BY <1>4, <1>5
<1>8. Owned(s)
  <2>1. \A l \in Line : lines[l].of \in Project
    BY <1>1 DEF LineState
  <2> QED
    BY <1>1, <1>5, <1>7, <2>1 DEF Owned
<1>9. Idle(s) # {}
  BY <1>1, <1>2, <1>5 DEF Idle
<1>10. /\ t \in Net /\ Owned(t) /\ \A q \in Project : t.conn[q].timers = s.conn[q].timers
       /\ \A q \in Project \ {p} : t.conn[q] = s.conn[q]
  BY <1>6, <1>8, <1>9, OpenLineKeeps
<1>11. Becomes(t)
  BY <1>2, <1>3
<1> HIDE DEF t
<1>12. ASSUME NEW q \in Project
       PROVE  /\ t.conn[q].timers <= conn[q].timers
              /\ Active(t, q) => Listeners(q)' # {}
  <2>1. Listeners(q)' = Listeners(q)
    BY <1>2 DEF Listeners
  <2>2. CASE q = p
    <3>1. Active(Current, p)
      BY <1>1, <1>2 DEF Active
    <3> QED
      BY <1>1, <1>4, <1>5, <1>10, <2>1, <2>2, <3>1
  <2>3. CASE q # p
    <3>1. t.conn[q] = conn[q] /\ conn[q].timers \in Nat
      BY <1>1, <1>5, <1>10, <2>3, ProjectAssumption DEF Connection
    <3>2. Active(t, q) => Active(Current, q)
      BY <1>1, <3>1 DEF Active
    <3> QED
      BY <1>1, <2>1, <3>1, <3>2
  <2> QED
    BY <2>2, <2>3
<1>13. /\ {views', runs'} \subseteq Nat /\ view' \in [Viewer -> Dashboard] /\ breaks' = breaks
       /\ \A v \in Viewer : Answers(view'[v], view'[v].latest) /\ Answers(view'[v], view'[v].shown)
  BY <1>1, <1>2
<1> QED
  BY <1>10, <1>11, <1>12, <1>13, NetworkKept

LEMMA ProjectStep ==
  ASSUME ProjectIInv, [ProjectNext]_projectVars
  PROVE  ProjectIInv'
<1>1. CASE UNCHANGED projectVars
  BY <1>1 DEF projectVars, ProjectIInv, ProjectTypeOK, ProjectInv, Answers, Owned, Active, Current, Listeners
<1> QED
  BY <1>1, MountStep, ShowStep, UnmountStep, LoadSteps, RunStep, LineSteps, TimerStep DEF ProjectNext

LEMMA ProjectStarts == ProjectInit => ProjectIInv
<1> SUFFICES ASSUME ProjectInit PROVE ProjectIInv
  OBVIOUS
<1> DEFINE c == [ws |-> NoLine, timers |-> 0]
           n == [state |-> "unused", of |-> CHOOSE p \in Project : TRUE, subscribed |-> FALSE]
<1>1. /\ conn = [p \in Project |-> c] /\ lines \in [Line -> {n}] /\ view = [v \in Viewer |-> Away]
      /\ views = 0 /\ breaks = 0 /\ runs = 0
  BY DEF ProjectInit
<1>2. c \in Connection /\ n \in LineState /\ n.state = "unused" /\ MaxBreaks \in Nat
  BY ProjectAssumption DEF Connection, LineState
<1> HIDE DEF n
<1>3. ProjectTypeOK
  BY <1>1, <1>2, AwayTyped DEF ProjectTypeOK
<1>4. \A l \in Line : lines[l].state = "unused"
  BY <1>1, <1>2
<1>5. Owned(Current) /\ \A p \in Project : ~Active(Current, p)
  BY <1>1, <1>4 DEF Owned, Active, Current
<1>6. \A v \in Viewer : Answers(view[v], view[v].latest) /\ Answers(view[v], view[v].shown)
  BY <1>1, AwayTyped DEF Answers
<1>7. \A p \in Project : conn[p].timers <= breaks
  BY <1>1
<1> QED
  BY <1>1, <1>2, <1>3, <1>5, <1>6, <1>7 DEF ProjectIInv, ProjectInv

-----------------------------------------------------------------------------
(* The types of the connections, the sockets and the dashboards.           *)
THEOREM ProjectTyped == ProjectSpec => []ProjectTypeOK
<1>1. ProjectIInv => ProjectTypeOK
  BY DEF ProjectIInv
<1> QED
  BY <1>1, ProjectStarts, ProjectStep, PTL DEF ProjectSpec

(* In project-ws.ts every socket in use is that of the connection of its   *)
(* project, and has a dashboard; in project-metrics.ts what a dashboard    *)
(* shows as its latest answer is of the project and the period selected,   *)
(* and of every run it was told of.                                        *)
THEOREM DashboardsFollow == ProjectSpec => []DashboardsFollowRuns
<1>1. ProjectIInv => DashboardsFollowRuns
  <2> SUFFICES ASSUME ProjectIInv PROVE DashboardsFollowRuns
    OBVIOUS
  <2>1. /\ lines \in [Line -> LineState] /\ Owned(Current) /\ Current.conn = conn /\ Current.lines = lines
        /\ \A p \in Project : Active(Current, p) => Listeners(p) # {}
        /\ \A v \in Viewer : Answers(view[v], view[v].shown)
    BY DEF ProjectIInv, ProjectTypeOK, ProjectInv, Current
  <2>2. ASSUME NEW l \in Line, lines[l].state \in {"connecting", "open"}
        PROVE  conn[lines[l].of].ws = l /\ Listeners(lines[l].of) # {}
    <3>1. lines[l].of \in Project /\ conn[lines[l].of].ws = l /\ l # NoLine
      BY <2>1, <2>2, ProjectAssumption DEF Owned, LineState
    <3> QED
      BY <2>1, <3>1 DEF Active
  <2> QED
    BY <2>1, <2>2 DEF DashboardsFollowRuns, OneLinePerProject, DashboardCurrent, Answers
<1> QED
  BY <1>1, ProjectStarts, ProjectStep, PTL DEF ProjectSpec

(* The three listeners side by side, as the run looks at them: a step of   *)
(* the page is a step of each of them or leaves it as it is.               *)
THEOREM ListenersTyped == Spec => []LiveTypeOK
<1>1. Init => ConnectionInit /\ StreamInit /\ ProjectInit
  BY DEF Init
<1>2. [Next]_vars => [ConnectionNext]_connVars /\ [StreamNext]_streamVars /\ [ProjectNext]_projectVars
  BY DEF Next, vars, connVars, streamVars, projectVars
<1>3. Spec => ConnectionSpec /\ StreamSpec /\ ProjectSpec
  BY <1>1, <1>2, PTL DEF Spec, ConnectionSpec, StreamSpec, ProjectSpec
<1> QED
  BY <1>3, ConnectionTyped, StreamTyped, ProjectTyped, PTL DEF LiveTypeOK
=============================================================================
