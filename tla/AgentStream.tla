----------------------------- MODULE AgentStream -----------------------------
(***************************************************************************)
(* The live output of an agent: the service that keeps the WebSocket and   *)
(* the subscriptions (agent-stream.ts) and the panel that shows one agent, *)
(* or the log of a workspace (agent-activity-panel.ts).                    *)
(*                                                                         *)
(* A browser is in one session at a time, so that the service is given one *)
(* session code between two calls of disconnect.  A WebSocket that the     *)
(* client closes gives its close event later.                              *)
(***************************************************************************)
EXTENDS Naturals, FiniteSets

CONSTANTS
  Agent,      \* participants that are agents
  Wire,       \* WebSockets, which also bounds how many there are at a time
  Nobody,     \* no agent, no socket
  Log,        \* the panel of a workspace, without an agent
  MaxWatch,   \* bound on mounting, changing and leaving panels
  MaxCuts     \* bound on dropped sockets

ASSUME StreamAssumption ==
  /\ {Nobody, Log} \cap (Agent \cup Wire) = {} /\ Nobody # Log
  /\ IsFiniteSet(Wire)

VARIABLES
  st,         \* the service and its sockets
  panel,      \* the agent whose panel is mounted, Log or Nobody
  hist,       \* the history that the mounted panel loads
  watched, cuts

streamVars == <<st, panel, hist, watched, cuts>>

Fresh == [loads |-> 0, loaded |-> FALSE, poll |-> FALSE]

Service ==
  [live : BOOLEAN, quit : BOOLEAN, timer : BOOLEAN, cur : Wire \cup {Nobody},
   subs : SUBSET Agent, heard : [Wire -> SUBSET Agent],
   wire : [Wire -> {"unused", "connecting", "open", "closing"}]]

StreamTypeOK ==
  /\ st \in Service
  /\ panel \in Agent \cup {Nobody, Log}
  /\ hist \in [loads : 0 .. 2, loaded : BOOLEAN, poll : BOOLEAN]
  /\ {watched, cuts} \subseteq Nat

StreamInit ==
  /\ st = [live |-> FALSE, quit |-> FALSE, timer |-> FALSE, cur |-> Nobody, subs |-> {},
           heard |-> [w \in Wire |-> {}], wire |-> [w \in Wire |-> "unused"]]
  /\ panel = Nobody /\ hist = Fresh
  /\ watched = 0 /\ cuts = 0

-----------------------------------------------------------------------------
(* agent-stream.ts, as functions of its state s.                           *)
IsOpen(s) == s.cur # Nobody /\ s.wire[s.cur] = "open"

Unused(s) == {w \in Wire : s.wire[w] = "unused"}

OpenWire(s) ==
  LET w == CHOOSE w \in Unused(s) : TRUE
  IN [s EXCEPT !.cur = w, !.wire[w] = "connecting", !.heard[w] = {}]

(* Only the current socket is closed.                                      *)
Disconnect(s) ==
  [s EXCEPT !.quit = TRUE, !.live = FALSE, !.timer = FALSE, !.cur = Nobody, !.subs = {},
            !.wire = [w \in Wire |-> IF w = s.cur THEN "closing" ELSE s.wire[w]]]

Connect(s) ==
  IF s.live /\ IsOpen(s) THEN s
  ELSE OpenWire([Disconnect(s) EXCEPT !.quit = FALSE, !.live = TRUE])

(* Subscriptions are sent on the current socket, if it is open.            *)
SendSubscribe(s, agents) ==
  IF IsOpen(s) THEN [s EXCEPT !.heard[s.cur] = @ \cup agents] ELSE s

(* Mutant: the subscription is sent but not kept for a later socket.       *)
SubscribeNow(s, a) == SendSubscribe(s, {a})

Subscribe(s, a) == SendSubscribe([s EXCEPT !.subs = @ \cup {a}], {a})

Unsubscribe(s, a) ==
  LET kept == [s EXCEPT !.subs = @ \ {a}]
  IN IF IsOpen(s) THEN [kept EXCEPT !.heard[s.cur] = @ \ {a}] ELSE kept

(* The open event of socket w.                                             *)
Opened(s, w) ==
  LET opened == [s EXCEPT !.wire[w] = "open"] IN SendSubscribe(opened, s.subs)

(* The close event of socket w, of whichever connection it was.            *)
ClosedWire(s, w) ==
  [s EXCEPT !.wire[w] = "unused", !.heard[w] = {}, !.cur = IF @ = w THEN Nobody ELSE @,
            !.timer = @ \/ (~s.quit /\ s.live)]

(* The timer of scheduleReconnect.                                         *)
Elapsed(s) ==
  LET off == [s EXCEPT !.timer = FALSE]
  IN IF ~s.quit /\ s.live THEN OpenWire(off) ELSE off

(* The sockets on which an event of agent a reaches the listeners.         *)
Deliveries(a) == {w \in Wire : st.wire[w] = "open" /\ a \in st.heard[w]}

-----------------------------------------------------------------------------
(* agent-activity-panel.ts.                                                *)
Load(h) == IF h.loaded THEN h ELSE [h EXCEPT !.loads = @ + 1]

StartStreaming(s, a) == Subscribe(Connect(s), a)
StopStreaming(s, a)  == Unsubscribe(s, a)

Watch == watched < MaxWatch /\ watched' = watched + 1 /\ UNCHANGED cuts

(* connectedCallback starts the stream and the first updated, for which    *)
(* every property has changed, stops it and starts it again.               *)
Mount(a) ==
  /\ Watch /\ panel = Nobody /\ Cardinality(Unused(st)) >= 2
  /\ panel' = a
  /\ IF a \in Agent
     THEN st' = StartStreaming(StopStreaming(StartStreaming(st, a), a), a)
     ELSE UNCHANGED st
  /\ hist' = Load(Load(Fresh))

(* The property has changed when updated stops the stream, so that the     *)
(* new agent is unsubscribed and the old one is not.                       *)
Retarget(a) ==
  /\ Watch /\ panel \in Agent \ {a} /\ Unused(st) # {} /\ hist.loads < 2
  /\ panel' = a /\ st' = StartStreaming(StopStreaming(st, a), a)
  /\ hist' = Load(hist)

(* disconnectedCallback.  What an element that is gone still loads is not  *)
(* followed.                                                               *)
Unmount ==
  /\ Watch /\ panel # Nobody /\ panel' = Nobody /\ hist' = Fresh
  /\ st' = IF panel \in Agent THEN StopStreaming(st, panel) ELSE st

(* The shell disconnects the service when the session is left.             *)
LeaveStream ==
  /\ Watch /\ panel' = Nobody /\ hist' = Fresh
  /\ st' = IF panel \in Agent THEN StopStreaming(Disconnect(st), panel) ELSE Disconnect(st)

(* loadHistorical ends, with the log or without; without a stream it will  *)
(* come again.                                                             *)
Loaded(h, got) ==
  [h EXCEPT !.loads = @ - 1, !.loaded = TRUE, !.poll = @ \/ panel \notin Agent]

(* Mutant: a load ends that was not under way.                             *)
LoadEndsAgain ==
  /\ \E got \in BOOLEAN : hist' = Loaded(hist, got)
  /\ UNCHANGED <<st, panel, watched, cuts>>

LoadEnds ==
  /\ hist.loads > 0 /\ \E got \in BOOLEAN : hist' = Loaded(hist, got)
  /\ UNCHANGED <<st, panel, watched, cuts>>

(* The refresh timer.  A load may still be under way.                      *)
PollLog ==
  /\ hist.poll /\ hist.loads < 2
  /\ hist' = [loads |-> hist.loads + 1, loaded |-> FALSE, poll |-> FALSE]
  /\ UNCHANGED <<st, panel, watched, cuts>>

-----------------------------------------------------------------------------
StreamOpens(w) ==
  /\ st.wire[w] = "connecting" /\ st' = Opened(st, w)
  /\ UNCHANGED <<panel, hist, watched, cuts>>

StreamCloses(w) ==
  /\ st.wire[w] = "closing" /\ st' = ClosedWire(st, w)
  /\ UNCHANGED <<panel, hist, watched, cuts>>

Cut(w) ==
  /\ st.wire[w] \in {"connecting", "open"} /\ cuts < MaxCuts /\ cuts' = cuts + 1
  /\ st' = ClosedWire(st, w) /\ UNCHANGED <<panel, hist, watched>>

Fire == /\ st.timer /\ Unused(st) # {} /\ st' = Elapsed(st)
        /\ UNCHANGED <<panel, hist, watched, cuts>>

WireStep(w) == StreamOpens(w) \/ StreamCloses(w)

StreamNext ==
  \/ \E a \in Agent : Retarget(a)
  \/ \E a \in Agent \cup {Log} : Mount(a)
  \/ Unmount \/ LeaveStream \/ Fire
  \/ \E w \in Wire : WireStep(w) \/ Cut(w)
  \/ LoadEnds \/ PollLog

StreamSpec == StreamInit /\ [][StreamNext]_streamVars

(* Sockets open and close, and timers fire; users need do nothing.         *)
StreamFairness == (\A w \in Wire : WF_streamVars(WireStep(w))) /\ WF_streamVars(Fire)

-----------------------------------------------------------------------------
(* At rest the current socket is open and hears the agent of the panel,    *)
(* whatever was mounted, left, dropped or opened late before.              *)
StreamFed ==
  /\ panel \in Agent /\ ~st.timer /\ \A w \in Wire : st.wire[w] \in {"unused", "open"}
  => st.cur \in Deliveries(panel)

(* After a disconnect no late close event starts a connection again.       *)
QuietAfterDisconnect == ~st.live => ~st.timer /\ st.cur = Nobody

(* The panel of a workspace goes on asking for its log.                    *)
LogKeepsPolling == panel = Log => hist.poll \/ hist.loads > 0

(* Whoever keeps watching an agent gets its stream.                        *)
StreamReturns == panel \in Agent ~> panel \notin Agent \/ Deliveries(panel) # {}

(* The panels on the page are served, and a connection that was given up   *)
(* stays given up.  That a line arrives once is not said: the socket of a  *)
(* late close event may subscribe beside the one in use.                   *)
StreamFollowsPanel == StreamFed /\ QuietAfterDisconnect /\ LogKeepsPolling
=============================================================================
