--------------------------- MODULE EventPipeline ---------------------------
(***************************************************************************)
(* From a domain event to the reactions to it: server/src/events.rs (emit),*)
(* worker/bridge.rs (the table-polling bridge to RabbitMQ) and             *)
(* worker/reactions.rs (the consumer that matches and dispatches).         *)
(*                                                                         *)
(*   handlers --INSERT--> domain_events --poll, cursor--> wire --> queue   *)
(*                                        --> consumer --> actions         *)
(*                                                                         *)
(* Events are their BIGSERIAL ids.  An id is drawn when the INSERT runs and*)
(* is visible when it commits, in any order.  Publishes are not confirmed: *)
(* what is on the wire when it breaks is lost, wherever the cursor is.  The*)
(* broker keeps a message until it is acked, so a delivered message stays  *)
(* at the head of `queue`.                                                 *)
(***************************************************************************)
EXTENDS Naturals, Sequences, FiniteSets

CONSTANTS
  MaxEvent,      \* bound on the ids drawn
  BatchSize,     \* BATCH_SIZE
  Reaction,      \* rows of event_reactions
  Wants,         \* the pairs <<e, r>> such that type and filter of r fit e
  Faults,        \* what may go wrong: subset of {"emit", "cursor", "match",
                 \*                               "crash", "connection"}
  MaxFaults      \* bound on the faults of a behaviour

Event == 1..MaxEvent

ASSUME EventAssumption ==
  /\ MaxEvent \in Nat /\ BatchSize \in Nat \ {0} /\ MaxFaults \in Nat
  /\ Wants \subseteq Event \X Reaction

VARIABLES
  drawn,     \* last value of the sequence domain_events_id_seq
  open,      \* ids of INSERTs that have not committed
  ledger,    \* rows of domain_events
  cursor,    \* event_bridge_cursor.last_event_id
  bridge,    \* "idle", or "publish" while it works on a batch
  batch,     \* the ids it has not published yet
  lastId,    \* last_id of poll_and_publish
  connected, \* the worker's AMQP connection is up
  wire,      \* published, not yet with the broker
  queue,     \* seam.reactions: messages that are not acked
  consumer,  \* "idle", "act" or "stopped"
  todo,      \* the matched reactions not dispatched yet
  enabled,   \* event_reactions.enabled
  attempts,  \* how often r was dispatched for e
  acked,     \* events acked at least once
  faults,
  overtaken, \* history: INSERTs still open when a poll read a later id
  lost,      \* history: published, lost with the wire, not published again
  unmatched  \* history: handled although the query for their reactions failed

history      == <<overtaken, lost, unmatched>>
bridgeVars   == <<cursor, bridge, batch, lastId>>
brokerVars   == <<connected, wire, queue>>
consumerVars == <<consumer, todo, attempts, acked>>
vars == <<drawn, open, ledger, bridgeVars, brokerVars, consumerVars, enabled, faults,
          history>>

TypeOK ==
  /\ drawn \in 0..MaxEvent /\ open \subseteq 1..drawn /\ ledger \subseteq 1..drawn
  /\ cursor \in 0..drawn /\ lastId \in 0..drawn
  /\ bridge \in {"idle", "publish"} /\ batch \subseteq 1..drawn
  /\ connected \in BOOLEAN
  /\ wire \in Seq(Event) /\ queue \in Seq(Event)
  /\ consumer \in {"idle", "act", "stopped"} /\ todo \subseteq Reaction
  /\ enabled \in [Reaction -> BOOLEAN]
  /\ attempts \in [Event \X Reaction -> Nat]
  /\ acked \subseteq Event
  /\ faults \in 0..MaxFaults
  /\ overtaken \subseteq 1..drawn /\ lost \subseteq Event /\ unmatched \subseteq Event

Init ==
  /\ drawn = 0 /\ open = {} /\ ledger = {}
  /\ cursor = 0 /\ bridge = "idle" /\ batch = {} /\ lastId = 0
  /\ connected = TRUE /\ wire = <<>> /\ queue = <<>>
  /\ consumer = "idle" /\ todo = {}
  /\ enabled \in [Reaction -> BOOLEAN]
  /\ attempts = [p \in Event \X Reaction |-> 0]
  /\ acked = {}
  /\ faults = 0
  /\ overtaken = {} /\ lost = {} /\ unmatched = {}

(* The messages of a queue, or of the wire.                                *)
InSeq(s) == {s[n] : n \in 1..Len(s)}

Fault(f) == f \in Faults /\ faults < MaxFaults /\ faults' = faults + 1

-----------------------------------------------------------------------------
(* emit: INSERT INTO domain_events, on any connection of the pool.         *)
EmitDraw ==
  /\ drawn < MaxEvent
  /\ drawn' = drawn + 1
  /\ open' = open \cup {drawn'}
  /\ UNCHANGED <<ledger, bridgeVars, brokerVars, consumerVars, enabled, faults,
                 history>>

EmitCommit(e) ==
  /\ e \in open
  /\ open' = open \ {e}
  /\ ledger' = ledger \cup {e}
  /\ UNCHANGED <<drawn, bridgeVars, brokerVars, consumerVars, enabled, faults,
                 history>>

(* The INSERT fails: the caller logs it, the id is a gap.                  *)
EmitFail(e) ==
  /\ e \in open
  /\ Fault("emit")
  /\ open' = open \ {e}
  /\ UNCHANGED <<drawn, ledger, bridgeVars, brokerVars, consumerVars, enabled, history>>

-----------------------------------------------------------------------------
(* SELECT ... WHERE id > cursor ORDER BY id LIMIT BATCH_SIZE.  Only the    *)
(* bridge writes the cursor, so its read is part of the step.  An INSERT   *)
(* that is open while a later id is read has been overtaken.               *)
Unread == {e \in ledger : e > cursor}
(* Mutant: ORDER BY id DESC.                                               *)
LastOf(S, n)  == {e \in S : Cardinality({d \in S : d > e}) < n}
FirstOf(S, n) == {e \in S : Cardinality({d \in S : d < e}) < n}

BridgePoll ==
  /\ bridge = "idle" /\ Unread # {}
  /\ bridge' = "publish"
  /\ batch' = FirstOf(Unread, BatchSize)
  /\ lastId' = cursor
  /\ overtaken' = overtaken \cup {e \in open : \E d \in batch' : e < d}
  /\ UNCHANGED <<drawn, open, ledger, cursor, brokerVars, consumerVars, enabled, faults, lost,
                 unmatched>>

(* basic_publish of the rows in their order; the channel is not in confirm *)
(* mode, so the awaited confirm says nothing.  On a closed channel it fails*)
(* and ends the poll.                                                      *)
BridgePublish ==
  /\ bridge = "publish" /\ batch # {}
  /\ \/ /\ connected
        /\ \E e \in batch :
             /\ \A d \in batch : e <= d
             /\ wire' = Append(wire, e) /\ batch' = batch \ {e} /\ lastId' = e
             /\ lost' = lost \ {e}
        /\ UNCHANGED bridge
     \/ /\ ~connected
        /\ bridge' = "idle" /\ batch' = {}
        /\ UNCHANGED <<wire, lastId, lost>>
  /\ UNCHANGED <<drawn, open, ledger, cursor, connected, queue, consumerVars, enabled, faults,
                 overtaken, unmatched>>

(* Mutant: the cursor moves past everything the ledger holds by now.       *)
BridgeAdvanceToLatest ==
  /\ bridge = "publish" /\ batch = {}
  /\ cursor' \in {e \in ledger : \A d \in ledger : d <= e}
  /\ bridge' = "idle"
  /\ UNCHANGED <<drawn, open, ledger, batch, lastId, brokerVars, consumerVars, enabled, faults,
                 history>>

(* Mutant: the cursor is taken for the next id to read.                    *)
BridgeAdvancePast ==
  /\ bridge = "publish" /\ batch = {}
  /\ cursor' = lastId + 1
  /\ bridge' = "idle"
  /\ UNCHANGED <<drawn, open, ledger, batch, lastId, brokerVars, consumerVars, enabled, faults,
                 history>>

(* Mutant: the cursor keeps the value it had when the poll began.          *)
BridgeAdvanceNot ==
  /\ bridge = "publish" /\ batch = {}
  /\ bridge' = "idle"
  /\ UNCHANGED <<drawn, open, ledger, cursor, batch, lastId, brokerVars, consumerVars,
                 enabled, faults,
                 history>>

(* UPDATE event_bridge_cursor, after the whole batch.                      *)
BridgeAdvance ==
  /\ bridge = "publish" /\ batch = {}
  /\ cursor' = lastId
  /\ bridge' = "idle"
  /\ UNCHANGED <<drawn, open, ledger, batch, lastId, brokerVars, consumerVars, enabled, faults,
                 history>>

(* ... which may fail: the batch is published again at the next poll.      *)
BridgeAdvanceFail ==
  /\ bridge = "publish" /\ batch = {}
  /\ Fault("cursor")
  /\ bridge' = "idle"
  /\ UNCHANGED <<drawn, open, ledger, cursor, batch, lastId, brokerVars, consumerVars, enabled,
                 history>>

BrokerAccept ==
  /\ wire # <<>>
  /\ queue' = Append(queue, Head(wire))
  /\ wire' = Tail(wire)
  /\ UNCHANGED <<drawn, open, ledger, bridgeVars, connected, consumerVars, enabled, faults,
                 history>>

-----------------------------------------------------------------------------
(* handle_event: the reactions to the message at the head of the queue.    *)
(* The query names the event's type, not its project.                      *)
Matching(e) == {r \in Reaction : enabled[r] /\ <<e, r>> \in Wants}

ConsumerMatch ==
  /\ consumer = "idle" /\ connected /\ queue # <<>>
  /\ consumer' = "act"
  /\ todo' = Matching(Head(queue))
  /\ UNCHANGED <<drawn, open, ledger, bridgeVars, brokerVars, attempts, acked, enabled, faults,
                 history>>

(* The query fails: logged, and acked all the same.                        *)
ConsumerMatchFail ==
  /\ consumer = "idle" /\ connected /\ queue # <<>>
  /\ Fault("match")
  /\ consumer' = "act" /\ todo' = {}
  /\ unmatched' = unmatched \cup {Head(queue)}
  /\ UNCHANGED <<drawn, open, ledger, bridgeVars, brokerVars, attempts, acked, enabled,
                 overtaken, lost>>

(* dispatch_action, whose error is only logged.                            *)
ConsumerDispatch(r) ==
  /\ consumer = "act" /\ r \in todo
  /\ attempts' = [attempts EXCEPT ![<<Head(queue), r>>] = @ + 1]
  /\ todo' = todo \ {r}
  /\ UNCHANGED <<drawn, open, ledger, bridgeVars, brokerVars, consumer, acked, enabled, faults,
                 history>>

(* Mutant: the message is acked before its reactions are dispatched.       *)
ConsumerAckEarly ==
  /\ consumer = "act" /\ connected
  /\ queue' = Tail(queue) /\ acked' = acked \cup {Head(queue)}
  /\ consumer' = "idle" /\ todo' = {}
  /\ UNCHANGED <<drawn, open, ledger, bridgeVars, connected, wire, attempts, enabled, faults,
                 history>>

(* The ack.  Without a connection it is lost and the stream has ended.     *)
ConsumerAck ==
  /\ consumer = "act" /\ todo = {}
  /\ IF connected
       THEN /\ queue' = Tail(queue)
            /\ acked' = acked \cup {Head(queue)}
            /\ consumer' = "idle"
       ELSE consumer' = "stopped" /\ UNCHANGED <<queue, acked>>
  /\ UNCHANGED <<drawn, open, ledger, bridgeVars, connected, wire, todo, attempts, enabled, faults,
                 history>>

(* PATCH, POST and DELETE of /reactions.                                   *)
ToggleReaction(r) ==
  /\ enabled' = [enabled EXCEPT ![r] = ~ @]
  /\ UNCHANGED <<drawn, open, ledger, bridgeVars, brokerVars, consumerVars, faults,
                 history>>

-----------------------------------------------------------------------------
(* The connection breaks: what is on the wire is lost, the consumer's      *)
(* stream ends.  Nothing in the worker connects again.                     *)
ConnectionLost ==
  /\ connected /\ Fault("connection")
  /\ connected' = FALSE /\ wire' = <<>> /\ lost' = lost \cup InSeq(wire)
  /\ consumer' = IF consumer = "idle" THEN "stopped" ELSE consumer
  /\ UNCHANGED <<drawn, open, ledger, bridgeVars, queue, todo, attempts, acked, enabled,
                 overtaken, unmatched>>

(* The worker dies and Docker restarts it, or somebody restarts the one    *)
(* whose connection is gone; part of the wire may arrive.                  *)
WorkerCrash ==
  /\ IF connected THEN Fault("crash") ELSE UNCHANGED faults
  /\ \E n \in 0..Len(wire) :
       /\ queue' = queue \o SubSeq(wire, 1, n)
       /\ lost' = lost \cup InSeq(SubSeq(wire, n + 1, Len(wire)))
  /\ wire' = <<>> /\ connected' = TRUE
  /\ bridge' = "idle" /\ batch' = {}
  /\ consumer' = "idle" /\ todo' = {}
  /\ UNCHANGED <<drawn, open, ledger, cursor, lastId, attempts, acked, enabled, overtaken,
                 unmatched>>

BridgeStep   == BridgePoll \/ BridgePublish \/ BridgeAdvance
ConsumerStep == ConsumerMatch \/ ConsumerAck \/ \E r \in Reaction : ConsumerDispatch(r)

Next ==
  \/ EmitDraw \/ \E e \in Event : EmitCommit(e) \/ EmitFail(e)
  \/ BridgeStep \/ BridgeAdvanceFail \/ BrokerAccept
  \/ ConsumerStep \/ ConsumerMatchFail
  \/ \E r \in Reaction : ToggleReaction(r)
  \/ ConnectionLost \/ WorkerCrash

Spec == Init /\ [][Next]_vars

(* The worker's two loops keep running and the network keeps delivering.   *)
(* Actions are calls to other services: that they return is not assumed of *)
(* the code but part of the properties that need it (CallsReturn).         *)
Fairness ==
  /\ \A e \in Event : WF_vars(EmitCommit(e))
  /\ WF_vars(BridgeStep) /\ WF_vars(BrokerAccept)
  /\ WF_vars(ConsumerMatch) /\ WF_vars(ConsumerAck)

FairSpec == Spec /\ Fairness

-----------------------------------------------------------------------------
(* The cursor has passed the event, and nothing carries it any more.       *)
Skipped(e) ==
  e \in ledger /\ e <= cursor /\ e \notin InSeq(wire) \cup InSeq(queue) \cup acked

(* Bridge to broker: an event is skipped only if its INSERT committed after*)
(* a later id had been read, or if its unconfirmed publish was lost with   *)
(* the wire.  Nothing else skips one: not failed UPDATEs of the cursor, not*)
(* polls that end half-way, repeated batches, failed matches or restarts.  *)
SkippedForCause == \A e \in Event : Skipped(e) => e \in overtaken \cup lost

(* Reactions see events in order, also when batches and messages are       *)
(* repeated: an event is acked for the first time only after every earlier *)
(* one that was not overtaken and whose publish is not lost.               *)
FirstHandlingInOrder ==
  \A e \in acked : \A d \in ledger :
    d < e => d \in acked \cup overtaken \cup lost

(* A reaction is repeated only by faults, and each fault repeats it at most*)
(* twice: once from the batch and once from the unacked message.           *)
RepeatsNeedFaults ==
  \A p \in Event \X Reaction : attempts[p] <= 1 + 2 * faults

(* Every event is reacted to, unless it is skipped or the query for its    *)
(* reactions failed: if the calls of the actions return and a worker whose *)
(* connection broke is restarted, a reaction that stays enabled is         *)
(* dispatched for each event it wants.                                     *)
CallsReturn == \A r \in Reaction : WF_vars(ConsumerDispatch(r))
Reconnected == []<>connected
EnabledReactionFires ==
  CallsReturn /\ Reconnected =>
    \A p \in Wants : [](enabled[p[2]]) =>
      (p[1] \in ledger ~> attempts[p] > 0 \/ Skipped(p[1]) \/ p[1] \in unmatched)
=============================================================================
