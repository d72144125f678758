------------------------ MODULE EventPipelineProofs ------------------------
(***************************************************************************)
(* What EventPipeline keeps for every bound, batch size, set of reactions  *)
(* and number of faults, with commits in any order: its types, what may    *)
(* skip an event, in which order events are handled first, and that only   *)
(* faults repeat the dispatch of a reaction.                               *)
(***************************************************************************)
EXTENDS EventPipeline, TLAPS, FiniteSetTheorems

USE EventAssumption DEF EventAssumption

(* An action's message is the one at the head of the queue.                *)
ActsOnHead == consumer = "act" => queue # <<>>

(* An INSERT that is still open while a later id was read is overtaken.    *)
Read == {cursor, lastId} \cup batch \cup InSeq(wire) \cup InSeq(queue) \cup acked
OpenIsOvertaken ==
  /\ open \cap ledger = {}
  /\ \A e \in open : \A d \in Read : e < d => e \in overtaken

(* Everything that was read, published or handled comes from the ledger.   *)
FromLedger ==
  /\ cursor \in ledger \cup {0} /\ lastId \in ledger \cup {0}
  /\ batch \subseteq ledger /\ acked \subseteq ledger /\ lost \subseteq ledger
  /\ InSeq(wire) \subseteq ledger /\ InSeq(queue) \subseteq ledger

(* The batch holds the next rows after lastId, but for the overtaken.      *)
BatchIsNext ==
  /\ bridge = "idle" => batch = {}
  /\ bridge = "publish" => cursor <= lastId
  /\ \A e \in batch : e > lastId
  /\ \A e \in batch : \A d \in ledger : lastId < d /\ d < e => d \in batch \cup overtaken
  /\ connected => \A e \in batch : \A d \in lost : lastId < d /\ d < e => d \in batch

Passed    == {e \in ledger : e <= cursor}
Published == {e \in ledger : cursor < e /\ e <= lastId}
Carried   == InSeq(wire) \cup InSeq(queue) \cup acked

(* What will not be read again.                                            *)
Gone == overtaken \cup {d \in lost : d <= cursor}

(* A poll publishes what was lost again before anything later.             *)
Delivered == Passed \subseteq Carried \cup Gone
OnItsWay ==
  bridge = "publish" => /\ Published \subseteq Carried \cup overtaken \cup lost
                        /\ connected => Published \cap lost = {}

(* Before each message, all the earlier events.                            *)
QueueInOrder ==
  \A n \in 1..Len(queue) : \A d \in ledger :
    d < queue[n] => d \in acked \cup Gone \/ \E m \in 1..Len(queue) : m < n /\ queue[m] = d
WireInOrder ==
  \A n \in 1..Len(wire) : \A d \in ledger :
    d < wire[n] => \/ d \in acked \cup Gone \cup InSeq(queue)
                   \/ \E m \in 1..Len(wire) : m < n /\ wire[m] = d
AckedInOrder ==
  \A e \in acked : \A d \in ledger : d < e => d \in acked \cup Gone

Inv ==
  /\ OpenIsOvertaken /\ FromLedger /\ BatchIsNext
  /\ Delivered /\ OnItsWay /\ QueueInOrder /\ WireInOrder /\ AckedInOrder

-----------------------------------------------------------------------------
(* What a broken wire may lose lies behind what arrived.                   *)
LEMMA Suffixed ==
  ASSUME NEW w \in Seq(Event), NEW k \in 0..Len(w)
  PROVE  /\ InSeq(SubSeq(w, k + 1, Len(w))) \subseteq InSeq(w)
         /\ \A n \in 1..Len(w) : n > k => w[n] \in InSeq(SubSeq(w, k + 1, Len(w)))
<1> DEFINE p == SubSeq(w, k + 1, Len(w))
<1>1. Len(w) \in Nat /\ Len(p) = Len(w) - k /\ \A n \in 1..Len(p) : p[n] = w[k + n]
  OBVIOUS
<1>2. \A n \in 1..Len(p) : k + n \in 1..Len(w)
  BY <1>1
<1>3. InSeq(p) \subseteq InSeq(w)
  BY <1>1, <1>2 DEF InSeq
<1>4. ASSUME NEW n \in 1..Len(w), n > k PROVE w[n] \in InSeq(p)
  <2>1. n - k \in 1..Len(p) /\ k + (n - k) = n
    BY <1>1, <1>4
  <2>2. p[n - k] = w[n]
    BY <1>1, <2>1
  <2> QED
    BY <2>1, <2>2 DEF InSeq
<1> QED
  BY <1>3, <1>4

TypeInv == TypeOK /\ ActsOnHead

LEMMA TypeInvStep == TypeInv /\ [Next]_vars => TypeInv'
<1> SUFFICES ASSUME TypeInv, [Next]_vars PROVE TypeInv'
  OBVIOUS
<1> USE DEF TypeInv, TypeOK, ActsOnHead, Event, history
<1>1. CASE EmitDraw
  BY <1>1 DEF EmitDraw, bridgeVars, brokerVars, consumerVars
<1>2. ASSUME NEW e \in Event, EmitCommit(e) PROVE TypeInv'
  BY <1>2 DEF EmitCommit, bridgeVars, brokerVars, consumerVars
<1>3. ASSUME NEW e \in Event, EmitFail(e) PROVE TypeInv'
  BY <1>3 DEF EmitFail, Fault, bridgeVars, brokerVars, consumerVars
<1>4. CASE BridgePoll
  BY <1>4 DEF BridgePoll, FirstOf, Unread, brokerVars, consumerVars
<1>5. CASE BridgePublish
  <2>1. CASE connected
    <3>1. PICK e \in batch : /\ wire' = Append(wire, e) /\ batch' = batch \ {e} /\ lastId' = e
                            /\ lost' = lost \ {e}
      BY <1>5, <2>1 DEF BridgePublish
    <3>2. e \in 1..drawn /\ e \in Event
      OBVIOUS
    <3>3. /\ wire' \in Seq(Event) /\ batch' \subseteq 1..drawn /\ lastId' \in 0..drawn
          /\ lost' \subseteq Event
      BY <3>1, <3>2
    <3>4. UNCHANGED <<drawn, open, ledger, cursor, bridge, connected, queue, consumer, todo,
                      attempts, acked, enabled, faults, overtaken, unmatched>>
      BY <1>5, <2>1 DEF BridgePublish, consumerVars
    <3> QED
      BY <3>3, <3>4
  <2>2. CASE ~connected
    BY <1>5, <2>2 DEF BridgePublish, consumerVars
  <2> QED
    BY <2>1, <2>2
<1>6. CASE BridgeAdvance
  BY <1>6 DEF BridgeAdvance, brokerVars, consumerVars
<1>7. CASE BridgeAdvanceFail
  BY <1>7 DEF BridgeAdvanceFail, Fault, brokerVars, consumerVars
<1>8. CASE BrokerAccept
  <2>1. Head(wire) \in Event /\ Tail(wire) \in Seq(Event)
    BY <1>8 DEF BrokerAccept
  <2>4. queue' \in Seq(Event) /\ queue' # <<>>
    <3>1. queue' = Append(queue, Head(wire)) /\ queue \in Seq(Event)
      BY <1>8 DEF BrokerAccept
    <3> HIDE DEF TypeInv, TypeOK, ActsOnHead, Event
    <3> QED
      BY <2>1, <3>1
  <2>2. wire' \in Seq(Event) /\ queue' \in Seq(Event) /\ queue' # <<>>
    BY <1>8, <2>1, <2>4 DEF BrokerAccept
  <2>3. UNCHANGED <<drawn, open, ledger, cursor, bridge, batch, lastId, connected, consumer, todo,
                    attempts, acked, enabled, faults, overtaken, lost, unmatched>>
    BY <1>8 DEF BrokerAccept, bridgeVars, consumerVars
  <2> QED
    BY <2>2, <2>3
<1>9. CASE ConsumerMatch
  <2>1. Matching(Head(queue)) \subseteq Reaction
    BY DEF Matching
  <2> QED
    BY <1>9, <2>1 DEF ConsumerMatch, bridgeVars, brokerVars
<1>10. CASE ConsumerMatchFail
  <2>1. queue # <<>> /\ Head(queue) \in Event
    BY <1>10 DEF ConsumerMatchFail
  <2>2. unmatched' \subseteq Event
    BY <1>10, <2>1 DEF ConsumerMatchFail
  <2>3. faults' \in 0..MaxFaults
    BY <1>10 DEF ConsumerMatchFail, Fault
  <2> QED
    BY <1>10, <2>1, <2>2, <2>3 DEF ConsumerMatchFail, bridgeVars, brokerVars
<1>11. ASSUME NEW r \in Reaction, ConsumerDispatch(r) PROVE TypeInv'
  <2>1. Head(queue) \in Event
    BY <1>11 DEF ConsumerDispatch
  <2>2. attempts' \in [Event \X Reaction -> Nat]
    BY <1>11, <2>1 DEF ConsumerDispatch
  <2> QED
    BY <1>11, <2>2 DEF ConsumerDispatch, bridgeVars, brokerVars
<1>12. CASE ConsumerAck
  <2>1. Head(queue) \in Event /\ Tail(queue) \in Seq(Event)
    BY <1>12 DEF ConsumerAck
  <2>2. consumer' \in {"idle", "stopped"}
    BY <1>12 DEF ConsumerAck
  <2>3. queue' \in Seq(Event) /\ acked' \subseteq Event
    BY <1>12, <2>1 DEF ConsumerAck
  <2> QED
    BY <1>12, <2>2, <2>3 DEF ConsumerAck, bridgeVars
<1>13. ASSUME NEW r \in Reaction, ToggleReaction(r) PROVE TypeInv'
  BY <1>13 DEF ToggleReaction, bridgeVars, brokerVars, consumerVars
<1>14. CASE ConnectionLost
  <2>1. consumer' \in {"idle", "act", "stopped"} /\ (consumer' = "act" => consumer = "act")
    BY <1>14 DEF ConnectionLost
  <2>2. connected' = FALSE /\ wire' \in Seq(Event) /\ faults' \in 0..MaxFaults
    BY <1>14 DEF ConnectionLost, Fault
  <2>3. UNCHANGED <<drawn, open, ledger, cursor, bridge, batch, lastId, queue, todo,
                    attempts, acked, enabled, overtaken, unmatched>>
    BY <1>14 DEF ConnectionLost, bridgeVars
  <2>4. lost' \subseteq Event
    <3>1. \A n \in 1..Len(wire) : wire[n] \in Event
      OBVIOUS
    <3>2. InSeq(wire) \subseteq Event
      BY <3>1 DEF InSeq
    <3> QED
      BY <1>14, <3>2 DEF ConnectionLost
  <2> QED
    BY <2>1, <2>2, <2>3, <2>4
<1>15. CASE WorkerCrash
  <2>1. PICK n \in 0..Len(wire) :
          /\ queue' = queue \o SubSeq(wire, 1, n)
          /\ lost' = lost \cup InSeq(SubSeq(wire, n + 1, Len(wire)))
    BY <1>15 DEF WorkerCrash
  <2>2. SubSeq(wire, 1, n) \in Seq(Event)
    OBVIOUS
  <2>3. queue' \in Seq(Event)
    BY <2>1, <2>2
  <2>4. InSeq(SubSeq(wire, n + 1, Len(wire))) \subseteq InSeq(wire)
    BY Suffixed
  <2>5. lost' \subseteq Event
    <3>1. \A m \in 1..Len(wire) : wire[m] \in Event
      OBVIOUS
    <3>2. InSeq(wire) \subseteq Event
      BY <3>1 DEF InSeq
    <3> QED
      BY <2>1, <2>4, <3>2
  <2>6. faults' \in 0..MaxFaults
    BY <1>15 DEF WorkerCrash, Fault
  <2>7. /\ wire' = <<>> /\ connected' = TRUE /\ bridge' = "idle" /\ batch' = {}
        /\ consumer' = "idle" /\ todo' = {}
        /\ UNCHANGED <<drawn, open, ledger, cursor, lastId, attempts, acked, enabled, overtaken,
                       unmatched>>
    BY <1>15 DEF WorkerCrash
  <2> QED
    BY <2>3, <2>5, <2>6, <2>7
<1>16. CASE UNCHANGED vars
  BY <1>16 DEF vars, bridgeVars, brokerVars, consumerVars
<1> QED
  BY <1>1, <1>2, <1>3, <1>4, <1>5, <1>6, <1>7, <1>8, <1>9, <1>10, <1>11, <1>12,
     <1>13, <1>14, <1>15, <1>16 DEF Next, BridgeStep, ConsumerStep

LEMMA TypeInvInit == Init => TypeInv
  BY DEF Init, TypeInv, TypeOK, ActsOnHead, Event

(* Every variable keeps its type, and the consumer acts on no message but  *)
(* the unacked one at the head of its queue, through losses of the         *)
(* connection and restarts of the worker.                                  *)
THEOREM TypeCorrect == Spec => [](TypeOK /\ ActsOnHead)
<1>1. Spec => []TypeInv
  BY TypeInvInit, TypeInvStep, PTL DEF Spec
<1> QED
  BY <1>1, PTL DEF TypeInv

-----------------------------------------------------------------------------
LEMMA FirstOfLower ==
  ASSUME NEW S, IsFiniteSet(S), S \subseteq Nat, NEW k \in Nat,
         NEW e \in FirstOf(S, k), NEW d \in S, d < e
  PROVE  d \in FirstOf(S, k)
<1> DEFINE Below(x) == {c \in S : c < x}
<1>. d \in Nat /\ e \in Nat /\ e \in S
  BY DEF FirstOf
<1>1. Below(d) \subseteq Below(e)
  <2> SUFFICES ASSUME NEW c \in S, c < d PROVE c < e
    OBVIOUS
  <2> QED
    BY c \in Nat
<1>2. IsFiniteSet(Below(e))
  BY FS_Subset
<1>3. Cardinality(Below(d)) <= Cardinality(Below(e))
  BY <1>1, <1>2, FS_Subset
<1>4. IsFiniteSet(Below(d))
  BY <1>1, <1>2, FS_Subset
<1>5. Cardinality(Below(d)) \in Nat /\ Cardinality(Below(e)) \in Nat
  BY <1>2, <1>4, FS_CardinalityType
<1>6. Cardinality(Below(e)) < k
  BY DEF FirstOf
<1> QED
  BY <1>3, <1>5, <1>6 DEF FirstOf

(* A message more, a message less, two queues in a row.                    *)
LEMMA InSeqAppend ==
  ASSUME NEW s \in Seq(Event), NEW e \in Event
  PROVE  InSeq(Append(s, e)) = InSeq(s) \cup {e}
<1> DEFINE t == Append(s, e)
<1>1. Len(t) = Len(s) + 1 /\ t[Len(s) + 1] = e /\ \A n \in 1..Len(s) : t[n] = s[n]
  OBVIOUS
<1>2. \A n \in 1..Len(t) : n = Len(s) + 1 \/ n \in 1..Len(s)
  BY <1>1
<1>3. Len(s) \in Nat
  OBVIOUS
<1> QED
  BY <1>1, <1>2, <1>3 DEF InSeq

LEMMA InSeqTail ==
  ASSUME NEW s \in Seq(Event), s # <<>>
  PROVE  InSeq(s) = {Head(s)} \cup InSeq(Tail(s))
<1> DEFINE t == Tail(s)
<1>1. /\ Len(s) \in Nat \ {0} /\ Len(t) = Len(s) - 1 /\ s[1] = Head(s)
      /\ \A n \in 1..Len(t) : t[n] = s[n + 1]
  OBVIOUS
<1>2. InSeq(s) \subseteq {Head(s)} \cup InSeq(t)
  <2> SUFFICES ASSUME NEW n \in 1..Len(s), s[n] # Head(s) PROVE s[n] \in InSeq(t)
    BY DEF InSeq
  <2>1. n - 1 \in 1..Len(t) /\ t[n - 1] = s[n]
    BY <1>1
  <2> QED
    BY <2>1 DEF InSeq
<1>3. {Head(s)} \cup InSeq(t) \subseteq InSeq(s)
  <2>1. Head(s) \in InSeq(s)
    BY <1>1 DEF InSeq
  <2>2. ASSUME NEW n \in 1..Len(t) PROVE t[n] \in InSeq(s)
    <3>1. n + 1 \in 1..Len(s)
      BY <1>1
    <3> QED
      BY <1>1, <3>1 DEF InSeq
  <2> QED
    BY <2>1, <2>2 DEF InSeq
<1> QED
  BY <1>2, <1>3

(* What a prefix of the wire adds to the queue when a worker dies.         *)
LEMMA Prefixed ==
  ASSUME NEW s \in Seq(Event), NEW w \in Seq(Event), NEW k \in 0..Len(w)
  PROVE  /\ Len(s \o SubSeq(w, 1, k)) = Len(s) + k
         /\ \A n \in 1..Len(s) : (s \o SubSeq(w, 1, k))[n] = s[n]
         /\ \A n \in 1..k : (s \o SubSeq(w, 1, k))[Len(s) + n] = w[n]
<1> DEFINE p == SubSeq(w, 1, k)
<1>1. p \in Seq(Event) /\ Len(p) = k /\ \A n \in 1..k : p[n] = w[n]
  OBVIOUS
<1> QED
  BY <1>1

-----------------------------------------------------------------------------
LEMMA InvInit == Init => Inv
<1> SUFFICES ASSUME Init PROVE Inv
  OBVIOUS
<1>1. Len(wire) = 0 /\ Len(queue) = 0 /\ InSeq(wire) = {} /\ InSeq(queue) = {}
  BY DEF Init, InSeq
<1> QED
  BY <1>1 DEF Init, Inv, OpenIsOvertaken, FromLedger, BatchIsNext, Delivered,
     Passed, OnItsWay, Published, QueueInOrder, WireInOrder, AckedInOrder

LEMMA InvUnread ==
  ASSUME Inv,
         UNCHANGED <<drawn, open, ledger, cursor, bridge, batch, lastId, connected, wire,
                     queue, acked, overtaken, lost>>
  PROVE  Inv'
BY DEF Inv, OpenIsOvertaken, Read, FromLedger, BatchIsNext, Delivered, Passed, Carried, Gone,
   OnItsWay, Published, QueueInOrder, WireInOrder, AckedInOrder, InSeq

(* The new id is later than every one that was read.                       *)
LEMMA InvDraw == TypeOK /\ Inv /\ EmitDraw => Inv'
<1> SUFFICES ASSUME TypeOK, Inv, EmitDraw PROVE Inv'
  OBVIOUS
<1>1. /\ UNCHANGED <<ledger, cursor, bridge, batch, lastId, connected, wire, queue, acked,
                     overtaken, lost>>
      /\ drawn' = drawn + 1 /\ open' = open \cup {drawn + 1}
  BY DEF EmitDraw, bridgeVars, brokerVars, consumerVars, history
<1>2. Read' = Read /\ InSeq(wire)' = InSeq(wire) /\ InSeq(queue)' = InSeq(queue)
  BY <1>1 DEF Read, InSeq
<1>3. OpenIsOvertaken'
  <2>1. \A d \in Read : d \in Nat /\ d <= drawn
    BY DEF Inv, FromLedger, Read, TypeOK
  <2>2. drawn + 1 \notin ledger
    BY DEF TypeOK
  <2>3. \A d \in Read : ~ (drawn + 1 < d)
    BY <2>1 DEF TypeOK
  <2> QED
    BY <1>1, <1>2, <2>2, <2>3 DEF Inv, OpenIsOvertaken
<1> QED
  BY <1>1, <1>2, <1>3 DEF Inv, FromLedger, BatchIsNext, Delivered, Passed, Carried, Gone,
     OnItsWay, Published, QueueInOrder, WireInOrder, AckedInOrder

(* An event that commits behind what was read is overtaken.                *)
LEMMA InvCommit ==
  ASSUME TypeOK, Inv, NEW e \in Event, EmitCommit(e)
  PROVE  Inv'
<1>1. /\ e \in open /\ ledger' = ledger \cup {e} /\ open' = open \ {e}
      /\ UNCHANGED <<drawn, cursor, bridge, batch, lastId, connected, wire, queue, acked,
                     overtaken, lost>>
  BY DEF EmitCommit, bridgeVars, brokerVars, consumerVars, history
<1>2. /\ Read' = Read /\ InSeq(wire)' = InSeq(wire) /\ InSeq(queue)' = InSeq(queue)
      /\ Carried' = Carried /\ Gone' = Gone
  BY <1>1 DEF Read, InSeq, Carried, Gone
<1>3. e \notin ledger /\ e \in Nat /\ e > 0
  BY <1>1 DEF Inv, OpenIsOvertaken, Event
<1>4. \A d \in Read : e < d => e \in overtaken
  BY <1>1 DEF Inv, OpenIsOvertaken
<1>5. cursor \in Read /\ lastId \in Read /\ batch \subseteq Read /\ acked \subseteq Read
  BY DEF Read
<1>6. cursor # e /\ lastId # e /\ e \notin lost
  BY <1>3 DEF Inv, FromLedger
<1>7. e <= cursor \/ e <= lastId => e \in overtaken
  BY <1>3, <1>4, <1>5, <1>6 DEF TypeOK
<1>8. OpenIsOvertaken'
  BY <1>1, <1>2 DEF Inv, OpenIsOvertaken
<1>9. FromLedger'
  BY <1>1, <1>2 DEF Inv, FromLedger
<1>10. BatchIsNext'
  <2>1. \A b \in batch : e < b => e \in overtaken
    BY <1>4, <1>5
  <2> QED
    BY <1>1, <2>1 DEF Inv, BatchIsNext
<1>11. Delivered'
  BY <1>1, <1>2, <1>7 DEF Inv, Delivered, Passed, Gone
<1>12. OnItsWay'
  BY <1>1, <1>2, <1>6, <1>7 DEF Inv, OnItsWay, Published
<1>13. QueueInOrder'
  <2>1. \A n \in 1..Len(queue) : e < queue[n] => e \in Gone
    BY <1>4 DEF Read, InSeq, Gone
  <2> QED
    BY <1>1, <1>2, <2>1 DEF Inv, QueueInOrder
<1>14. WireInOrder'
  <2>1. \A n \in 1..Len(wire) : e < wire[n] => e \in Gone
    BY <1>4 DEF Read, InSeq, Gone
  <2> QED
    BY <1>1, <1>2, <2>1 DEF Inv, WireInOrder
<1>15. AckedInOrder'
  BY <1>1, <1>2, <1>4, <1>5 DEF Inv, AckedInOrder, Gone
<1> QED
  BY <1>8, <1>9, <1>10, <1>11, <1>12, <1>13, <1>14, <1>15 DEF Inv

LEMMA InvFail ==
  ASSUME TypeOK, Inv, NEW e \in Event, EmitFail(e)
  PROVE  Inv'
<1>1. open' = open \ {e}
  BY DEF EmitFail
<1>2. UNCHANGED <<drawn, ledger, cursor, bridge, batch, lastId, connected, wire, queue, acked,
                  overtaken, lost>>
  BY DEF EmitFail, bridgeVars, brokerVars, consumerVars, history
<1> QED
  BY <1>1, <1>2 DEF Inv, OpenIsOvertaken, Read, FromLedger, BatchIsNext, Delivered, Passed,
     Carried, Gone, OnItsWay, Published, QueueInOrder, WireInOrder, AckedInOrder, InSeq

(* The poll overtakes the INSERTs that are open below what it reads.       *)
LEMMA InvPoll == TypeOK /\ Inv /\ BridgePoll => Inv'
<1> SUFFICES ASSUME TypeOK, Inv, BridgePoll PROVE Inv'
  OBVIOUS
<1>1. /\ bridge' = "publish" /\ batch' = FirstOf(Unread, BatchSize) /\ lastId' = cursor
      /\ overtaken' = overtaken \cup {e \in open : \E d \in batch' : e < d}
      /\ UNCHANGED <<drawn, open, ledger, cursor, connected, wire, queue, acked, lost>>
  BY DEF BridgePoll, brokerVars, consumerVars
<1>2. Unread \subseteq Nat /\ IsFiniteSet(Unread)
  <2>1. IsFiniteSet(1..drawn)
    BY FS_Interval DEF TypeOK
  <2>2. Unread \subseteq 1..drawn
    BY DEF Unread, TypeOK
  <2>3. IsFiniteSet(Unread)
    BY <2>1, <2>2, FS_Subset
  <2> QED
    BY <2>2, <2>3
<1>3. batch' \subseteq Unread
  BY <1>1 DEF FirstOf
<1>4. /\ overtaken \subseteq overtaken' /\ Gone \subseteq Gone' /\ Carried' = Carried
      /\ InSeq(wire)' = InSeq(wire) /\ InSeq(queue)' = InSeq(queue)
  BY <1>1 DEF Gone, Carried, InSeq
<1>5. OpenIsOvertaken'
  <2>1. Read' \subseteq Read \cup batch'
    BY <1>1, <1>4 DEF Read
  <2> QED
    BY <1>1, <2>1 DEF Inv, OpenIsOvertaken
<1>6. BatchIsNext'
  <2>1. ASSUME NEW e \in batch', NEW d \in ledger, cursor < d, d < e PROVE d \in batch'
    <3>1. d \in Unread
      BY <2>1 DEF Unread
    <3> QED
      BY <1>1, <1>2, <2>1, <3>1, FirstOfLower
  <2>2. \A e \in batch' : e > cursor
    BY <1>3 DEF Unread
  <2>3. lost \subseteq ledger
    BY DEF Inv, FromLedger
  <2> QED
    BY <1>1, <2>1, <2>2, <2>3 DEF BatchIsNext, TypeOK
<1>7. FromLedger'
  BY <1>1, <1>3, <1>4 DEF Inv, FromLedger, Unread
<1>8. Published' = {}
  <2>1. \A e \in ledger : ~ (cursor < e /\ e <= cursor)
    BY DEF TypeOK
  <2> QED
    BY <1>1, <2>1 DEF Published
<1>9. Delivered' /\ OnItsWay'
  BY <1>1, <1>4, <1>8 DEF Inv, Delivered, OnItsWay, Passed
<1>10. QueueInOrder' /\ WireInOrder' /\ AckedInOrder'
  BY <1>1, <1>4 DEF Inv, QueueInOrder, WireInOrder, AckedInOrder
<1> QED
  BY <1>5, <1>6, <1>7, <1>9, <1>10 DEF Inv

(* The next row: every earlier one is carried, or will not be read again.  *)
LEMMA PublishInOrder ==
  ASSUME TypeOK, Inv, connected, bridge = "publish",
         NEW e \in batch, \A d \in batch : e <= d, NEW d \in ledger, d < e
  PROVE  d \in Carried \cup Gone
<1>1. e \in Nat /\ d \in Nat /\ lastId \in Nat /\ cursor \in Nat
  BY DEF TypeOK
<1>2. CASE d <= cursor
  BY <1>2 DEF Inv, Delivered, Passed
<1>3. CASE cursor < d /\ d <= lastId
  <2>1. d \in Published
    BY <1>3 DEF Published
  <2> QED
    BY <2>1 DEF Inv, OnItsWay, Gone
<1>4. CASE lastId < d
  <2>1. d \notin batch
    BY <1>1
  <2> QED
    BY <1>4, <2>1 DEF Inv, BatchIsNext, Gone
<1> QED
  BY <1>1, <1>2, <1>3, <1>4

LEMMA InvPublish == TypeOK /\ Inv /\ BridgePublish => Inv'
<1> SUFFICES ASSUME TypeOK, Inv, BridgePublish PROVE Inv'
  OBVIOUS
<1>1. /\ UNCHANGED <<drawn, open, ledger, cursor, connected, queue, acked, overtaken>>
      /\ bridge = "publish" /\ cursor <= lastId
  BY DEF BridgePublish, consumerVars, Inv, BatchIsNext
<1>2. CASE connected
  <2>1. PICK e \in batch :
          /\ \A d \in batch : e <= d
          /\ wire' = Append(wire, e) /\ batch' = batch \ {e} /\ lastId' = e /\ bridge' = bridge
          /\ lost' = lost \ {e}
    BY <1>2 DEF BridgePublish
  <2>3. e \in ledger /\ e \in Event /\ e > lastId /\ e > cursor
    BY <1>1 DEF Inv, FromLedger, BatchIsNext, TypeOK, Event
  <2>4. /\ Len(wire') = Len(wire) + 1 /\ wire'[Len(wire) + 1] = e
        /\ \A n \in 1..Len(wire) : wire'[n] = wire[n]
        /\ \A n \in 1..Len(wire') : n \in 1..Len(wire) \/ n = Len(wire) + 1
        /\ Len(wire) \in Nat
    BY <2>1, <2>3 DEF TypeOK
  <2>5. /\ InSeq(wire') = InSeq(wire) \cup {e} /\ InSeq(queue)' = InSeq(queue)
        /\ Carried' = Carried \cup {e}
    <3>1. InSeq(wire') = InSeq(wire) \cup {e}
      BY <2>1, <2>3, InSeqAppend DEF TypeOK
    <3> QED
      BY <1>1, <3>1 DEF Carried, InSeq
  <2>6. Gone' = Gone
    BY <1>1, <2>1, <2>3 DEF Gone, TypeOK
  <2>7. \A d \in ledger : d < e => d \in Carried \cup Gone
    BY <1>1, <1>2, <2>1, PublishInOrder
  <2>8. FromLedger'
    BY <1>1, <2>1, <2>3, <2>5 DEF Inv, FromLedger
  <2>9. BatchIsNext'
    <3>1. \A d \in batch' : d > lastId'
      BY <2>1, <2>3 DEF TypeOK
    <3>2. ASSUME NEW b \in batch', NEW d \in ledger, e < d, d < b
          PROVE  d \in batch' \cup overtaken
      <4>1. lastId < d /\ d # e
        BY <2>3, <3>2 DEF TypeOK
      <4> QED
        BY <2>1, <3>2, <4>1 DEF Inv, BatchIsNext
    <3>3. cursor' <= lastId' /\ bridge' # "idle"
      BY <1>1, <2>1, <2>3 DEF TypeOK
    <3>4. ASSUME NEW b \in batch', NEW d \in lost', e < d, d < b PROVE d \in batch'
      <4>1. lastId < d /\ d # e /\ d \in lost
        BY <2>1, <2>3, <3>4 DEF TypeOK, Event
      <4> QED
        BY <1>2, <2>1, <3>4, <4>1 DEF Inv, BatchIsNext
    <3> QED
      BY <1>1, <2>1, <3>1, <3>2, <3>3, <3>4 DEF BatchIsNext
  <2>10. OpenIsOvertaken'
    <3>1. Read' \subseteq Read
      BY <1>1, <2>1, <2>5 DEF Read
    <3> QED
      BY <1>1, <3>1 DEF Inv, OpenIsOvertaken
  <2>11. Delivered'
    BY <1>1, <2>5, <2>6 DEF Inv, Delivered, Passed
  <2>12. OnItsWay'
    <3> SUFFICES ASSUME NEW d \in ledger, cursor < d, d <= e
                 PROVE  d \in Carried' \cup overtaken /\ d \notin lost'
      BY <1>1, <2>1 DEF OnItsWay, Published
    <3>1. CASE d = e
      BY <2>1, <2>5, <3>1
    <3>2. CASE d # e
      <4>1. d < e /\ d \notin {x \in lost : x <= cursor}
        BY <2>3, <3>2 DEF TypeOK, Event
      <4>2. d \in Carried \cup overtaken
        BY <2>7, <4>1 DEF Gone
      <4>3. d \notin lost
        <5>1. CASE d <= lastId
          BY <1>1, <1>2, <5>1 DEF Inv, OnItsWay, Published
        <5>2. CASE ~ (d <= lastId)
          <6>1. lastId < d
            BY <5>2 DEF TypeOK
          <6>2. d \notin batch
            BY <2>1, <4>1 DEF TypeOK
          <6> QED
            BY <1>2, <4>1, <6>1, <6>2 DEF Inv, BatchIsNext
        <5> QED
          BY <5>1, <5>2
      <4> QED
        BY <2>1, <2>5, <4>2, <4>3
    <3> QED
      BY <3>1, <3>2
  <2>13. WireInOrder'
    <3> SUFFICES ASSUME NEW n \in 1..Len(wire'), NEW d \in ledger, d < wire'[n],
                        d \notin acked \cup Gone \cup InSeq(queue)
                 PROVE  \E m \in 1..Len(wire') : m < n /\ wire'[m] = d
      BY <1>1, <2>5, <2>6 DEF WireInOrder
    <3>1. CASE n \in 1..Len(wire)
      <4>1. PICK m \in 1..Len(wire) : m < n /\ wire[m] = d
        BY <2>4, <3>1 DEF Inv, WireInOrder
      <4> QED
        BY <2>4, <4>1
    <3>2. CASE n = Len(wire) + 1
      <4>1. d \in InSeq(wire)
        BY <2>4, <2>7, <3>2 DEF Carried
      <4>2. PICK m \in 1..Len(wire) : wire[m] = d
        BY <4>1 DEF InSeq
      <4> QED
        BY <2>4, <3>2, <4>2
    <3> QED
      BY <2>4, <3>1, <3>2
  <2>14. QueueInOrder' /\ AckedInOrder'
    BY <1>1, <2>6 DEF Inv, QueueInOrder, AckedInOrder
  <2> QED
    BY <2>8, <2>9, <2>10, <2>11, <2>12, <2>13, <2>14 DEF Inv
<1>3. CASE ~ connected
  <2>1. bridge' = "idle" /\ batch' = {} /\ UNCHANGED <<wire, lastId, lost>>
    BY <1>3 DEF BridgePublish
  <2> QED
    BY <1>1, <2>1 DEF Inv, OpenIsOvertaken, Read, FromLedger, BatchIsNext, Delivered,
       Passed, Carried, Gone, OnItsWay, Published, QueueInOrder, WireInOrder, AckedInOrder, InSeq
<1> QED
  BY <1>2, <1>3

(* The cursor passes what is carried, what was overtaken and what was lost.*)
LEMMA InvAdvance == TypeOK /\ Inv /\ BridgeAdvance => Inv'
<1> SUFFICES ASSUME TypeOK, Inv, BridgeAdvance PROVE Inv'
  OBVIOUS
<1>1. /\ bridge = "publish" /\ cursor' = lastId /\ bridge' = "idle" /\ batch = {}
      /\ UNCHANGED <<drawn, open, ledger, batch, lastId, connected, wire, queue, acked,
                     overtaken, lost>>
  BY DEF BridgeAdvance, brokerVars, consumerVars, history
<1>2. cursor <= lastId
  BY <1>1 DEF Inv, BatchIsNext
<1>3. /\ Carried' = Carried /\ InSeq(wire)' = InSeq(wire) /\ InSeq(queue)' = InSeq(queue)
      /\ Read' \subseteq Read
  BY <1>1 DEF Carried, InSeq, Read
<1>4. Gone \subseteq Gone'
  <2>1. \A d \in lost : d <= cursor => d <= lastId
    BY <1>2 DEF TypeOK, Event
  <2> QED
    BY <1>1, <2>1 DEF Gone
<1>5. Delivered'
  <2> SUFFICES ASSUME NEW e \in ledger, e <= lastId PROVE e \in Carried \cup Gone'
    BY <1>1, <1>3 DEF Delivered, Passed
  <2>1. CASE e <= cursor
    BY <1>4, <2>1 DEF Inv, Delivered, Passed
  <2>2. CASE ~ (e <= cursor)
    <3>1. e \in Published
      BY <2>2 DEF Published, TypeOK
    <3>2. e \in Carried \cup overtaken \cup lost
      BY <1>1, <3>1 DEF Inv, OnItsWay
    <3> QED
      BY <1>1, <3>2 DEF Gone
  <2> QED
    BY <2>1, <2>2
<1>6. FromLedger' /\ BatchIsNext' /\ OnItsWay'
  BY <1>1, <1>3 DEF Inv, FromLedger, BatchIsNext, OnItsWay
<1>7. OpenIsOvertaken'
  BY <1>1, <1>3 DEF Inv, OpenIsOvertaken
<1>8. QueueInOrder' /\ WireInOrder' /\ AckedInOrder'
  BY <1>1, <1>3, <1>4 DEF Inv, QueueInOrder, WireInOrder, AckedInOrder
<1> QED
  BY <1>5, <1>6, <1>7, <1>8 DEF Inv

LEMMA InvAdvanceFail == Inv /\ BridgeAdvanceFail => Inv'
<1> SUFFICES ASSUME Inv, BridgeAdvanceFail PROVE Inv'
  OBVIOUS
<1>1. /\ bridge' = "idle" /\ batch = {}
      /\ UNCHANGED <<drawn, open, ledger, cursor, batch, lastId, connected, wire, queue, acked,
                     overtaken, lost>>
  BY DEF BridgeAdvanceFail, brokerVars, consumerVars, history
<1> QED
  BY <1>1 DEF Inv, OpenIsOvertaken, Read, FromLedger, BatchIsNext, Delivered, Passed, Carried,
     Gone, OnItsWay, Published, QueueInOrder, WireInOrder, AckedInOrder, InSeq

LEMMA InvAccept == TypeOK /\ Inv /\ BrokerAccept => Inv'
<1> SUFFICES ASSUME TypeOK, Inv, BrokerAccept PROVE Inv'
  OBVIOUS
<1> DEFINE e == Head(wire)
<1>1. /\ wire # <<>> /\ queue' = Append(queue, e) /\ wire' = Tail(wire)
      /\ UNCHANGED <<drawn, open, ledger, cursor, bridge, batch, lastId, connected, acked,
                     overtaken, lost>>
  BY DEF BrokerAccept, bridgeVars, consumerVars, history
<1>2. /\ Len(wire) \in Nat \ {0} /\ e = wire[1] /\ e \in Event
      /\ Len(wire') = Len(wire) - 1 /\ \A n \in 1..Len(wire') : wire'[n] = wire[n + 1]
  BY <1>1 DEF TypeOK
<1>3. /\ Len(queue) \in Nat /\ Len(queue') = Len(queue) + 1 /\ queue'[Len(queue) + 1] = e
      /\ \A n \in 1..Len(queue) : queue'[n] = queue[n]
      /\ \A n \in 1..Len(queue') : n \in 1..Len(queue) \/ n = Len(queue) + 1
  BY <1>1, <1>2 DEF TypeOK
<1>4. InSeq(queue') = InSeq(queue) \cup {e} /\ InSeq(wire) = {e} \cup InSeq(wire')
  BY <1>1, <1>2, InSeqAppend, InSeqTail DEF TypeOK
<1>5. \A n \in 1..Len(wire') : n + 1 \in 1..Len(wire)
  BY <1>2
<1>6. Carried' = Carried /\ Read' = Read /\ Gone' = Gone
  BY <1>1, <1>4 DEF Carried, Read, Gone
<1>7. FromLedger' /\ Delivered' /\ OnItsWay'
  BY <1>1, <1>4, <1>6 DEF Inv, FromLedger, Delivered, Passed, OnItsWay, Published
<1>8. QueueInOrder'
  <2> SUFFICES ASSUME NEW n \in 1..Len(queue'), NEW d \in ledger, d < queue'[n],
                      d \notin acked \cup Gone
               PROVE  \E m \in 1..Len(queue') : m < n /\ queue'[m] = d
    BY <1>1, <1>6 DEF QueueInOrder
  <2>1. CASE n \in 1..Len(queue)
    <3>1. PICK m \in 1..Len(queue) : m < n /\ queue[m] = d
      BY <1>3, <2>1 DEF Inv, QueueInOrder
    <3> QED
      BY <1>3, <3>1
  <2>2. CASE n = Len(queue) + 1
    <3>1. 1 \in 1..Len(wire) /\ \A m \in 1..Len(wire) : ~ (m < 1)
      BY <1>2
    <3>2. d \in InSeq(queue)
      BY <1>2, <1>3, <2>2, <3>1 DEF Inv, WireInOrder
    <3>3. PICK m \in 1..Len(queue) : queue[m] = d
      BY <3>2 DEF InSeq
    <3> QED
      BY <1>3, <2>2, <3>3
  <2> QED
    BY <1>3, <2>1, <2>2
<1>9. WireInOrder'
  <2> SUFFICES ASSUME NEW n \in 1..Len(wire'), NEW d \in ledger, d < wire'[n],
                      d \notin acked \cup Gone \cup InSeq(queue')
               PROVE  \E m \in 1..Len(wire') : m < n /\ wire'[m] = d
    BY <1>1, <1>6 DEF WireInOrder
  <2>1. PICK m \in 1..Len(wire) : m < n + 1 /\ wire[m] = d
    BY <1>2, <1>4, <1>5 DEF Inv, WireInOrder
  <2>2. m # 1
    BY <1>2, <1>4, <2>1
  <2>3. m - 1 \in 1..Len(wire') /\ m - 1 < n
    BY <1>2, <2>1, <2>2
  <2>4. wire'[m - 1] = d
    BY <1>2, <2>1, <2>3
  <2> QED
    BY <2>3, <2>4
<1>10. OpenIsOvertaken' /\ BatchIsNext' /\ AckedInOrder'
  BY <1>1, <1>6 DEF Inv, OpenIsOvertaken, BatchIsNext, AckedInOrder
<1> QED
  BY <1>7, <1>8, <1>9, <1>10 DEF Inv

(* Everything before the head of the queue is acked, or will not come.     *)
LEMMA InvAck == TypeOK /\ ActsOnHead /\ Inv /\ ConsumerAck => Inv'
<1> SUFFICES ASSUME TypeOK, ActsOnHead, Inv, ConsumerAck PROVE Inv'
  OBVIOUS
<1> DEFINE e == Head(queue)
<1>1. UNCHANGED <<drawn, open, ledger, cursor, bridge, batch, lastId, connected, wire,
                  overtaken, lost>>
  BY DEF ConsumerAck, bridgeVars, history
<1>2. CASE ~ connected
  BY <1>1, <1>2, InvUnread DEF ConsumerAck
<1>3. CASE connected
  <2>1. queue' = Tail(queue) /\ acked' = acked \cup {e} /\ queue # <<>>
    BY <1>3 DEF ConsumerAck, ActsOnHead
  <2>2. /\ Len(queue) \in Nat \ {0} /\ e = queue[1]
        /\ Len(queue') = Len(queue) - 1 /\ \A n \in 1..Len(queue') : queue'[n] = queue[n + 1]
    BY <2>1 DEF TypeOK
  <2>3. InSeq(queue) = {e} \cup InSeq(queue') /\ InSeq(wire)' = InSeq(wire)
    BY <1>1, <2>1, InSeqTail DEF TypeOK, InSeq
  <2>4. 1 \in 1..Len(queue) /\ \A n \in 1..Len(queue') : n + 1 \in 1..Len(queue)
    BY <2>2
  <2>5. Carried' = Carried /\ Read' = Read /\ Gone' = Gone
    BY <1>1, <2>1, <2>3 DEF Carried, Read, Gone
  <2>6. FromLedger' /\ Delivered' /\ OnItsWay'
    BY <1>1, <2>1, <2>3, <2>5 DEF Inv, FromLedger, Delivered, Passed, OnItsWay, Published
  <2>7. QueueInOrder'
    <3> SUFFICES ASSUME NEW n \in 1..Len(queue'), NEW d \in ledger, d < queue'[n],
                        d \notin acked' \cup Gone
                 PROVE  \E m \in 1..Len(queue') : m < n /\ queue'[m] = d
      BY <1>1, <2>5 DEF QueueInOrder
    <3>1. PICK m \in 1..Len(queue) : m < n + 1 /\ queue[m] = d
      BY <2>1, <2>2, <2>4 DEF Inv, QueueInOrder
    <3>2. m # 1
      BY <2>1, <2>2, <3>1
    <3>3. m - 1 \in 1..Len(queue') /\ m - 1 < n
      BY <2>2, <3>1, <3>2
    <3>4. queue'[m - 1] = d
      BY <2>2, <3>1, <3>3
    <3> QED
      BY <3>3, <3>4
  <2>8. WireInOrder'
    BY <1>1, <2>1, <2>3, <2>5 DEF Inv, WireInOrder
  <2>9. AckedInOrder'
    <3>1. \A d \in ledger : d < e => d \in acked \cup Gone
      BY <2>2, <2>4 DEF Inv, QueueInOrder
    <3> QED
      BY <1>1, <2>1, <2>5, <3>1 DEF Inv, AckedInOrder
  <2>10. OpenIsOvertaken' /\ BatchIsNext'
    BY <1>1, <2>5 DEF Inv, OpenIsOvertaken, BatchIsNext
  <2> QED
    BY <2>6, <2>7, <2>8, <2>9, <2>10 DEF Inv
<1> QED
  BY <1>2, <1>3

(* What the wire loses is lost.                                            *)
LEMMA InvLost == TypeOK /\ Inv /\ ConnectionLost => Inv'
<1> SUFFICES ASSUME TypeOK, Inv, ConnectionLost PROVE Inv'
  OBVIOUS
<1>1. /\ connected' = FALSE /\ wire' = <<>> /\ lost' = lost \cup InSeq(wire)
      /\ UNCHANGED <<drawn, open, ledger, cursor, bridge, batch, lastId, queue, acked, overtaken>>
  BY DEF ConnectionLost, bridgeVars
<1>2. Len(wire') = 0 /\ InSeq(wire') = {} /\ InSeq(queue)' = InSeq(queue)
  BY <1>1 DEF InSeq
<1>3. Read' \subseteq Read /\ Gone \subseteq Gone' /\ Carried \subseteq Carried' \cup lost'
  BY <1>1, <1>2 DEF Read, Gone, Carried
<1>4. OpenIsOvertaken' /\ BatchIsNext'
  BY <1>1, <1>3 DEF Inv, OpenIsOvertaken, BatchIsNext
<1>5. FromLedger'
  BY <1>1, <1>2 DEF Inv, FromLedger
<1>6. OnItsWay'
  BY <1>1, <1>3 DEF Inv, OnItsWay, Published
<1>7. Delivered'
  BY <1>1, <1>3 DEF Inv, Delivered, Passed, Gone
<1>8. QueueInOrder' /\ WireInOrder' /\ AckedInOrder'
  BY <1>1, <1>2, <1>3 DEF Inv, QueueInOrder, WireInOrder, AckedInOrder
<1> QED
  BY <1>4, <1>5, <1>6, <1>7, <1>8 DEF Inv

LEMMA InvCrash == TypeOK /\ Inv /\ WorkerCrash => Inv'
<1> SUFFICES ASSUME TypeOK, Inv, WorkerCrash PROVE Inv'
  OBVIOUS
<1>1. /\ wire' = <<>> /\ bridge' = "idle" /\ batch' = {}
      /\ UNCHANGED <<drawn, open, ledger, cursor, lastId, acked, overtaken>>
  BY DEF WorkerCrash
<1>2. PICK k \in 0..Len(wire) :
        /\ queue' = queue \o SubSeq(wire, 1, k)
        /\ lost' = lost \cup InSeq(SubSeq(wire, k + 1, Len(wire)))
  BY DEF WorkerCrash
<1>3. /\ Len(queue') = Len(queue) + k
      /\ \A n \in 1..Len(queue) : queue'[n] = queue[n]
      /\ \A n \in 1..k : queue'[Len(queue) + n] = wire[n]
      /\ InSeq(queue) \subseteq InSeq(queue')
  <2>1. /\ queue \in Seq(Event) /\ wire \in Seq(Event)
        /\ \A n \in 1..Len(queue) : n \in 1..(Len(queue) + k)
    BY DEF TypeOK
  <2>2. /\ Len(queue') = Len(queue) + k
        /\ \A n \in 1..Len(queue) : queue'[n] = queue[n]
        /\ \A n \in 1..k : queue'[Len(queue) + n] = wire[n]
    BY <1>2, <2>1, Prefixed
  <2> QED
    BY <2>1, <2>2 DEF InSeq
<1>4. k \in Nat /\ Len(queue) \in Nat /\ \A n \in 1..k : n \in 1..Len(wire)
  BY DEF TypeOK
<1>5. \A n \in 1..Len(queue') : n \in 1..Len(queue) \/ \E m \in 1..k : n = Len(queue) + m
  <2> SUFFICES ASSUME NEW n \in 1..Len(queue'), n \notin 1..Len(queue)
               PROVE  \E m \in 1..k : n = Len(queue) + m
    OBVIOUS
  <2>1. n - Len(queue) \in 1..k /\ n = Len(queue) + (n - Len(queue))
    BY <1>3, <1>4
  <2> QED
    BY <2>1
<1>6. Len(wire') = 0 /\ InSeq(wire') = {}
  BY <1>1 DEF InSeq
<1>7. InSeq(queue') \subseteq InSeq(queue) \cup InSeq(wire)
  <2>1. \A n \in 1..k : queue'[Len(queue) + n] \in InSeq(wire)
    BY <1>3, <1>4 DEF InSeq
  <2>2. \A n \in 1..Len(queue) : queue'[n] \in InSeq(queue)
    BY <1>3 DEF InSeq
  <2>3. \A n \in 1..Len(queue') : queue'[n] \in InSeq(queue) \cup InSeq(wire)
    BY <1>5, <2>1, <2>2
  <2> QED
    BY <2>3 DEF InSeq
<1>8. InSeq(SubSeq(wire, k + 1, Len(wire))) \subseteq InSeq(wire)
  BY <1>4, Suffixed DEF TypeOK
<1>9. InSeq(wire) \subseteq InSeq(queue') \cup InSeq(SubSeq(wire, k + 1, Len(wire)))
  <2> SUFFICES ASSUME NEW n \in 1..Len(wire)
               PROVE  wire[n] \in InSeq(queue') \cup InSeq(SubSeq(wire, k + 1, Len(wire)))
    BY DEF InSeq
  <2>1. CASE n \in 1..k
    <3>1. Len(queue) + n \in 1..Len(queue')
      BY <1>3, <1>4, <2>1
    <3> QED
      BY <1>3, <2>1, <3>1 DEF InSeq
  <2>2. CASE n \notin 1..k
    <3>1. n > k
      BY <1>4, <2>2
    <3> QED
      BY <3>1, Suffixed DEF TypeOK
  <2> QED
    BY <2>1, <2>2
<1>10. /\ Read' \subseteq Read /\ lost \subseteq lost' /\ Gone \subseteq Gone'
       /\ Carried \subseteq Carried' \cup lost'
  BY <1>1, <1>2, <1>3, <1>6, <1>7, <1>9 DEF Read, Gone, Carried
<1>11. OpenIsOvertaken'
  BY <1>1, <1>10 DEF Inv, OpenIsOvertaken
<1>12. FromLedger'
  BY <1>1, <1>2, <1>6, <1>7, <1>8 DEF Inv, FromLedger
<1>13. Delivered'
  BY <1>1, <1>10 DEF Inv, Delivered, Passed, Gone
<1>14. QueueInOrder'
  <2> SUFFICES ASSUME NEW n \in 1..Len(queue'), NEW d \in ledger, d < queue'[n],
                      d \notin acked \cup Gone
               PROVE  \E m \in 1..Len(queue') : m < n /\ queue'[m] = d
    BY <1>1, <1>10 DEF QueueInOrder
  <2>1. \A m \in 1..Len(queue) : m \in 1..Len(queue')
    BY <1>3, <1>4
  <2>2. CASE n \in 1..Len(queue)
    <3>1. PICK m \in 1..Len(queue) : m < n /\ queue[m] = d
      BY <1>3, <2>2 DEF Inv, QueueInOrder
    <3> QED
      BY <1>3, <2>1, <3>1
  <2>3. ASSUME NEW i \in 1..k, n = Len(queue) + i
        PROVE  \E m \in 1..Len(queue') : m < n /\ queue'[m] = d
    <3>1. d < wire[i] /\ i \in 1..Len(wire)
      BY <1>3, <1>4, <2>3
    <3>2. CASE d \in InSeq(queue)
      <4>1. PICK m \in 1..Len(queue) : queue[m] = d
        BY <3>2 DEF InSeq
      <4>2. m < n
        BY <1>4, <2>3
      <4> QED
        BY <1>3, <2>1, <4>1, <4>2
    <3>3. CASE d \notin InSeq(queue)
      <4>1. PICK m \in 1..Len(wire) : m < i /\ wire[m] = d
        BY <3>1, <3>3 DEF Inv, WireInOrder
      <4>2. m \in 1..k /\ Len(queue) + m \in 1..Len(queue') /\ Len(queue) + m < n
        BY <1>3, <1>4, <2>3, <4>1
      <4>3. queue'[Len(queue) + m] = d
        BY <1>3, <4>1, <4>2
      <4> QED
        BY <4>2, <4>3
    <3> QED
      BY <3>2, <3>3
  <2> QED
    BY <1>5, <2>2, <2>3
<1>15. WireInOrder'
  BY <1>6 DEF WireInOrder
<1>16. BatchIsNext' /\ OnItsWay'
  BY <1>1 DEF BatchIsNext, OnItsWay
<1>17. AckedInOrder'
  BY <1>1, <1>10 DEF Inv, AckedInOrder
<1> QED
  BY <1>11, <1>12, <1>13, <1>14, <1>15, <1>16, <1>17 DEF Inv

LEMMA InvStep == TypeInv /\ Inv /\ [Next]_vars => Inv'
<1> SUFFICES ASSUME TypeOK, ActsOnHead, Inv, [Next]_vars PROVE Inv'
  BY DEF TypeInv
<1>1. CASE EmitDraw
  BY <1>1, InvDraw
<1>2. ASSUME NEW e \in Event, EmitCommit(e) PROVE Inv'
  BY <1>2, InvCommit
<1>3. ASSUME NEW e \in Event, EmitFail(e) PROVE Inv'
  BY <1>3, InvFail
<1>4. CASE BridgePoll
  BY <1>4, InvPoll
<1>5. CASE BridgePublish
  BY <1>5, InvPublish
<1>6. CASE BridgeAdvance
  BY <1>6, InvAdvance
<1>7. CASE BridgeAdvanceFail
  BY <1>7, InvAdvanceFail
<1>8. CASE BrokerAccept
  BY <1>8, InvAccept
<1>9. CASE ConsumerMatch \/ ConsumerMatchFail \/ \E r \in Reaction : ConsumerDispatch(r)
  BY <1>9, InvUnread
     DEF ConsumerMatch, ConsumerMatchFail, ConsumerDispatch, bridgeVars, brokerVars, history
<1>10. CASE ConsumerAck
  BY <1>10, InvAck
<1>11. ASSUME NEW r \in Reaction, ToggleReaction(r) PROVE Inv'
  BY <1>11, InvUnread DEF ToggleReaction, bridgeVars, brokerVars, consumerVars, history
<1>12. CASE ConnectionLost
  BY <1>12, InvLost
<1>13. CASE WorkerCrash
  BY <1>13, InvCrash
<1>14. CASE UNCHANGED vars
  BY <1>14, InvUnread DEF vars, bridgeVars, brokerVars, consumerVars, history
<1> QED
  BY <1>1, <1>2, <1>3, <1>4, <1>5, <1>6, <1>7, <1>8, <1>9, <1>10, <1>11, <1>12, <1>13, <1>14
     DEF Next, BridgeStep, ConsumerStep

LEMMA InvAlways == Spec => []Inv
<1>1. Spec => []TypeInv
  BY TypeInvInit, TypeInvStep, PTL DEF Spec
<1>2. Init => Inv
  BY InvInit
<1>3. TypeInv /\ Inv /\ [Next]_vars => Inv'
  BY InvStep
<1> QED
  BY <1>1, <1>2, <1>3, PTL DEF Spec

(* Bridge to broker: an event that the cursor has passed is on the wire, in*)
(* the queue or acked, but for those whose INSERT committed behind a later *)
(* id that was read, and those lost with the wire and not published again. *)
THEOREM NothingElseSkipped == Spec => []SkippedForCause
<1>1. Inv => SkippedForCause
  BY DEF Inv, Delivered, Passed, Carried, Gone, SkippedForCause, Skipped
<1> QED
  BY <1>1, InvAlways, PTL

(* Reactions see events in their order: an event is acked for the first    *)
(* time after every earlier event of the ledger that was not overtaken and *)
(* is not lost, whatever is repeated.                                      *)
THEOREM HandledInOrder == Spec => []FirstHandlingInOrder
<1>1. Inv => FirstHandlingInOrder
  BY DEF Inv, AckedInOrder, Gone, FirstHandlingInOrder
<1> QED
  BY <1>1, InvAlways, PTL

-----------------------------------------------------------------------------
(* How often a reaction can still be dispatched for an event: once for     *)
(* each copy in queue and wire, once if the bridge will read the event     *)
(* (again), and never for a message of which it was dispatched already,    *)
(* unless that message loses its ack.  A fault adds two: the event is read *)
(* again, and the message at the head is not acked.                        *)
Places(s, e) == {n \in 1..Len(s) : s[n] = e}
Copies(s, e) == Cardinality(Places(s, e))

Acting(e)  == consumer = "act" /\ Head(queue) = e
ToRead(e)  == IF e > (IF bridge = "publish" /\ connected THEN lastId ELSE cursor) THEN 1 ELSE 0
Unacked(e, r) == IF Acting(e) /\ ~ connected /\ r \in todo THEN 1 ELSE 0
Done(e, r) == IF Acting(e) /\ connected /\ r \notin todo THEN 1 ELSE 0

DispatchesPaid(e, r) ==
  attempts[<<e, r>>] + Copies(queue, e) + Copies(wire, e) + ToRead(e) + Unacked(e, r)
    <= 1 + 2 * faults + Done(e, r)

BatchAhead ==
  /\ bridge = "idle" => batch = {}
  /\ bridge = "publish" => cursor <= lastId
  /\ \A e \in batch : e > lastId

RepeatInv ==
  TypeInv /\ BatchAhead /\ \A e \in Event : \A r \in Reaction : DispatchesPaid(e, r)

LEMMA CopiesType ==
  ASSUME NEW s \in Seq(Event), NEW e
  PROVE  IsFiniteSet(Places(s, e)) /\ Copies(s, e) \in Nat
<1>1. IsFiniteSet(1..Len(s))
  BY FS_Interval
<1>2. Places(s, e) \subseteq 1..Len(s)
  BY DEF Places
<1>3. IsFiniteSet(Places(s, e))
  BY <1>1, <1>2, FS_Subset
<1> QED
  BY <1>3, FS_CardinalityType DEF Copies

LEMMA CopiesEmpty == \A e : Copies(<<>>, e) = 0
  BY FS_EmptySet DEF Copies, Places

LEMMA CopiesAppend ==
  ASSUME NEW s \in Seq(Event), NEW x \in Event, NEW e
  PROVE  Copies(Append(s, x), e) = Copies(s, e) + (IF x = e THEN 1 ELSE 0)
<1> DEFINE t == Append(s, x)
<1>1. Len(t) = Len(s) + 1 /\ t[Len(s) + 1] = x /\ \A n \in 1..Len(s) : t[n] = s[n]
  OBVIOUS
<1>2. /\ \A n \in 1..Len(t) : n = Len(s) + 1 \/ n \in 1..Len(s)
      /\ Len(s) + 1 \notin 1..Len(s) /\ Len(s) + 1 \in 1..Len(t)
      /\ \A n \in 1..Len(s) : n \in 1..Len(t)
  BY <1>1
<1> HIDE DEF t
<1>3. CASE x = e
  <2>1. Places(t, e) = Places(s, e) \cup {Len(s) + 1} /\ Len(s) + 1 \notin Places(s, e)
    BY <1>1, <1>2, <1>3 DEF Places
  <2>2. Cardinality(Places(t, e)) = Cardinality(Places(s, e)) + 1
    BY <2>1, CopiesType, FS_AddElement
  <2> QED
    BY <1>3, <2>2 DEF Copies, t
<1>4. CASE x # e
  <2>1. Places(t, e) = Places(s, e)
    BY <1>1, <1>2, <1>4 DEF Places
  <2> QED
    BY <1>4, <2>1, CopiesType DEF Copies, t
<1> QED
  BY <1>3, <1>4

LEMMA CopiesTail ==
  ASSUME NEW s \in Seq(Event), s # <<>>, NEW e
  PROVE  Copies(Tail(s), e) + (IF Head(s) = e THEN 1 ELSE 0) <= Copies(s, e)
<1> DEFINE t == Tail(s)
           S == Places(s, e) \ {1}
           T == Places(t, e)
           f == [n \in S |-> n - 1]
<1>1. /\ Len(s) \in Nat \ {0} /\ Len(t) = Len(s) - 1 /\ s[1] = Head(s)
      /\ \A n \in 1..Len(t) : t[n] = s[n + 1]
  OBVIOUS
<1> HIDE DEF t
<1>2. IsFiniteSet(Places(s, e)) /\ Copies(s, e) \in Nat
  BY CopiesType
<1>3. f \in Surjection(S, T)
  <2>1. ASSUME NEW n \in S PROVE n - 1 \in T
    <3>1. n \in 1..Len(s) /\ n # 1 /\ s[n] = e
      BY DEF Places
    <3>2. n - 1 \in 1..Len(t) /\ (n - 1) + 1 = n
      BY <1>1, <3>1
    <3> QED
      BY <1>1, <3>1, <3>2 DEF Places
  <2>2. ASSUME NEW m \in T PROVE \E n \in S : f[n] = m
    <3>1. m \in 1..Len(t) /\ s[m + 1] = e
      BY <1>1 DEF Places
    <3>2. m + 1 \in S /\ (m + 1) - 1 = m
      BY <1>1, <3>1 DEF Places
    <3> QED
      BY <3>2
  <2> QED
    BY <2>1, <2>2 DEF Surjection
<1>4. IsFiniteSet(S)
  BY <1>2, FS_RemoveElement
<1>5. Cardinality(T) <= Cardinality(S) /\ Cardinality(T) \in Nat
  BY <1>3, <1>4, FS_Surjection, FS_CardinalityType
<1>6. Cardinality(S) = IF Head(s) = e THEN Copies(s, e) - 1 ELSE Copies(s, e)
  <2>1. 1 \in Places(s, e) <=> Head(s) = e
    BY <1>1 DEF Places
  <2> QED
    BY <1>2, <2>1, FS_RemoveElement DEF Copies
<1> QED
  BY <1>2, <1>5, <1>6 DEF Copies, t

LEMMA CopiesPrefix ==
  ASSUME NEW s \in Seq(Event), NEW w \in Seq(Event), NEW k \in 0..Len(w), NEW e
  PROVE  Copies(s \o SubSeq(w, 1, k), e) <= Copies(s, e) + Copies(w, e)
<1> DEFINE t == s \o SubSeq(w, 1, k)
           S == {n \in Places(w, e) : n <= k}
           T == {n \in Places(t, e) : n > Len(s)}
           f == [n \in S |-> Len(s) + n]
<1>1. /\ Len(t) = Len(s) + k /\ Len(s) \in Nat /\ Len(w) \in Nat /\ k \in Nat /\ k <= Len(w)
      /\ \A n \in 1..Len(s) : t[n] = s[n]
      /\ \A n \in 1..k : t[Len(s) + n] = w[n]
  <2>1. Len(s) \in Nat /\ Len(w) \in Nat /\ k \in Nat /\ k <= Len(w)
    OBVIOUS
  <2>2. Len(t) = Len(s) + k
    BY Prefixed, ZenonT(30)
  <2>3. \A n \in 1..Len(s) : t[n] = s[n]
    BY Prefixed, ZenonT(30)
  <2>4. \A n \in 1..k : t[Len(s) + n] = w[n]
    BY Prefixed, ZenonT(30)
  <2> QED
    BY <2>1, <2>2, <2>3, <2>4
<1> HIDE DEF t
<1>2. /\ IsFiniteSet(Places(s, e)) /\ Copies(s, e) \in Nat
      /\ IsFiniteSet(Places(w, e)) /\ Copies(w, e) \in Nat
  BY CopiesType
<1>3. f \in Surjection(S, T)
  <2>1. ASSUME NEW n \in S PROVE Len(s) + n \in T
    <3>1. n \in 1..k /\ w[n] = e
      BY <1>1 DEF Places
    <3>2. Len(s) + n \in 1..Len(t) /\ Len(s) + n > Len(s)
      BY <1>1, <3>1
    <3> QED
      BY <1>1, <3>1, <3>2 DEF Places
  <2>2. ASSUME NEW m \in T PROVE \E n \in S : f[n] = m
    <3>1. m \in 1..Len(t) /\ m > Len(s) /\ t[m] = e
      BY DEF Places
    <3>2. PICK n \in 1..k : m = Len(s) + n
      <4>1. m - Len(s) \in 1..k /\ m = Len(s) + (m - Len(s))
        BY <1>1, <3>1
      <4> QED
        BY <4>1
    <3>3. n \in S
      BY <1>1, <3>1, <3>2 DEF Places
    <3> QED
      BY <3>2, <3>3
  <2> QED
    BY <2>1, <2>2 DEF Surjection
<1>4. IsFiniteSet(S) /\ Cardinality(S) <= Copies(w, e) /\ Cardinality(S) \in Nat
  <2>1. S \subseteq Places(w, e)
    OBVIOUS
  <2> QED
    BY <1>2, <2>1, FS_Subset, FS_CardinalityType DEF Copies
<1>5. IsFiniteSet(T) /\ Cardinality(T) <= Cardinality(S) /\ Cardinality(T) \in Nat
  BY <1>3, <1>4, FS_Surjection, FS_CardinalityType
<1>6. Places(t, e) = Places(s, e) \cup T
  BY <1>1 DEF Places
<1> HIDE DEF S, T
<1>7. Cardinality(Places(t, e)) = Copies(s, e) + Cardinality(T) - Cardinality(Places(s, e) \cap T)
  BY <1>2, <1>5, <1>6, FS_Union DEF Copies
<1>8. Cardinality(Places(s, e) \cap T) \in Nat
  BY <1>2, FS_Subset, FS_CardinalityType
<1> QED
  BY <1>2, <1>4, <1>5, <1>7, <1>8 DEF Copies, t

LEMMA RepeatInit == Init => RepeatInv
<1> SUFFICES ASSUME Init PROVE RepeatInv
  OBVIOUS
<1>1. TypeInv /\ BatchAhead
  BY TypeInvInit DEF Init, BatchAhead
<1>2. ASSUME NEW e \in Event, NEW r \in Reaction PROVE DispatchesPaid(e, r)
  <2>1. Copies(queue, e) = 0 /\ Copies(wire, e) = 0 /\ attempts[<<e, r>>] = 0
    BY CopiesEmpty DEF Init
  <2> QED
    BY <2>1 DEF Init, DispatchesPaid, ToRead, Unacked, Done, Acting
<1> QED
  BY <1>1, <1>2 DEF RepeatInv

LEMMA BatchAheadNext == TypeOK /\ BatchAhead /\ [Next]_vars => BatchAhead'
<1> SUFFICES ASSUME TypeOK, BatchAhead, [Next]_vars PROVE BatchAhead'
  OBVIOUS
<1>1. CASE UNCHANGED bridgeVars
  BY <1>1 DEF BatchAhead, bridgeVars
<1>2. CASE BridgePoll
  <2>1. bridge' = "publish" /\ batch' \subseteq Unread /\ lastId' = cursor /\ cursor' = cursor
    BY <1>2 DEF BridgePoll, FirstOf
  <2> QED
    BY <2>1 DEF BatchAhead, Unread, TypeOK
<1>3. CASE BridgePublish
  <2>1. CASE connected
    <3>1. PICK e \in batch :
            /\ \A d \in batch : e <= d
            /\ batch' = batch \ {e} /\ lastId' = e /\ bridge' = bridge /\ cursor' = cursor
      BY <1>3, <2>1 DEF BridgePublish
    <3>2. e > lastId /\ cursor <= lastId /\ bridge = "publish"
      BY <1>3 DEF BatchAhead, BridgePublish
    <3>3. cursor' <= lastId'
      BY <3>1, <3>2 DEF TypeOK
    <3>4. \A d \in batch' : d > lastId'
      BY <3>1 DEF TypeOK
    <3> QED
      BY <3>1, <3>2, <3>3, <3>4 DEF BatchAhead
  <2>2. CASE ~ connected
    BY <1>3, <2>2 DEF BridgePublish, BatchAhead
  <2> QED
    BY <2>1, <2>2
<1>4. CASE BridgeAdvance \/ BridgeAdvanceFail
  BY <1>4 DEF BridgeAdvance, BridgeAdvanceFail, BatchAhead
<1>5. CASE WorkerCrash
  BY <1>5 DEF WorkerCrash, BatchAhead
<1> QED
  BY <1>1, <1>2, <1>3, <1>4, <1>5
     DEF Next, BridgeStep, ConsumerStep, EmitDraw, EmitCommit, EmitFail, BrokerAccept,
         ConsumerMatch, ConsumerMatchFail, ConsumerDispatch, ConsumerAck, ToggleReaction,
         ConnectionLost, vars

LEMMA PaidTypes ==
  ASSUME TypeOK, NEW e \in Event, NEW r \in Reaction
  PROVE  /\ attempts[<<e, r>>] \in Nat /\ faults \in Nat
         /\ Copies(queue, e) \in Nat /\ Copies(wire, e) \in Nat
         /\ ToRead(e) \in {0, 1} /\ Unacked(e, r) \in {0, 1} /\ Done(e, r) \in {0, 1}
BY CopiesType DEF TypeOK, ToRead, Unacked, Done

(* Bridge and broker: a copy more is an event less to read.                *)
LEMMA BridgePaid ==
  ASSUME TypeOK, BatchAhead, NEW e \in Event, NEW r \in Reaction, DispatchesPaid(e, r),
         BridgePoll \/ BridgePublish \/ BridgeAdvance \/ BridgeAdvanceFail
  PROVE  DispatchesPaid(e, r)'
<1>1. UNCHANGED <<queue, connected, consumer, todo, attempts>>
  BY DEF BridgePoll, BridgePublish, BridgeAdvance, BridgeAdvanceFail, brokerVars, consumerVars
<1>2. /\ Copies(queue, e)' = Copies(queue, e) /\ attempts'[<<e, r>>] = attempts[<<e, r>>]
      /\ Unacked(e, r)' = Unacked(e, r) /\ Done(e, r)' = Done(e, r)
  BY <1>1 DEF Unacked, Done, Acting, Copies, Places
<1>3. ToRead(e)' \in {0, 1}
  BY DEF ToRead
<1>4. CASE BridgePublish /\ connected
  <2>1. PICK x \in batch : wire' = Append(wire, x) /\ lastId' = x /\ bridge' = bridge
    BY <1>4 DEF BridgePublish
  <2>2. x > lastId /\ x \in Event /\ bridge = "publish"
    BY <1>4 DEF BatchAhead, BridgePublish, TypeOK, Event
  <2>3. Copies(wire, e)' = Copies(wire, e) + (IF x = e THEN 1 ELSE 0)
    BY <2>1, <2>2, CopiesAppend DEF TypeOK
  <2>4. ToRead(e)' + (IF x = e THEN 1 ELSE 0) <= ToRead(e)
    <3>1. ToRead(e) = IF e > lastId THEN 1 ELSE 0
      BY <1>4, <2>2 DEF ToRead
    <3>2. ToRead(e)' = IF e > x THEN 1 ELSE 0
      BY <1>1, <1>4, <2>1, <2>2 DEF ToRead
    <3> QED
      BY <2>2, <3>1, <3>2 DEF TypeOK, Event
  <2>5. faults' = faults
    BY <1>4 DEF BridgePublish
  <2> QED
    BY <1>2, <1>3, <2>3, <2>4, <2>5, PaidTypes DEF DispatchesPaid
<1>5. CASE BridgePoll \/ BridgeAdvance \/ (BridgePublish /\ ~ connected)
  <2>1. UNCHANGED <<wire, faults>>
    BY <1>5 DEF BridgePoll, BridgePublish, BridgeAdvance, brokerVars
  <2>2. Copies(wire, e)' = Copies(wire, e)
    BY <2>1 DEF Copies, Places
  <2>3. ToRead(e)' <= ToRead(e)
    <3>1. CASE BridgePoll
      BY <3>1 DEF BridgePoll, brokerVars, ToRead
    <3>2. CASE BridgeAdvance
      <4>1. cursor <= lastId /\ bridge = "publish" /\ bridge' = "idle" /\ cursor' = lastId
        BY <3>2 DEF BridgeAdvance, BatchAhead
      <4>2. ToRead(e)' = IF e > lastId THEN 1 ELSE 0
        BY <4>1 DEF ToRead
      <4>3. e > lastId => ToRead(e) = 1
        BY <4>1 DEF ToRead, TypeOK, Event
      <4>4. ToRead(e) = 0 \/ ToRead(e) = 1
        BY DEF ToRead
      <4> QED
        BY <4>2, <4>3, <4>4
    <3>3. CASE BridgePublish /\ ~ connected
      BY <3>3 DEF BridgePublish, ToRead
    <3> QED
      BY <1>5, <3>1, <3>2, <3>3
  <2> QED
    BY <1>2, <1>3, <2>1, <2>2, <2>3, PaidTypes DEF DispatchesPaid
<1>6. CASE BridgeAdvanceFail
  <2>1. UNCHANGED wire /\ faults' = faults + 1
    BY <1>6 DEF BridgeAdvanceFail, brokerVars, Fault
  <2>2. Copies(wire, e)' = Copies(wire, e)
    BY <2>1 DEF Copies, Places
  <2> QED
    BY <1>2, <1>3, <2>1, <2>2, PaidTypes DEF DispatchesPaid
<1> QED
  BY <1>4, <1>5, <1>6

LEMMA BrokerPaid ==
  ASSUME TypeInv, NEW e \in Event, NEW r \in Reaction, DispatchesPaid(e, r), BrokerAccept
  PROVE  DispatchesPaid(e, r)'
<1> TypeOK
  BY DEF TypeInv
<1> /\ attempts[<<e, r>>] \in Nat /\ faults \in Nat
    /\ Copies(queue, e) \in Nat /\ Copies(wire, e) \in Nat
    /\ ToRead(e) \in {0, 1} /\ Unacked(e, r) \in {0, 1} /\ Done(e, r) \in {0, 1}
  BY PaidTypes
<1>1. /\ wire # <<>> /\ queue' = Append(queue, Head(wire)) /\ wire' = Tail(wire)
      /\ UNCHANGED <<cursor, bridge, lastId, connected, consumer, todo, attempts, faults>>
  BY DEF BrokerAccept, bridgeVars, consumerVars
<1>2. Head(wire) \in Event
  BY <1>1 DEF TypeOK
<1>3. Copies(queue, e)' = Copies(queue, e) + (IF Head(wire) = e THEN 1 ELSE 0)
  BY <1>1, <1>2, CopiesAppend DEF TypeOK
<1>4. Copies(wire, e)' + (IF Head(wire) = e THEN 1 ELSE 0) <= Copies(wire, e)
  BY <1>1, CopiesTail DEF TypeOK
<1>5. consumer = "act" => Head(queue') = Head(queue)
  BY <1>1, <1>2 DEF TypeInv, ActsOnHead, TypeOK
<1>6. ToRead(e)' = ToRead(e) /\ Unacked(e, r)' = Unacked(e, r) /\ Done(e, r)' = Done(e, r)
  BY <1>1, <1>5 DEF ToRead, Unacked, Done, Acting
<1>7. Copies(wire, e)' \in Nat
  <2>1. wire' \in Seq(Event)
    BY <1>1 DEF TypeOK
  <2> QED
    BY <2>1, CopiesType DEF Copies, Places
<1>8. Copies(queue, e)' + Copies(wire, e)' <= Copies(queue, e) + Copies(wire, e)
  BY <1>3, <1>4, <1>7
<1>9. Copies(queue, e)' \in Nat
  BY <1>3
<1>10. attempts'[<<e, r>>] = attempts[<<e, r>>] /\ faults' = faults
  BY <1>1
<1> QED
  BY <1>6, <1>7, <1>8, <1>9, <1>10 DEF DispatchesPaid

(* The consumer: a dispatch is paid by its message, an ack takes a message *)
(* of which nothing is left to dispatch.                                   *)
LEMMA ConsumerPaid ==
  ASSUME TypeInv, NEW e \in Event, NEW r \in Reaction, DispatchesPaid(e, r),
         \/ ConsumerMatch \/ ConsumerMatchFail \/ ConsumerAck
         \/ \E q \in Reaction : ConsumerDispatch(q)
  PROVE  DispatchesPaid(e, r)'
<1> TypeOK
  BY DEF TypeInv
<1> /\ attempts[<<e, r>>] \in Nat /\ faults \in Nat
    /\ Copies(queue, e) \in Nat /\ Copies(wire, e) \in Nat
    /\ ToRead(e) \in {0, 1} /\ Unacked(e, r) \in {0, 1} /\ Done(e, r) \in {0, 1}
  BY PaidTypes
<1>1. UNCHANGED <<cursor, bridge, lastId, connected, wire>>
  BY DEF ConsumerMatch, ConsumerMatchFail, ConsumerAck, ConsumerDispatch, bridgeVars, brokerVars
<1>2. ToRead(e)' = ToRead(e) /\ Copies(wire, e)' = Copies(wire, e)
  BY <1>1 DEF ToRead, Copies, Places
<1>3. CASE ConsumerMatch \/ ConsumerMatchFail
  <2>1. /\ UNCHANGED <<queue, attempts>> /\ connected /\ consumer = "idle"
        /\ faults' = faults \/ faults' = faults + 1
    BY <1>3 DEF ConsumerMatch, ConsumerMatchFail, brokerVars, Fault
  <2>2. Unacked(e, r)' = 0 /\ Done(e, r) = 0 /\ Done(e, r)' \in {0, 1}
    BY <1>1, <2>1 DEF Unacked, Done, Acting
  <2>3. Copies(queue, e)' = Copies(queue, e)
    BY <2>1 DEF Copies, Places
  <2> QED
    BY <1>2, <2>1, <2>2, <2>3 DEF DispatchesPaid
<1>4. ASSUME NEW q \in Reaction, ConsumerDispatch(q) PROVE DispatchesPaid(e, r)'
  <2>1. /\ consumer = "act" /\ q \in todo /\ todo' = todo \ {q}
        /\ attempts' = [attempts EXCEPT ![<<Head(queue), q>>] = @ + 1]
        /\ UNCHANGED <<queue, consumer, faults>>
    BY <1>4 DEF ConsumerDispatch, brokerVars
  <2>2. Copies(queue, e)' = Copies(queue, e)
    BY <2>1 DEF Copies, Places
  <2>3. CASE Head(queue) = e /\ q = r
    <3>1. attempts'[<<e, r>>] = attempts[<<e, r>>] + 1
      BY <2>1, <2>3 DEF TypeOK
    <3>2. Unacked(e, r)' = 0 /\ Done(e, r) = 0
      BY <2>1, <2>3 DEF Unacked, Done
    <3>3. IF connected THEN Unacked(e, r) = 0 /\ Done(e, r)' = 1
                       ELSE Unacked(e, r) = 1 /\ Done(e, r)' = 0
      BY <1>1, <2>1, <2>3 DEF Unacked, Done, Acting
    <3> QED
      BY <1>2, <2>1, <2>2, <3>1, <3>2, <3>3 DEF DispatchesPaid
  <2>4. CASE ~ (Head(queue) = e /\ q = r)
    <3>1. attempts'[<<e, r>>] = attempts[<<e, r>>]
      BY <2>1, <2>4 DEF TypeOK
    <3>2. Unacked(e, r)' = Unacked(e, r) /\ Done(e, r)' = Done(e, r)
      BY <1>1, <2>1, <2>4 DEF Unacked, Done, Acting
    <3> QED
      BY <1>2, <2>1, <2>2, <3>1, <3>2 DEF DispatchesPaid
  <2> QED
    BY <2>3, <2>4
<1>5. CASE ConsumerAck
  <2>1. consumer = "act" /\ todo = {} /\ UNCHANGED <<attempts, todo, faults>> /\ queue # <<>>
    BY <1>5 DEF ConsumerAck, TypeInv, ActsOnHead
  <2>2. Unacked(e, r)' = 0 /\ Done(e, r)' = 0
    BY <1>1, <1>5, <2>1 DEF ConsumerAck, Unacked, Done, Acting
  <2>3. CASE connected
    <3>1. Copies(queue, e)' + (IF Head(queue) = e THEN 1 ELSE 0) <= Copies(queue, e)
      BY <1>5, <2>1, <2>3, CopiesTail DEF ConsumerAck, TypeOK
    <3>2. Done(e, r) = IF Head(queue) = e THEN 1 ELSE 0
      BY <2>1, <2>3 DEF Done, Acting
    <3>3. Copies(queue, e)' \in Nat
      BY TypeInvStep, <1>5, CopiesType DEF Next, ConsumerStep, TypeInv, TypeOK
    <3> QED
      BY <1>2, <2>1, <2>2, <3>1, <3>2, <3>3, SMTT(60) DEF DispatchesPaid
  <2>4. CASE ~ connected
    <3>1. queue' = queue
      BY <1>5, <2>4 DEF ConsumerAck
    <3>2. Copies(queue, e)' = Copies(queue, e) /\ Done(e, r) = 0
      BY <2>4, <3>1 DEF Copies, Places, Done
    <3> QED
      BY <1>2, <2>1, <2>2, <3>2, SMTT(60) DEF DispatchesPaid
  <2> QED
    BY <2>3, <2>4
<1> QED
  BY <1>3, <1>4, <1>5

(* A fault pays for a batch that is read again and for an ack that is lost.*)
LEMMA FaultPaid ==
  ASSUME TypeInv, NEW e \in Event, NEW r \in Reaction, DispatchesPaid(e, r),
         ConnectionLost \/ WorkerCrash
  PROVE  DispatchesPaid(e, r)'
<1> TypeOK
  BY DEF TypeInv
<1> /\ attempts[<<e, r>>] \in Nat /\ faults \in Nat
    /\ Copies(queue, e) \in Nat /\ Copies(wire, e) \in Nat
    /\ ToRead(e) \in {0, 1} /\ Unacked(e, r) \in {0, 1} /\ Done(e, r) \in {0, 1}
  BY PaidTypes
<1>1. wire' = <<>> /\ UNCHANGED attempts
  BY DEF ConnectionLost, WorkerCrash
<1>2. Copies(wire, e)' = 0 /\ attempts'[<<e, r>>] = attempts[<<e, r>>]
  BY <1>1, CopiesEmpty
<1>3. ToRead(e)' \in {0, 1}
  BY DEF ToRead
<1>6. 2 * faults \in Nat /\ 2 * (faults + 1) = 2 * faults + 2
  OBVIOUS
<1>4. CASE ConnectionLost
  <2>1. /\ connected /\ connected' = FALSE /\ UNCHANGED <<queue, todo>>
        /\ consumer' = "act" <=> consumer = "act"
    BY <1>4 DEF ConnectionLost
  <2>5. 2 * faults' = 2 * faults + 2
    BY <1>4, <1>6 DEF ConnectionLost, Fault
  <2>2. Copies(queue, e)' = Copies(queue, e)
    BY <2>1 DEF Copies, Places
  <2>3. Done(e, r)' = 0 /\ Unacked(e, r)' <= 1 - Done(e, r) /\ Unacked(e, r)' \in {0, 1}
    BY <2>1 DEF Unacked, Done, Acting
  <2>4. Copies(queue, e)' + ToRead(e)' + Unacked(e, r)' + Done(e, r) <= Copies(queue, e) + 2
    BY <1>3, <2>2, <2>3
  <2> QED
    BY <1>2, <1>3, <1>6, <2>2, <2>3, <2>4, <2>5 DEF DispatchesPaid
<1>5. CASE WorkerCrash
  <2>1. PICK k \in 0..Len(wire) : queue' = queue \o SubSeq(wire, 1, k)
    BY <1>5 DEF WorkerCrash
  <2>2. Copies(queue, e)' <= Copies(queue, e) + Copies(wire, e)
    BY <2>1, CopiesPrefix DEF TypeOK
  <2>3. Done(e, r)' = 0 /\ Unacked(e, r)' = 0
    BY <1>5 DEF WorkerCrash, Unacked, Done, Acting
  <2>4. Copies(queue, e)' \in Nat
    BY TypeInvStep, <1>5, CopiesType DEF Next, TypeInv, TypeOK
  <2>7. CASE ~ connected
    <3>1. faults' = faults /\ bridge' = "idle" /\ cursor' = cursor
      BY <1>5, <2>7 DEF WorkerCrash
    <3>2. ToRead(e)' = ToRead(e) /\ Done(e, r) = 0
      BY <2>7, <3>1 DEF ToRead, Done
    <3>3. 2 * faults' = 2 * faults
      BY <3>1
    <3> QED
      BY <1>2, <1>6, <2>2, <2>3, <2>4, <3>2, <3>3, SMTT(60) DEF DispatchesPaid
  <2>5. Copies(queue, e)' + ToRead(e)' + Done(e, r) <= Copies(queue, e) + Copies(wire, e) + 2
    BY <1>3, <2>2, <2>4
  <2>6. attempts[<<e, r>>] + Copies(queue, e)' + ToRead(e)' <= 1 + 2 * faults + 2
    <3>1. attempts[<<e, r>>] + Copies(queue, e) + Copies(wire, e) <= 1 + 2 * faults + Done(e, r)
      BY DEF DispatchesPaid
    <3> QED
      BY <1>3, <1>6, <2>4, <2>5, <3>1, SMTT(60)
  <2>8. CASE connected
    <3>1. 2 * faults' = 2 * faults + 2
      BY <1>5, <1>6, <2>8 DEF WorkerCrash, Fault
    <3> QED
      BY <1>2, <1>3, <1>6, <2>3, <2>4, <2>6, <3>1, SMTT(60) DEF DispatchesPaid
  <2> QED
    BY <2>7, <2>8
<1> QED
  BY <1>4, <1>5

LEMMA RepeatNext == RepeatInv /\ [Next]_vars => RepeatInv'
<1> SUFFICES ASSUME RepeatInv, [Next]_vars, NEW e \in Event, NEW r \in Reaction
             PROVE  DispatchesPaid(e, r)'
  BY TypeInvStep, BatchAheadNext DEF RepeatInv, TypeInv
<1> TypeInv /\ TypeOK /\ BatchAhead /\ DispatchesPaid(e, r)
  BY DEF RepeatInv, TypeInv
<1>1. ASSUME UNCHANGED <<cursor, bridge, lastId, connected, wire, queue, consumer, todo, attempts>>,
             faults' = faults \/ faults' = faults + 1
      PROVE  DispatchesPaid(e, r)'
  <2>1. /\ Copies(queue, e)' = Copies(queue, e) /\ Copies(wire, e)' = Copies(wire, e)
        /\ ToRead(e)' = ToRead(e) /\ Unacked(e, r)' = Unacked(e, r) /\ Done(e, r)' = Done(e, r)
    BY <1>1 DEF Copies, Places, ToRead, Unacked, Done, Acting
  <2> QED
    BY <1>1, <2>1, PaidTypes DEF DispatchesPaid
<1>2. CASE EmitDraw \/ (\E d \in Event : EmitCommit(d) \/ EmitFail(d))
           \/ (\E q \in Reaction : ToggleReaction(q)) \/ UNCHANGED vars
  BY <1>1, <1>2 DEF EmitDraw, EmitCommit, EmitFail, ToggleReaction, Fault, vars, bridgeVars,
     brokerVars, consumerVars
<1>3. CASE BridgeStep \/ BridgeAdvanceFail
  BY <1>3, BridgePaid DEF BridgeStep
<1>4. CASE BrokerAccept
  BY <1>4, BrokerPaid
<1>5. CASE ConsumerStep \/ ConsumerMatchFail
  BY <1>5, ConsumerPaid DEF ConsumerStep
<1>6. CASE ConnectionLost \/ WorkerCrash
  BY <1>6, FaultPaid
<1> QED
  BY <1>2, <1>3, <1>4, <1>5, <1>6 DEF Next

(* A reaction is dispatched once for an event, and at most twice more for  *)
(* each fault: for the batch that is read again and for the unacked        *)
(* message.  Commits may come in any order and publishes be slow.          *)
THEOREM RepeatsCounted == Spec => []RepeatsNeedFaults
<1>1. RepeatInv => RepeatsNeedFaults
  <2> SUFFICES ASSUME RepeatInv, NEW e \in Event, NEW r \in Reaction
               PROVE  attempts[<<e, r>>] <= 1 + 2 * faults
    BY DEF RepeatsNeedFaults
  <2>1. TypeOK /\ DispatchesPaid(e, r)
    BY DEF RepeatInv, TypeInv
  <2> /\ attempts[<<e, r>>] \in Nat /\ faults \in Nat
      /\ Copies(queue, e) \in Nat /\ Copies(wire, e) \in Nat
      /\ ToRead(e) \in {0, 1} /\ Unacked(e, r) \in {0, 1} /\ Done(e, r) \in {0, 1}
    BY <2>1, PaidTypes
  <2>2. Copies(queue, e) >= Done(e, r)
    <3>1. ASSUME Acting(e) PROVE Copies(queue, e) >= 1
      <4>1. queue # <<>> /\ Head(queue) = e
        BY <3>1 DEF RepeatInv, TypeInv, ActsOnHead, Acting
      <4>2. Copies(Tail(queue), e) + 1 <= Copies(queue, e)
        BY <2>1, <4>1, CopiesTail DEF TypeOK
      <4>3. Copies(Tail(queue), e) \in Nat
        <5>1. Tail(queue) \in Seq(Event)
          BY <2>1, <4>1 DEF TypeOK
        <5> QED
          BY <5>1, CopiesType
      <4> QED
        BY <4>2, <4>3
    <3>2. ~ Acting(e) => Done(e, r) = 0
      BY DEF Done
    <3> QED
      BY <3>1, <3>2
  <2> QED
    BY <2>1, <2>2 DEF DispatchesPaid
<1> QED
  BY RepeatInit, RepeatNext, <1>1, PTL DEF Spec
=============================================================================
