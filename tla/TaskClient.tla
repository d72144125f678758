----------------------------- MODULE TaskClient -----------------------------
(***************************************************************************)
(* What the task pages share: the requests of state/task-api.ts, the rows  *)
(* they reach in routes/tasks.rs, and the notices that the triggers on     *)
(* those rows send to the clients of a session.                            *)
(*                                                                         *)
(* A page asks, the server serves, the answer arrives: three steps, and    *)
(* answers arrive in any order.  A request that only reads is served when  *)
(* it is sent and again at any time until its answer arrives.  An update   *)
(* is two steps of the server: it reads the row and later writes every     *)
(* column of it.                                                           *)
(***************************************************************************)
EXTENDS Naturals, Sequences, FiniteSets, SequencesExt

CONSTANTS
  Task,        \* ids of tasks
  Parent,      \* the parent of a task, or None
  Me, Other,   \* participants of the session; Me looks at the page
  None,
  MaxClicks,   \* bound on what the user does
  MaxForeign,  \* bound on what other clients do
  MaxLosses,   \* bound on failed requests and lost notices
  MaxEvents,   \* bound on all of these together
  MaxFlight    \* the user and others act only while fewer requests are under way

ASSUME TaskClientAssumption ==
  /\ IsFiniteSet(Task) /\ None \notin Task
  /\ Parent \in [Task -> Task \cup {None}]
  /\ MaxClicks \in Nat /\ MaxForeign \in Nat /\ MaxLosses \in Nat

(* closed is everywhere treated as done is, and left out.                  *)
Status    == {"open", "in_progress", "done"}
Completed == {"done"}

(* A row of tasks, with its dependencies and comments.  proof: it has      *)
(* commits or is marked as needing no code; member: it is in the session;  *)
(* home: the session is the one it was created in; talk counts its         *)
(* comments, rev the changes of columns not listed.                        *)
Row == [status : Status, closedAt : BOOLEAN, proof : BOOLEAN,
        owner : {None, Me, Other}, member : BOOLEAN, home : BOOLEAN,
        blockers : SUBSET Task, talk : Nat, rev : Nat]

(* The requests of task-api.ts: those that read, the updates, the others.  *)
Listings == {"list", "first", "last"}
Reads    == Listings \cup {"fetch", "picker"}
Updates  == {"update", "move", "batch"}

VARIABLES
  mode,       \* "session" or "project": where the page is mounted
  rows,       \* the tasks there are
  born,       \* ids that were used
  joining,    \* tasks that another client creates, not in the session yet
  notice,     \* a tasks-changed notice is under way to this client
  flight,     \* requests under way, in the order of sending
  unseen,     \* the board (the detail) has asked nothing since a change that
              \* no notice and no answer tells it of
  clicks, foreign, losses

serverVars == <<rows, born, joining, notice>>
clientVars == <<mode, serverVars, flight, unseen, clicks, foreign, losses>>

Request(op, on, field, value) ==
  [op |-> op, on |-> on, field |-> field, value |-> value,
   heard |-> TRUE, latest |-> TRUE, stage |-> "asked", ok |-> TRUE, data |-> None]

(* Whose load a request is.                                                *)
Loader(r) == CASE r.op \in Listings -> "board"
               [] r.op = "fetch" -> "detail"
               [] OTHER -> "none"

ClientTypeOK ==
  /\ mode \in {"session", "project"}
  /\ DOMAIN rows \subseteq born /\ born \subseteq Task
  /\ rows \in [DOMAIN rows -> Row]
  /\ joining \subseteq born /\ notice \in BOOLEAN
  /\ \A n \in DOMAIN flight : flight[n].stage \in {"asked", "read", "done", "lost"}
  /\ unseen \in [{"board", "detail"} -> BOOLEAN]
  /\ clicks \in 0..MaxClicks /\ foreign \in 0..MaxForeign /\ losses \in 0..MaxLosses

Fresh(status) ==
  [status |-> status, closedAt |-> FALSE, proof |-> FALSE, owner |-> None,
   member |-> mode = "session", home |-> mode = "session", blockers |-> {}, talk |-> 0, rev |-> 0]

-----------------------------------------------------------------------------
(* The server.  Everything but the listings and the creation of a task     *)
(* goes by the session's path, which names no session in project mode.     *)
Routed(r) == mode = "session" \/ r.op \in {"list", "first", "create", "fetch", "join", "part", "sprint"}

Listing(all, status) ==
  LET S == {t \in DOMAIN rows : /\ mode = "project" \/ all \/ rows[t].member
                                /\ status \in {"any", rows[t].status}}
  IN [t \in S |-> [rows[t] EXCEPT !.blockers = {}]]

Ended(r, ok, data) == [r EXCEPT !.stage = "done", !.ok = ok, !.data = data]

(* What a request to read gets now; other requests wait for the server.    *)
Sent(r) ==
  CASE r.op \in Listings -> Ended(r, TRUE, Listing(r.field = "all", r.value))
    [] r.op = "picker" -> IF Routed(r) THEN Ended(r, TRUE, Listing(FALSE, "any"))
                          ELSE Ended(r, FALSE, None)
    [] r.op = "fetch" -> IF r.on \in DOMAIN rows THEN Ended(r, TRUE, rows[r.on])
                         ELSE Ended(r, FALSE, None)
    [] OTHER -> r

(* The requests of base stay under way and those of asked join them.       *)
Exchange(base, asked) ==
  LET all == base \o [i \in DOMAIN asked |-> Sent(asked[i])]
      later(i) == \E j \in DOMAIN all : j > i /\ j > Len(base) /\ Loader(all[j]) = Loader(all[i])
  IN /\ flight' = [i \in DOMAIN all |-> IF Loader(all[i]) # "none" /\ later(i)
                                         THEN [all[i] EXCEPT !.latest = FALSE] ELSE all[i]]
     /\ unseen' = [w \in DOMAIN unseen |-> unseen[w] /\ \A i \in DOMAIN asked : Loader(asked[i]) # w]

Without(n) == RemoveAt(flight, n)

Spare == clicks + foreign + losses < MaxEvents
Room  == Len(flight) < MaxFlight
Click == clicks < MaxClicks /\ Spare /\ clicks' = clicks + 1 /\ Room

-----------------------------------------------------------------------------
(* The handlers.                                                           *)
(* Mutant: no assignee is stored as the empty string.                      *)
EditedEmpty(row, r) ==
  CASE r.field = "status" -> [row EXCEPT !.status = r.value]
    [] r.field = "proof"  -> [row EXCEPT !.proof = (r.value = "yes")]
    [] r.field = "owner"  -> [row EXCEPT !.owner = IF r.value = None THEN "" ELSE r.value]
    [] r.field = "other"  -> [row EXCEPT !.rev = @ + 1]
    [] r.field = "kept"   -> row

(* update_task: the row with one field changed.  A new type is not a       *)
(* column of the request, and null leaves model_hint, budget_tier and      *)
(* provider as they are.                                                   *)
Edited(row, r) ==
  CASE r.field = "status" -> [row EXCEPT !.status = r.value]
    [] r.field = "proof"  -> [row EXCEPT !.proof = (r.value = "yes")]
    [] r.field = "owner"  -> [row EXCEPT !.owner = r.value]
    [] r.field = "other"  -> [row EXCEPT !.rev = @ + 1]
    [] r.field = "kept"   -> row

Closing(row) == row.status \in Completed /\ ~row.closedAt

Updated(row, r) ==
  LET new == Edited(row, r)
  IN IF Closing(new) /\ ~new.proof THEN {}
     ELSE {[new EXCEPT !.closedAt = @ \/ Closing(new)]}

(* What a session's clients are told of a change: nothing when the tasks   *)
(* it touches were created outside the session.  The asker gets an answer. *)
Announce(asker, touched) ==
  IF mode = "session" /\ \E t \in touched : rows[t].home
  THEN notice' = TRUE /\ UNCHANGED unseen
  ELSE /\ notice' = notice
       /\ unseen' = [w \in DOMAIN unseen |-> unseen[w] \/ w \notin asker]

Refuse(n) ==
  /\ flight' = [flight EXCEPT ![n] = Ended(@, FALSE, None)]
  /\ UNCHANGED <<serverVars, unseen>>

(* Who reloads after its own request: the board, or the detail if it is    *)
(* still there.                                                            *)
Asker(r) == IF r.op \in {"update", "delete", "comment", "block", "unblock"}
            THEN {w \in {"detail"} : r.heard}
            ELSE {"board"}

Save(n, row) ==
  /\ rows' = [rows EXCEPT ![flight[n].on] = row]
  /\ Announce(Asker(flight[n]), {flight[n].on})
  /\ flight' = [flight EXCEPT ![n] = Ended(@, TRUE, None)]
  /\ UNCHANGED <<born, joining>>

(* Depends(b, t): t waits for b, directly or not.                          *)
Depends(b, t) ==
  \/ b \in rows[t].blockers
  \/ \E c \in rows[t].blockers \cap DOMAIN rows : b \in rows[c].blockers

(* update_task reads the row ...                                           *)
ReadRow(n) ==
  LET r == flight[n] IN
  /\ r.stage = "asked" /\ r.op \in Updates
  /\ IF Routed(r) /\ r.on \in DOMAIN rows
     THEN /\ flight' = [flight EXCEPT ![n].stage = "read", ![n].data = rows[r.on]]
          /\ UNCHANGED <<serverVars, unseen>>
     ELSE Refuse(n)

(* Mutant: the rule is applied to the row read, the change to the row as   *)
(* it is by then.                                                          *)
WriteColumn(n) ==
  LET r == flight[n] IN
  /\ r.stage = "read" /\ r.op \in Updates
  /\ IF Updated(r.data, r) = {} THEN Refuse(n)
     ELSE IF r.on \in DOMAIN rows
     THEN Save(n, [Edited(rows[r.on], r) EXCEPT
                     !.closedAt = @ \/ Closing(Edited(rows[r.on], r))])
     ELSE /\ flight' = [flight EXCEPT ![n] = Ended(@, FALSE, None)]
          /\ UNCHANGED <<serverVars, unseen>>

(* ... and writes all its columns; memberships and dependencies are not    *)
(* columns of it.                                                          *)
WriteRow(n) ==
  LET r == flight[n] IN
  /\ r.stage = "read" /\ r.op \in Updates
  /\ IF Updated(r.data, r) = {} \/ r.on \notin DOMAIN rows THEN Refuse(n)
     ELSE \E new \in Updated(r.data, r) :
            Save(n, [new EXCEPT !.member = rows[r.on].member, !.talk = rows[r.on].talk,
                               !.blockers = rows[r.on].blockers])

(* A deleted task takes the dependencies on it along.                      *)
Waiting(t) == {u \in DOMAIN rows : t \in rows[u].blockers}
Erase(t) == rows' = [u \in DOMAIN rows \ {t} |-> [rows[u] EXCEPT !.blockers = @ \ {t}]]

ServeDelete(n) ==
  LET r == flight[n] IN
  /\ r.stage = "asked" /\ r.op \in {"delete", "erase", "batchdel"}
  /\ IF Routed(r) /\ r.on \in DOMAIN rows
     THEN /\ Erase(r.on)
          /\ Announce(Asker(r), {r.on} \cup Waiting(r.on))
          /\ flight' = [flight EXCEPT ![n] = Ended(@, TRUE, None)]
          /\ joining' = joining \ {r.on} /\ UNCHANGED born
     ELSE Refuse(n)

Added(t, row) == [u \in DOMAIN rows \cup {t} |-> IF u = t THEN row ELSE rows[u]]

(* A session's task is open whatever the form asked for.                   *)
ServeCreate(n) ==
  LET r == flight[n] IN
  /\ r.stage = "asked" /\ r.op = "create"
  /\ \E t \in Task \ born :
       LET row == Fresh(IF mode = "session" THEN "open" ELSE r.value) IN
       /\ born' = born \cup {t} /\ rows' = Added(t, row)
       /\ IF mode = "session" THEN notice' = TRUE /\ UNCHANGED unseen
          ELSE notice' = notice /\ unseen' = [unseen EXCEPT !["detail"] = TRUE]
       /\ flight' = [flight EXCEPT ![n] = Ended(@, TRUE, None)]
       /\ UNCHANGED joining

(* add_dependency looks for a cycle ...                                    *)
CheckCycle(n) ==
  LET r == flight[n] IN
  /\ r.stage = "asked" /\ r.op = "block"
  /\ IF /\ Routed(r) /\ r.value # r.on /\ {r.on, r.value} \subseteq DOMAIN rows
        /\ ~Depends(r.on, r.value)
     THEN flight' = [flight EXCEPT ![n].stage = "read"] /\ UNCHANGED <<serverVars, unseen>>
     ELSE Refuse(n)

(* ... and inserts; comments and memberships are one statement.            *)
ServeChange(n) ==
  LET r == flight[n]  t == r.on IN
  /\ \/ r.stage = "asked" /\ r.op \in {"comment", "unblock", "join", "part"}
     \/ r.stage = "read" /\ r.op = "block"
  /\ IF ~Routed(r) \/ t \notin DOMAIN rows \/ (r.op = "block" /\ r.value \notin DOMAIN rows \ rows[t].blockers)
     THEN Refuse(n)
     ELSE Save(n, CASE r.op = "comment" -> [rows[t] EXCEPT !.talk = @ + 1]
                    [] r.op = "block"   -> [rows[t] EXCEPT !.blockers = @ \cup {r.value}]
                    [] r.op = "unblock" -> [rows[t] EXCEPT !.blockers = @ \ {r.value}]
                    [] r.op = "join"    -> [rows[t] EXCEPT !.member = TRUE]
                    [] r.op = "part"    -> [rows[t] EXCEPT !.member = FALSE])

ServeAgain(n) ==
  LET r == flight[n] IN
  /\ r.op \in Reads /\ r.stage = "done" /\ Sent(r) # r
  /\ flight' = [flight EXCEPT ![n] = Sent(@)]
  /\ UNCHANGED <<serverVars, unseen>>

ServeSprint(n) ==
  /\ flight[n].op = "sprint" /\ flight[n].stage = "asked"
  /\ flight' = [flight EXCEPT ![n] = Ended(@, TRUE, None)]
  /\ UNCHANGED <<serverVars, unseen>>

Serve == /\ \E n \in DOMAIN flight :
              ReadRow(n) \/ WriteRow(n) \/ ServeDelete(n) \/ ServeCreate(n)
                \/ CheckCycle(n) \/ ServeChange(n) \/ ServeSprint(n) \/ ServeAgain(n)
         /\ UNCHANGED <<mode, clicks, foreign, losses>>

(* A request that does not reach the server.                               *)
Fail(n) ==
  /\ losses < MaxLosses /\ Spare /\ losses' = losses + 1
  /\ flight[n].stage = "asked" \/ (flight[n].op \in Reads /\ flight[n].stage = "done")
  /\ flight' = [flight EXCEPT ![n].stage = "lost", ![n].ok = FALSE, ![n].data = None]
  /\ UNCHANGED <<mode, serverVars, unseen, clicks, foreign>>

Answered(n) == flight[n].stage \in {"done", "lost"}

-----------------------------------------------------------------------------
(* Other clients.                                                          *)
Foreign == foreign < MaxForeign /\ Spare /\ Room /\ foreign' = foreign + 1
             /\ UNCHANGED <<mode, flight, clicks, losses>>

ForeignUpdate(t) ==
  /\ Foreign /\ t \in DOMAIN rows
  /\ \E r \in {Request("update", t, "status", "in_progress"), Request("update", t, "proof", "no")} :
       \E new \in Updated(rows[t], r) :
         new # rows[t] /\ rows' = [rows EXCEPT ![t] = new]
  /\ Announce({}, {t}) /\ UNCHANGED <<born, joining>>

ForeignDelete(t) ==
  /\ Foreign /\ t \in DOMAIN rows
  /\ Erase(t) /\ joining' = joining \ {t}
  /\ Announce({}, {t} \cup Waiting(t)) /\ UNCHANGED born

(* create_task of another participant: the trigger announces the INSERT    *)
(* into tasks before the task is put into the session ...                  *)
ForeignCreate(t) ==
  /\ Foreign /\ t \notin born /\ mode = "session"
  /\ born' = born \cup {t} /\ rows' = Added(t, [Fresh("open") EXCEPT !.member = FALSE])
  /\ joining' = joining \cup {t} /\ notice' = TRUE /\ UNCHANGED unseen

(* ... and the notice of the second INSERT is one the client ignores.      *)
ForeignJoin(t) ==
  /\ t \in joining /\ joining' = joining \ {t}
  /\ rows' = [rows EXCEPT ![t].member = TRUE]
  /\ unseen' = [w \in DOMAIN unseen |-> TRUE]
  /\ UNCHANGED <<mode, born, notice, flight, clicks, foreign, losses>>

(* The socket was down when the notice was sent.                           *)
LoseNotice ==
  /\ notice /\ losses < MaxLosses /\ Spare /\ losses' = losses + 1
  /\ notice' = FALSE /\ unseen' = [w \in DOMAIN unseen |-> TRUE]
  /\ UNCHANGED <<mode, rows, born, joining, flight, clicks, foreign>>

Others ==
  \/ \E t \in Task : ForeignUpdate(t) \/ ForeignDelete(t) \/ ForeignCreate(t) \/ ForeignJoin(t)
  \/ LoseNotice
=============================================================================
