----------------------------- MODULE Workspaces -----------------------------
(***************************************************************************)
(* The `workspaces` table and the handlers that own it: create, stop and   *)
(* destroy of server/src/routes/workspaces.rs (the MCP tools of the same   *)
(* names in mcp_handler.rs write the same rows in the same order).         *)
(*                                                                         *)
(* A handler is a sequence of awaits: every database statement and every   *)
(* call of the Coder API is a step of its own, so a row read by a handler  *)
(* may have changed when the handler writes it.  Every UPDATE here is      *)
(* unconditional (WHERE id = $1), as in the source.  A Coder call answers  *)
(* with a choice between success and failure.                              *)
(***************************************************************************)
EXTENDS Naturals, FiniteSets

CONSTANTS
  Ws,       \* workspace ids
  Op,       \* user requests on workspaces; their number bounds a behaviour
  Key,      \* pool keys: project + user + optional branch
  NoWs,     \* a NULL workspace_id
  NoKey,    \* a NULL pool_key
  UserOps,  \* the requests that users make: subset of {"create","stop","destroy"}
  Parked    \* the workspaces that are in the pool, stopped, at the start

ASSUME WorkspacesAssumption ==
  NoWs \notin Ws /\ NoKey \notin Key /\ Parked \subseteq Ws

VARIABLES
  wsStatus, \* workspaces.status; "absent" before the INSERT
  wsKey,    \* workspaces.pool_key
  wsCoder,  \* workspaces.coder_workspace_id (and _name) IS NOT NULL
  wsAged,   \* rows whose updated_at is older than WORKSPACE_STUCK_MINUTES
  opPc,     \* where each user request is
  opWs      \* the workspace it is about

wsVars == <<wsStatus, wsKey, wsCoder, wsAged>>
opVars == <<opPc, opWs>>

WsStatus == {"absent", "pending", "creating", "running", "stopping",
             "stopped", "failed", "destroyed"}
OpPc == {"idle", "provision", "template", "create", "stopMark", "stopCall",
         "destroyCall", "done"}

WorkspacesTypeOK ==
  /\ wsStatus \in [Ws -> WsStatus]
  /\ wsKey \in [Ws -> Key \cup {NoKey}]
  /\ wsCoder \in [Ws -> BOOLEAN]
  /\ wsAged \in SUBSET Ws
  /\ opPc \in [Op -> OpPc]
  /\ opWs \in [Op -> Ws \cup {NoWs}]

WorkspacesInit ==
  /\ wsStatus = [w \in Ws |-> IF w \in Parked THEN "stopped" ELSE "absent"]
  /\ wsKey \in [Ws -> Key \cup {NoKey}]
  /\ \A w \in Ws : wsKey[w] \in Key <=> w \in Parked
  /\ wsCoder = [w \in Ws |-> w \in Parked]
  /\ wsAged = {}
  /\ opPc = [o \in Op |-> "idle"]
  /\ opWs = [o \in Op |-> NoWs]

-----------------------------------------------------------------------------
(* UPDATE workspaces SET status = s, updated_at = NOW() WHERE id = w       *)
SetStatus(w, s) ==
  /\ wsStatus' = [wsStatus EXCEPT ![w] = s]
  /\ wsAged' = wsAged \ {w}
  /\ UNCHANGED <<wsKey, wsCoder>>

(* Mutants: a status the schema does not know; the id is not stored.       *)
SetCreatedReady(w) ==
  /\ wsStatus' = [wsStatus EXCEPT ![w] = "ready"]
  /\ wsCoder' = [wsCoder EXCEPT ![w] = TRUE]
  /\ wsAged' = wsAged \ {w}
  /\ UNCHANGED wsKey
SetCreatedNoId(w) == SetStatus(w, "running")

(* Coder answered the create call: id and name are stored and the row is   *)
(* 'running', whatever it was.                                             *)
SetCreated(w) ==
  /\ wsStatus' = [wsStatus EXCEPT ![w] = "running"]
  /\ wsCoder' = [wsCoder EXCEPT ![w] = TRUE]
  /\ wsAged' = wsAged \ {w}
  /\ UNCHANGED wsKey

(* INSERT INTO workspaces with the given pool key and status.              *)
InsertRow(w, k, s) ==
  /\ wsStatus[w] = "absent"
  /\ wsStatus' = [wsStatus EXCEPT ![w] = s]
  /\ wsKey' = [wsKey EXCEPT ![w] = k]
  /\ UNCHANGED <<wsCoder, wsAged>>

OpGoto(o, label) == opPc' = [opPc EXCEPT ![o] = label] /\ UNCHANGED opWs

OpBegin(o, w, label) ==
  /\ opPc[o] = "idle"
  /\ opPc' = [opPc EXCEPT ![o] = label]
  /\ opWs' = [opWs EXCEPT ![o] = w]

-----------------------------------------------------------------------------
(* POST /workspaces: the row is inserted 'pending', without a pool key,    *)
(* and provision_workspace is spawned.                                     *)
CreateWorkspace(o, w) ==
  /\ "create" \in UserOps
  /\ OpBegin(o, w, "provision")
  /\ InsertRow(w, NoKey, "pending")

ProvisionMark(o) ==
  /\ opPc[o] = "provision"
  /\ SetStatus(opWs[o], "creating")
  /\ OpGoto(o, "template")

ProvisionTemplate(o) ==
  /\ opPc[o] = "template"
  /\ \/ UNCHANGED wsVars /\ OpGoto(o, "create")
     \/ SetStatus(opWs[o], "failed") /\ OpGoto(o, "done")

ProvisionCreate(o) ==
  /\ opPc[o] = "create"
  /\ SetCreated(opWs[o]) \/ SetStatus(opWs[o], "failed")
  /\ OpGoto(o, "done")

(* POST /workspaces/:id/stop: 409 unless the row that was read is running, *)
(* 500 unless it has a Coder id; no look at the invocations.               *)
StopRead(o, w) ==
  /\ "stop" \in UserOps
  /\ wsStatus[w] = "running" /\ wsCoder[w]
  /\ OpBegin(o, w, "stopMark")
  /\ UNCHANGED wsVars

StopMark(o) ==
  /\ opPc[o] = "stopMark"
  /\ SetStatus(opWs[o], "stopping")
  /\ OpGoto(o, "stopCall")

StopCall(o) ==
  /\ opPc[o] = "stopCall"
  /\ SetStatus(opWs[o], "stopped") \/ SetStatus(opWs[o], "failed")
  /\ OpGoto(o, "done")

(* DELETE /workspaces/:id: any existing row; an error of Coder's delete is *)
(* logged and ignored.                                                     *)
DestroyRead(o, w) ==
  /\ "destroy" \in UserOps
  /\ wsStatus[w] # "absent"
  /\ OpBegin(o, w, "destroyCall")
  /\ UNCHANGED wsVars

DestroyCall(o) ==
  /\ opPc[o] = "destroyCall"
  /\ SetStatus(opWs[o], "destroyed")
  /\ OpGoto(o, "done")

OpRequest(o, w) == CreateWorkspace(o, w) \/ StopRead(o, w) \/ DestroyRead(o, w)

OpStep(o) ==
  \/ ProvisionMark(o) \/ ProvisionTemplate(o) \/ ProvisionCreate(o)
  \/ StopMark(o) \/ StopCall(o) \/ DestroyCall(o)

(* Some user request on w is between its first and its last statement.     *)
OpHolds(w) == \E o \in Op : opWs[o] = w /\ opPc[o] \notin {"idle", "done"}
=============================================================================
