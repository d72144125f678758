--------------------------- MODULE SettingsPages ---------------------------
(***************************************************************************)
(* The pages where a project, an organisation and a user are set up:       *)
(* reactions and jobs (automation-panel.ts), hook bundles                  *)
(* (hook-bundles-panel.ts), credentials (user-settings.ts,                 *)
(* org-settings.ts), members, and the forms of a project                   *)
(* (project-settings.ts) and of a user's preferred models.                 *)
(*                                                                         *)
(* A text is known by the record it was entered for.                       *)
(***************************************************************************)
EXTENDS Naturals, FiniteSets

CONSTANTS
  Entry,       \* ids of reactions, jobs, credentials, members or bundles
  New,         \* the record that is about to be made
  NoEntry,
  MaxActs,     \* bound on requests and on what is typed
  MaxFaults    \* bound on requests that fail or whose answer is lost

VARIABLES
  section,     \* the part that is looked at, or "none"
  entries,     \* the server's records
  pane,        \* the element: its list, and whether it waits for it
  editor,      \* the dialog for a new or changed record, or the line to invite a member
  rotation,    \* the dialog for another value of a credential
  asked,       \* requests under way
  reads,       \* requests for the whole list under way
  form,        \* what the forms hold, and the server
  doubt,       \* requests about one record met, or one failed
  acts, faults

settingsVars == <<section, entries, pane, editor, rotation, asked, reads, form, doubt, acts, faults>>

Automations == {"reactions", "jobs"}
Credentials == {"userCredentials", "orgCredentials"}
Collections == Automations \cup Credentials \cup {"members", "bundles"}
Forms       == {"project", "preferences"}

Row  == [from : Entry \cup {New}, on : BOOLEAN, ver : 0 .. MaxActs]
Rows == [Entry -> Row \cup {NoEntry}]
Ask  == [id : 1 .. MaxActs, op : {"create", "update", "switch", "delete", "rotate", "install", "save"},
         target : Entry \cup {New}, tag : Entry \cup {New}, on : BOOLEAN,
         served : {"no", "done", "refused"}, row : Row \cup {NoEntry}]
Field == {"name", "repo"}
Text  == {"one", "two", "empty"}

ASSUME SettingsAssumption ==
  /\ NoEntry \notin Entry \cup {New} \cup Row /\ New \notin Entry
  /\ MaxActs \in Nat /\ MaxFaults \in Nat

SettingsTypeOK ==
  /\ section \in Collections \cup Forms \cup {"none"} /\ entries \in Rows
  /\ pane \in [loading : BOOLEAN, failed : BOOLEAN, list : Rows, knob : [Entry -> BOOLEAN],
               installing : Entry \cup {NoEntry}]
  /\ editor \in [up : BOOLEAN, target : Entry \cup {New}, tag : Entry \cup {New}, busy : BOOLEAN]
  /\ rotation \in [up : BOOLEAN, target : Entry \cup {NoEntry}, tag : Entry \cup {NoEntry}]
  /\ asked \subseteq Ask
  /\ reads \in [1 .. 2 -> [at : {"none", "sent", "read"}, rows : Rows, texts : [Field -> Text]]]
  /\ form \in [stored : [Field -> Text], typed : [Field -> Text], sent : [Field -> Text \cup {"keep"}],
              dirty : BOOLEAN, busy : BOOLEAN]
  /\ doubt \in BOOLEAN /\ acts \in 0 .. MaxActs /\ faults \in 0 .. MaxFaults

NoRows  == [e \in Entry |-> NoEntry]
NoTexts == [f \in Field |-> "empty"]
Read(stage, rows, texts) == [at |-> stage, rows |-> rows, texts |-> texts]
NoRead  == Read("none", NoRows, NoTexts)
FreshRow(tag) == [from |-> tag, on |-> FALSE, ver |-> 0]

(* connectedCallback loads; where the first updated does so too, twice.    *)
AutomationReads == {1, 2}
ProjectReads    == {1, 2}
UserReads       == {1}
OrgReads        == {1}
BundleReads     == {1}

FirstReads ==
  CASE section \in Automations -> AutomationReads [] section = "project" -> ProjectReads
    [] section \in {"userCredentials", "preferences"} -> UserReads
    [] section \in {"orgCredentials", "members"} -> OrgReads
    [] section = "bundles" -> BundleReads [] OTHER -> {}

(* Every bundle is there from the start; of the others, any but one.       *)
SettingsInit ==
  /\ section \in Collections \cup Forms \cup {"none"}
  /\ entries \in IF section = "bundles" THEN {[e \in Entry |-> FreshRow(e)]}
                 ELSE IF section \in Collections
                      THEN {[e \in Entry |-> IF e \in there THEN FreshRow(e) ELSE NoEntry] :
                              there \in {t \in SUBSET Entry : t # Entry}}
                      ELSE {NoRows}
  /\ pane = [loading |-> TRUE, failed |-> FALSE, list |-> NoRows,
             knob |-> [e \in Entry |-> FALSE], installing |-> NoEntry]
  /\ editor = [up |-> section = "members", target |-> New, tag |-> New, busy |-> FALSE]
  /\ rotation = [up |-> FALSE, target |-> NoEntry, tag |-> NoEntry]
  /\ asked = {} /\ reads = [i \in 1 .. 2 |-> [NoRead EXCEPT !.at = IF i \in FirstReads THEN "sent" ELSE "none"]]
  /\ form = [stored |-> [f \in Field |-> "one"], typed |-> NoTexts,
             sent |-> NoTexts, dirty |-> FALSE, busy |-> FALSE]
  /\ doubt = FALSE /\ acts = 0 /\ faults = 0

-----------------------------------------------------------------------------
(* What the elements offer.                                                *)
AutomationShown == ~pane.loading
UserPageShown   == ~pane.loading
OrgPageShown    == ~pane.loading
ProjectFormShown == ~pane.loading
BundlesShown    == ~pane.loading /\ ~pane.failed

SectionShown ==
  CASE section \in Automations -> AutomationShown
    [] section \in {"userCredentials", "preferences"} -> UserPageShown
    [] section \in {"orgCredentials", "members"} -> OrgPageShown
    [] section = "project" -> ProjectFormShown [] section = "bundles" -> BundlesShown
    [] OTHER -> FALSE

ReactionHead       == {"new"}
JobHead            == {"new"}
UserCredentialHead == {"add"}
OrgCredentialHead  == {"add"}

Heading ==
  CASE section = "reactions" -> ReactionHead [] section = "jobs" -> JobHead
    [] section = "userCredentials" -> UserCredentialHead [] section = "orgCredentials" -> OrgCredentialHead
    [] OTHER -> {}

ReactionCard       == {"switch", "edit", "delete"}
JobCard            == {"switch", "edit", "delete"}
UserCredentialRow  == {"rotate", "delete"}
OrgCredentialRow   == {"rotate", "delete"}
MemberRow          == {"switch", "delete"}
BundleCard(e) ==
  IF pane.list[e].on \/ pane.installing = e THEN {} ELSE {"install"}

Card(e) ==
  IF pane.list[e] = NoEntry THEN {}
  ELSE CASE section = "reactions" -> ReactionCard [] section = "jobs" -> JobCard
         [] section = "userCredentials" -> UserCredentialRow [] section = "orgCredentials" -> OrgCredentialRow
         [] section = "members" -> MemberRow [] section = "bundles" -> BundleCard(e) [] OTHER -> {}

(* The buttons that end a dialog are busy while their request is under     *)
(* way, the one of a rotation is not.                                      *)
ReactionDialog == IF editor.up /\ ~editor.busy THEN {"save"} ELSE {}
JobDialog      == IF editor.up /\ ~editor.busy THEN {"save"} ELSE {}
AddCredential  == IF editor.up /\ ~editor.busy THEN {"save"} ELSE {}
AddUserCredential == AddCredential
AddOrgCredential  == AddCredential
InviteLine     == IF ~editor.busy THEN {"save"} ELSE {}
UserRotation   == IF rotation.up /\ rotation.tag # NoEntry THEN {"rotate"} ELSE {}
OrgRotation    == IF rotation.up /\ rotation.tag # NoEntry THEN {"rotate"} ELSE {}

Dialogs ==
  CASE section = "reactions" -> ReactionDialog [] section = "jobs" -> JobDialog
    [] section = "userCredentials" -> AddUserCredential \cup UserRotation
    [] section = "orgCredentials" -> AddOrgCredential \cup OrgRotation
    [] section = "members" -> InviteLine [] OTHER -> {}

-----------------------------------------------------------------------------
(* What the user does.                                                     *)
Open == SectionShown /\ UNCHANGED <<section, entries, asked, reads, form, doubt, acts, faults>>
Act  == SectionShown /\ acts < MaxActs /\ acts' = acts + 1 /\ UNCHANGED <<section, entries, reads, form, faults>>

AskFor(op, target, tag, on) ==
  [id |-> acts + 1, op |-> op, target |-> target, tag |-> tag, on |-> on, served |-> "no", row |-> NoEntry]

(* Requests meet when the answers may come in an order of their own.       *)
Meets(target) ==
  \/ \E i \in 1 .. 2 : reads[i].at # "none"
  \/ target # New /\ \E a \in asked : a.target = target

Asks(op, target, tag, on) ==
  /\ Act /\ asked' = asked \cup {AskFor(op, target, tag, on)} /\ doubt' = (doubt \/ Meets(target))

(* The dialogs of reactions and jobs start empty, those of credentials     *)
(* with what was in them when they were left.                              *)
OpenNewReaction == section = "reactions" /\ editor' = [editor EXCEPT !.up = TRUE, !.target = New, !.tag = New]
OpenNewJob      == section = "jobs" /\ editor' = [editor EXCEPT !.up = TRUE, !.target = New, !.tag = New]
ShowAddUser     == section = "userCredentials" /\ editor' = [editor EXCEPT !.up = TRUE]
ShowAddOrg      == section = "orgCredentials" /\ editor' = [editor EXCEPT !.up = TRUE]

OpenNew ==
  /\ Open /\ Heading # {} /\ ~editor.up /\ ~rotation.up
  /\ OpenNewReaction \/ OpenNewJob \/ ShowAddUser \/ ShowAddOrg
  /\ UNCHANGED <<pane, rotation>>

(* Mutant: the dialog shows another record than it will change.            *)
OpenEditReactionText(e) == editor' = [editor EXCEPT !.up = TRUE, !.tag = e]

OpenEditReaction(e) == editor' = [editor EXCEPT !.up = TRUE, !.target = e, !.tag = e]
OpenEditJob(e)      == editor' = [editor EXCEPT !.up = TRUE, !.target = e, !.tag = e]

OpenEdit(e) ==
  /\ Open /\ "edit" \in Card(e) /\ ~editor.up
  /\ \/ section = "reactions" /\ OpenEditReaction(e)
     \/ section = "jobs" /\ OpenEditJob(e)
  /\ UNCHANGED <<pane, rotation>>

(* What a closed dialog still holds is written over when it opens again.   *)
CloseEditor ==
  /\ Open /\ editor.up /\ section # "members" /\ editor' = [editor EXCEPT !.up = FALSE, !.target = New, !.tag = New]
  /\ UNCHANGED <<pane, rotation>>

SaveEditor ==
  /\ "save" \in Dialogs
  /\ Asks(IF editor.target = New THEN "create" ELSE "update", editor.target, editor.tag, FALSE)
  /\ editor' = [editor EXCEPT !.busy = TRUE] /\ UNCHANGED <<pane, rotation>>

(* A switch or a choice turns at once, and sends the opposite of what the  *)
(* list holds.                                                             *)
Switch(e) ==
  /\ "switch" \in Card(e) /\ Asks("switch", e, e, ~pane.list[e].on)
  /\ pane' = [pane EXCEPT !.knob[e] = ~@] /\ UNCHANGED <<editor, rotation>>

DeleteEntry(e) ==
  /\ "delete" \in Card(e) /\ Asks("delete", e, e, FALSE) /\ UNCHANGED <<pane, editor, rotation>>

StartUserRotation(e) == rotation' = [up |-> TRUE, target |-> e, tag |-> NoEntry]
StartOrgRotation(e)  == rotation' = [up |-> TRUE, target |-> e, tag |-> NoEntry]

StartRotate(e) ==
  /\ Open /\ "rotate" \in Card(e) /\ ~rotation.up /\ ~editor.up
  /\ \/ section = "userCredentials" /\ StartUserRotation(e)
     \/ section = "orgCredentials" /\ StartOrgRotation(e)
  /\ UNCHANGED <<pane, editor>>

TypeValue ==
  /\ Open /\ rotation.up /\ rotation.target # NoEntry /\ rotation' = [rotation EXCEPT !.tag = rotation.target]
  /\ UNCHANGED <<pane, editor>>

CloseRotate ==
  /\ Open /\ rotation.up /\ rotation' = [up |-> FALSE, target |-> NoEntry, tag |-> NoEntry]
  /\ UNCHANGED <<pane, editor>>

DoRotate ==
  /\ "rotate" \in Dialogs /\ rotation.target # NoEntry /\ Asks("rotate", rotation.target, rotation.tag, FALSE)
  /\ UNCHANGED <<pane, editor, rotation>>

Install(e) ==
  /\ "install" \in Card(e) /\ Asks("install", e, e, TRUE)
  /\ pane' = [pane EXCEPT !.installing = e] /\ UNCHANGED <<editor, rotation>>

-----------------------------------------------------------------------------
(* The server.                                                             *)
FreeEntry == IF \E e \in Entry : entries[e] = NoEntry THEN CHOOSE e \in Entry : entries[e] = NoEntry ELSE NoEntry

(* The row that a request makes of the one there is.                       *)
RowAfter(a) ==
  LET row == IF a.target = New THEN NoEntry ELSE entries[a.target] IN
  CASE a.op = "create" -> [FreshRow(a.tag) EXCEPT !.from = IF a.tag = New THEN FreeEntry ELSE a.tag]
    [] a.op \in {"update", "rotate"} -> [row EXCEPT !.from = a.tag, !.ver = a.id]
    [] a.op \in {"switch", "install"} -> [row EXCEPT !.on = a.on]
    [] OTHER -> NoEntry

Settled(a, how) == (asked \ {a}) \cup {how}

(* A member who is removed and invited again is the same entry.            *)
ServeAsk(a) ==
  /\ a.served = "no" /\ a.op # "save"
  /\ doubt' = (doubt \/ (a.op = "create" /\ \E o \in asked : o.target = FreeEntry))
  /\ IF a.op = "create"
     THEN /\ \E e \in Entry : entries[e] = NoEntry
          /\ entries' = [entries EXCEPT ![FreeEntry] = RowAfter(a)]
          /\ asked' = Settled(a, [a EXCEPT !.served = "done", !.row = RowAfter(a), !.target = FreeEntry])
     ELSE IF entries[a.target] = NoEntry
     THEN entries' = entries /\ asked' = Settled(a, [a EXCEPT !.served = "refused"])
     ELSE /\ entries' = [entries EXCEPT ![a.target] = RowAfter(a)]
          /\ asked' = Settled(a, [a EXCEPT !.served = "done", !.row = RowAfter(a)])
  /\ UNCHANGED <<section, pane, editor, rotation, reads, form, acts, faults>>

ServeRead(i) ==
  /\ reads[i].at = "sent" /\ reads' = [reads EXCEPT ![i] = Read("read", entries, form.stored)]
  /\ UNCHANGED <<section, entries, pane, editor, rotation, asked, form, doubt, acts, faults>>

-----------------------------------------------------------------------------
(* What the answers change.  A rendering moves a switch when the value     *)
(* that the list holds is another than at the last one.                    *)
Rendered(list) ==
  [e \in Entry |-> IF list[e] = NoEntry THEN FALSE
                   ELSE IF pane.list[e] = NoEntry \/ pane.list[e].on # list[e].on THEN list[e].on
                   ELSE pane.knob[e]]

Listed(list) == [pane EXCEPT !.list = list, !.knob = Rendered(list)]

(* A role is written into the list as it was chosen, the rest as the       *)
(* server answered.                                                        *)
Changed(a) ==
  IF a.op = "create" THEN Listed([pane.list EXCEPT ![a.target] = a.row])
  ELSE IF pane.list[a.target] = NoEntry THEN pane
  ELSE CASE a.op = "delete" -> Listed([pane.list EXCEPT ![a.target] = NoEntry])
         [] a.op = "switch" /\ section = "members" -> Listed([pane.list EXCEPT ![a.target].on = a.on])
         [] OTHER -> Listed([pane.list EXCEPT ![a.target] = a.row])

(* Success closes the dialog, whatever record it is open for by then.      *)
ReactionSaved == [up |-> FALSE, target |-> New, tag |-> New, busy |-> FALSE]
JobSaved      == [up |-> FALSE, target |-> New, tag |-> New, busy |-> FALSE]
UserCredentialAdded == [up |-> FALSE, target |-> New, tag |-> New, busy |-> FALSE]
OrgCredentialAdded  == [up |-> FALSE, target |-> New, tag |-> New, busy |-> FALSE]
MemberInvited == [editor EXCEPT !.busy = FALSE]

Saved ==
  CASE section = "reactions" -> ReactionSaved [] section = "jobs" -> JobSaved
    [] section = "userCredentials" -> UserCredentialAdded [] section = "orgCredentials" -> OrgCredentialAdded
    [] OTHER -> MemberInvited

AskAnswered(a) ==
  /\ a.served = "done" /\ a.op # "save" /\ asked' = asked \ {a}
  /\ editor' = (IF a.op \in {"create", "update"} THEN Saved ELSE editor)
  /\ rotation' = (IF a.op = "rotate" THEN [up |-> FALSE, target |-> NoEntry, tag |-> NoEntry] ELSE rotation)
  /\ IF a.op = "install"
     THEN /\ \E i \in 1 .. 2 : reads[i].at = "none" /\ reads' = [reads EXCEPT ![i].at = "sent"]
          /\ doubt' = (doubt \/ Meets(New)) /\ pane' = [pane EXCEPT !.loading = TRUE]
     ELSE reads' = reads /\ pane' = Changed(a) /\ doubt' = doubt
  /\ UNCHANGED <<section, entries, form, acts, faults>>

(* A request that is refused or lost, or whose answer is lost.  A switch   *)
(* that was turned stays so.                                               *)
AskFails(a) ==
  /\ a.op # "save" /\ asked' = asked \ {a}
  /\ \/ a.served = "refused" /\ UNCHANGED faults
     \/ a.served # "refused" /\ faults < MaxFaults /\ faults' = faults + 1
  /\ doubt' = (doubt \/ a.served = "done" \/ a.op = "switch")
  /\ editor' = (IF a.op \in {"create", "update"} THEN [editor EXCEPT !.busy = FALSE] ELSE editor)
  /\ pane' = (IF a.op = "install" THEN [pane EXCEPT !.failed = TRUE, !.installing = NoEntry] ELSE pane)
  /\ UNCHANGED <<section, entries, rotation, reads, form, acts>>

(* The first answer ends the spinner, the last one is kept.                *)
PanelLoaded(i) == [Listed(reads[i].rows) EXCEPT !.loading = FALSE, !.installing = NoEntry]

ReadAnswered(i) ==
  /\ reads[i].at = "read" /\ reads' = [reads EXCEPT ![i] = NoRead]
  /\ IF section \in Forms
     THEN /\ pane' = [pane EXCEPT !.loading = FALSE]
          /\ form' = [form EXCEPT !.typed = [f \in Field |->
               IF section = "preferences" /\ reads[i].texts[f] = "empty" THEN form.typed[f] ELSE reads[i].texts[f]]]
     ELSE pane' = PanelLoaded(i) /\ UNCHANGED form
  /\ UNCHANGED <<section, entries, editor, rotation, asked, doubt, acts, faults>>

ReadFails(i) ==
  /\ reads[i].at # "none" /\ reads' = [reads EXCEPT ![i] = NoRead]
  /\ faults < MaxFaults /\ faults' = faults + 1 /\ doubt' = TRUE
  /\ pane' = [pane EXCEPT !.loading = FALSE, !.failed = TRUE, !.installing = NoEntry]
  /\ UNCHANGED <<section, entries, editor, rotation, asked, form, acts>>

-----------------------------------------------------------------------------
(* The forms: a field left empty is not sent, but for a project's name.    *)
Sends(f) ==
  CASE section = "project" -> f = "name" \/ form.typed[f] # "empty"
    [] OTHER -> form.typed[f] # "empty"

TypeField(f, x) ==
  /\ section \in Forms /\ SectionShown /\ acts < MaxActs /\ acts' = acts + 1
  /\ form' = [form EXCEPT !.typed[f] = x, !.dirty = TRUE]
  /\ doubt' = (doubt \/ \E i \in 1 .. 2 : reads[i].at # "none")
  /\ UNCHANGED <<section, entries, pane, editor, rotation, asked, reads, faults>>

SaveForm ==
  /\ section \in Forms /\ SectionShown /\ ~form.busy /\ acts < MaxActs /\ acts' = acts + 1
  /\ form' = [form EXCEPT !.busy = TRUE, !.dirty = FALSE,
                         !.sent = [f \in Field |-> IF Sends(f) THEN form.typed[f] ELSE "keep"]]
  /\ asked' = asked \cup {AskFor("save", New, New, FALSE)}
  /\ doubt' = (doubt \/ \E i \in 1 .. 2 : reads[i].at # "none")
  /\ UNCHANGED <<section, entries, pane, editor, rotation, reads, faults>>

ServeSave(a) ==
  /\ a.op = "save" /\ a.served = "no" /\ asked' = Settled(a, [a EXCEPT !.served = "done"])
  /\ form' = [form EXCEPT !.stored = [f \in Field |-> IF form.sent[f] = "keep" THEN form.stored[f] ELSE form.sent[f]]]
  /\ UNCHANGED <<section, entries, pane, editor, rotation, reads, doubt, acts, faults>>

FormSaved(a) ==
  /\ a.op = "save" /\ asked' = asked \ {a} /\ form' = [form EXCEPT !.busy = FALSE]
  /\ \/ a.served = "done" /\ UNCHANGED <<doubt, faults>>
     \/ faults < MaxFaults /\ faults' = faults + 1 /\ doubt' = TRUE
  /\ UNCHANGED <<section, entries, pane, editor, rotation, reads, acts>>

SettingsNext ==
  \/ OpenNew \/ CloseEditor \/ SaveEditor \/ TypeValue \/ CloseRotate \/ DoRotate \/ SaveForm
  \/ \E e \in Entry : OpenEdit(e) \/ Switch(e) \/ DeleteEntry(e) \/ StartRotate(e) \/ Install(e)
  \/ \E a \in asked : ServeAsk(a) \/ AskAnswered(a) \/ AskFails(a) \/ ServeSave(a) \/ FormSaved(a)
  \/ \E i \in 1 .. 2 : ServeRead(i) \/ ReadAnswered(i) \/ ReadFails(i)
  \/ \E f \in Field, x \in Text : TypeField(f, x)

SettingsSpec == SettingsInit /\ [][SettingsNext]_settingsVars

-----------------------------------------------------------------------------
SettingsQuiet == asked = {} /\ (\A i \in 1 .. 2 : reads[i].at = "none") /\ ~doubt

(* What was entered for one record, or for a new one, is never stored in   *)
(* another, however dialogs are opened and closed while requests are under *)
(* way: a credential's new value replaces that credential's.               *)
EditsMatch == \A e \in Entry : entries[e] # NoEntry => entries[e].from = e

(* At rest a list is the server's, its switches stand as the server has    *)
(* them, and a form holds what is stored, but for fields that were         *)
(* emptied: unless requests about one record met, or one failed.           *)
SettingsCurrent ==
  SettingsQuiet =>
    /\ section \in Collections =>
         pane.list = entries /\ \A e \in Entry : entries[e] # NoEntry => pane.knob[e] = entries[e].on
    /\ section \in Forms /\ ~form.dirty =>
         \A f \in Field : form.typed[f] \in {form.stored[f], "empty"}

(* Records get what was entered for them, and the page shows it.           *)
SettingsFollow == EditsMatch /\ SettingsCurrent
=============================================================================
