----------------------------- MODULE PanelProofs ----------------------------
(***************************************************************************)
(* What the pages of the settings, the panels of a session and the pages   *)
(* of signing in show and ask for, proved from the parts' own              *)
(* specifications, for any number of records, entries, addresses, answers  *)
(* under way and losses.                                                   *)
(***************************************************************************)
EXTENDS SettingsPages, SessionPanels, SignIn, TLAPS, FiniteSetTheorems, SequenceTheorems

-----------------------------------------------------------------------------
(* The settings.                                                           *)
PaneType == [loading : BOOLEAN, failed : BOOLEAN, list : Rows, knob : [Entry -> BOOLEAN], installing : Entry \cup {NoEntry}]
PaneFields == {"loading", "failed", "list", "knob", "installing"}
EditorType == [up : BOOLEAN, target : Entry \cup {New}, tag : Entry \cup {New}, busy : BOOLEAN]
RotationType == [up : BOOLEAN, target : Entry \cup {NoEntry}, tag : Entry \cup {NoEntry}]
ReadType == [at : {"none", "sent", "read"}, rows : Rows, texts : [Field -> Text]]
FieldsType == [stored : [Field -> Text], typed : [Field -> Text], sent : [Field -> Text \cup {"keep"}],
             dirty : BOOLEAN, busy : BOOLEAN]

(* The pane is as it was, but for some of its fields.                      *)
PaneKeeps(F) == \A f \in PaneFields \ F : pane'[f] = pane[f]

(* What a request is about.                                                *)
AskFits(a) ==
  /\ a.op = "save" <=> section \in Forms
  /\ a.op = "install" <=> section = "bundles"
  /\ a.op = "save" => a.target = New
  /\ a.op = "create" => IF a.served = "no" THEN a.target = New /\ a.tag = New ELSE a.target \in Entry
  /\ a.op \notin {"save", "create"} => a.target \in Entry
  /\ a.op \in {"update", "rotate"} => a.tag = a.target

(* What the dialogs hold was entered for what they will change.            *)
DialogsFit == editor.tag = editor.target /\ rotation.tag \in {NoEntry, rotation.target}

Reading == \E i \in 1 .. 2 : reads[i].at # "none"
DoneFor(e) == \E a \in asked : a.target = e /\ a.served = "done"

(* A record that was changed before the list knows of it.                  *)
Changing(a) ==
  LET row == pane.list[a.target] IN
  /\ a.row = entries[a.target]
  /\ a.op = "create" => row = NoEntry /\ a.row # NoEntry
  /\ a.op \notin {"create", "install"} => row # NoEntry
  /\ a.op = "delete" => a.row = NoEntry
  /\ a.op = "switch" => a.row # NoEntry /\ a.row = [row EXCEPT !.on = a.on]
  /\ a.op \in {"update", "rotate"} => a.row # NoEntry /\ a.row.on = row.on

(* With no doubt there is one request about a record at a time, and none   *)
(* while a list is loaded that could be older; so a record is as the list  *)
(* has it unless the answer to a request about it is on its way.           *)
ListFits ==
  section \in Collections /\ ~doubt =>
    /\ \A a, b \in asked : a.target = b.target /\ a.target # New => a = b
    /\ section # "bundles" /\ Reading => asked = {}
    /\ section = "bundles" => \A i, j \in 1 .. 2 : reads[i].at # "none" /\ reads[j].at # "none" => i = j
    /\ \A e \in Entry : ~DoneFor(e) =>
         /\ Reading \/ pane.list[e] = entries[e]
         /\ \A i \in 1 .. 2 : reads[i].at = "read" => reads[i].rows[e] = entries[e]
    /\ \A e \in Entry : pane.list[e] # NoEntry =>
         pane.knob[e] = pane.list[e].on \/ \E a \in asked : a.op = "switch" /\ a.target = e
    /\ \A a \in asked : a.op = "switch" => pane.list[a.target] # NoEntry /\ a.on # pane.list[a.target].on
    /\ \A a \in asked : a.served = "done" => Changing(a)

(* With no doubt a form is not touched while it is loaded, and what was    *)
(* sent last is what it holds unless it was typed into since.              *)
TextsFit ==
  section \in Forms /\ ~doubt =>
    /\ asked # {} => form.busy
    /\ \A a, b \in asked : a = b
    /\ Reading => asked = {} /\ ~form.dirty /\ \A f \in Field : form.stored[f] # "empty"
    /\ \A i \in 1 .. 2 : reads[i].at = "read" => reads[i].texts = form.stored
    /\ ~form.dirty /\ (\E a \in asked : a.served = "no") =>
         \A f \in Field : form.sent[f] = form.typed[f] \/ (form.sent[f] = "keep" /\ form.typed[f] = "empty")
    /\ ~form.dirty /\ ~Reading /\ (\A a \in asked : a.served # "no") =>
         \A f \in Field : form.typed[f] \in {form.stored[f], "empty"}

SettingsFit == SettingsTypeOK /\ (\A a \in asked : AskFits(a)) /\ DialogsFit /\ EditsMatch /\ ListFits /\ TextsFit

LEMMA SettingsTypes ==
  SettingsTypeOK <=>
    /\ section \in Collections \cup Forms \cup {"none"} /\ entries \in Rows /\ pane \in PaneType
    /\ editor \in EditorType /\ rotation \in RotationType /\ asked \subseteq Ask
    /\ reads \in [1 .. 2 -> ReadType] /\ form \in FieldsType
    /\ doubt \in BOOLEAN /\ acts \in 0 .. MaxActs /\ faults \in 0 .. MaxFaults
BY DEF SettingsTypeOK, PaneType, EditorType, RotationType, ReadType, FieldsType

LEMMA SettingsTypesNext ==
  ASSUME section' \in Collections \cup Forms \cup {"none"}, entries' \in Rows, pane' \in PaneType,
         editor' \in EditorType, rotation' \in RotationType, asked' \subseteq Ask,
         reads' \in [1 .. 2 -> ReadType], form' \in FieldsType,
         doubt' \in BOOLEAN, acts' \in 0 .. MaxActs, faults' \in 0 .. MaxFaults
  PROVE  SettingsTypeOK'
BY DEF SettingsTypeOK, PaneType, EditorType, RotationType, ReadType, FieldsType

LEMMA SectionsApart ==
  /\ Collections \cap Forms = {} /\ "none" \notin Collections \cup Forms
  /\ "bundles" \in Collections /\ "members" \in Collections /\ Automations \cup Credentials \subseteq Collections
BY DEF Collections, Forms, Automations, Credentials

(* What the buttons offer, section by section.                             *)
LEMMA CardFacts ==
  ASSUME NEW e \in Entry
  PROVE  /\ Card(e) # {} => pane.list[e] # NoEntry
         /\ section \notin Collections => Card(e) = {}
         /\ "install" \in Card(e) => section = "bundles"
         /\ section = "bundles" => Card(e) \subseteq {"install"}
<1>1. CASE pane.list[e] = NoEntry
  BY <1>1, SectionsApart DEF Card
<1>2. CASE pane.list[e] # NoEntry
  <2>1. section \notin Collections => Card(e) = {}
    BY <1>2 DEF Card, Collections, Automations, Credentials
  <2>2. "install" \in Card(e) => section = "bundles"
    BY <1>2 DEF Card, ReactionCard, JobCard, UserCredentialRow, OrgCredentialRow, MemberRow
  <2>3. section = "bundles" => Card(e) \subseteq {"install"}
    BY <1>2 DEF Card, BundleCard
  <2> QED
    BY <1>2, <2>1, <2>2, <2>3
<1> QED
  BY <1>1, <1>2

LEMMA DialogsFacts ==
  /\ Dialogs # {} => section \in Collections /\ section # "bundles"
  /\ "rotate" \in Dialogs => rotation.tag # NoEntry
<1>1. Dialogs # {} => section \in Collections /\ section # "bundles"
  BY DEF Dialogs, Collections, Automations, Credentials
<1>2. "rotate" \in Dialogs => rotation.tag # NoEntry
  BY DEF Dialogs, ReactionDialog, JobDialog, AddUserCredential, AddOrgCredential, AddCredential, UserRotation,
         OrgRotation, InviteLine
<1> QED
  BY <1>1, <1>2

(* A list that is rendered.                                                *)
LEMMA RenderedTyped ==
  ASSUME SettingsTypeOK, NEW rows \in Rows
  PROVE  /\ Rendered(rows) \in [Entry -> BOOLEAN]
         /\ \A e \in Entry : Rendered(rows)[e] =
              IF rows[e] = NoEntry THEN FALSE
              ELSE IF pane.list[e] = NoEntry \/ pane.list[e].on # rows[e].on THEN rows[e].on
              ELSE pane.knob[e]
<1>1. pane.knob \in [Entry -> BOOLEAN] /\ rows \in [Entry -> Row \cup {NoEntry}]
  BY DEF SettingsTypeOK, Rows
<1>2. \A e \in Entry : rows[e] # NoEntry => rows[e].on \in BOOLEAN
  BY <1>1 DEF Row
<1> QED
  BY <1>1, <1>2 DEF Rendered

LEMMA ListedFacts ==
  ASSUME SettingsTypeOK, NEW rows \in Rows, NEW p, p = Listed(rows)
  PROVE  /\ p \in PaneType /\ p.list = rows /\ p.knob = Rendered(rows)
         /\ p.loading = pane.loading /\ p.failed = pane.failed /\ p.installing = pane.installing
<1> DEFINE knob == Rendered(rows)
<1>1. pane \in PaneType /\ knob \in [Entry -> BOOLEAN]
  BY SettingsTypes, RenderedTyped
<1>2. p = [pane EXCEPT !.list = rows, !.knob = knob]
  BY DEF Listed
<1> HIDE DEF knob
<1>3. p \in PaneType
  BY <1>1, <1>2 DEF PaneType
<1>4. /\ p.list = rows /\ p.knob = knob
      /\ p.loading = pane.loading /\ p.failed = pane.failed /\ p.installing = pane.installing
  BY <1>1, <1>2 DEF PaneType
<1> QED
  BY <1>3, <1>4 DEF knob

LEMMA RowPut ==
  ASSUME NEW rows \in Rows, NEW e \in Entry, NEW r \in Row \cup {NoEntry}
  PROVE  /\ [rows EXCEPT ![e] = r] \in Rows /\ [rows EXCEPT ![e] = r][e] = r
         /\ \A x \in Entry \ {e} : [rows EXCEPT ![e] = r][x] = rows[x]
BY DEF Rows

LEMMA RowSwitched ==
  ASSUME NEW r \in Row, NEW b \in BOOLEAN, NEW q, q = [r EXCEPT !.on = b]
  PROVE  q \in Row /\ q.from = r.from /\ q.on = b
BY DEF Row

(* What the server makes of a record.                                      *)
LEMMA RowAfterFacts ==
  ASSUME SettingsTypeOK, EditsMatch, NEW a \in asked, AskFits(a), a.served = "no", a.op # "save",
         IF a.op = "create" THEN \E e \in Entry : entries[e] = NoEntry ELSE entries[a.target] # NoEntry
  PROVE  LET t == IF a.op = "create" THEN FreeEntry ELSE a.target IN
         /\ t \in Entry /\ RowAfter(a) \in Row \cup {NoEntry}
         /\ RowAfter(a) # NoEntry => RowAfter(a).from = t
         /\ a.op = "create" => entries[t] = NoEntry /\ RowAfter(a) # NoEntry
         /\ a.op = "delete" => RowAfter(a) = NoEntry
         /\ a.op \in {"switch", "install"} => RowAfter(a) # NoEntry /\ RowAfter(a) = [entries[t] EXCEPT !.on = a.on]
         /\ a.op \in {"update", "rotate"} => RowAfter(a) # NoEntry /\ RowAfter(a).on = entries[t].on
<1>0. /\ a \in Ask /\ a.op \in {"create", "update", "switch", "delete", "rotate", "install", "save"}
      /\ a.id \in 1 .. MaxActs /\ a.on \in BOOLEAN /\ NoEntry \notin Row
  BY SettingsAssumption DEF SettingsTypeOK, Ask
<1>1. CASE a.op = "create"
  <2>1. FreeEntry \in Entry /\ entries[FreeEntry] = NoEntry
    BY <1>1 DEF FreeEntry
  <2>2. RowAfter(a) = [FreshRow(a.tag) EXCEPT !.from = FreeEntry]
    BY <1>1 DEF RowAfter, AskFits
  <2>3. FreshRow(a.tag) \in Row
    BY <1>1, SettingsAssumption DEF FreshRow, Row, AskFits
  <2>4. RowAfter(a) \in Row /\ RowAfter(a).from = FreeEntry
    BY <2>1, <2>2, <2>3 DEF Row
  <2> QED
    BY <1>0, <1>1, <2>1, <2>4
<1>2. CASE a.op # "create"
  <2> DEFINE row == entries[a.target]
  <2>1. a.target \in Entry /\ a.target # New /\ row \in Row /\ row.from = a.target
    BY <1>0, <1>2, SettingsAssumption DEF AskFits, SettingsTypeOK, Rows, EditsMatch
  <2> HIDE DEF row
  <2>2. CASE a.op = "delete"
    <3>1. RowAfter(a) = NoEntry
      BY <2>2 DEF RowAfter
    <3> QED
      BY <2>1, <2>2, <3>1
  <2>3. CASE a.op \in {"switch", "install"}
    <3>1. RowAfter(a) = [row EXCEPT !.on = a.on]
      BY <2>1, <2>3 DEF RowAfter, row
    <3>2. RowAfter(a) \in Row /\ RowAfter(a).from = a.target
      BY <1>0, <2>1, <3>1, RowSwitched
    <3> QED
      BY <1>0, <2>1, <2>3, <3>1, <3>2 DEF row
  <2>4. CASE a.op \in {"update", "rotate"}
    <3>1. RowAfter(a) = [row EXCEPT !.from = a.tag, !.ver = a.id]
      BY <2>1, <2>4 DEF RowAfter, row
    <3>2. a.tag = a.target /\ a.tag \in Entry \cup {New} /\ a.id \in 0 .. MaxActs
      BY <1>0, <2>1, <2>4, SettingsAssumption DEF AskFits
    <3>3. RowAfter(a) \in Row
      BY <2>1, <3>1, <3>2 DEF Row
    <3>4. RowAfter(a).from = a.target /\ RowAfter(a).on = row.on
      BY <2>1, <3>1, <3>2 DEF Row
    <3> QED
      BY <1>0, <2>1, <2>4, <3>3, <3>4 DEF row
  <2> QED
    BY <1>0, <1>2, <2>2, <2>3, <2>4
<1> QED
  BY <1>1, <1>2

(* The server does what was asked, or has nothing to do it to.             *)
LEMMA ServeFacts ==
  ASSUME SettingsTypeOK, EditsMatch, NEW a \in asked, AskFits(a), ServeAsk(a)
  PROVE  /\ a.served = "no" /\ a.op # "save"
         /\ doubt' = (doubt \/ (a.op = "create" /\ \E o \in asked : o.target = FreeEntry))
         /\ UNCHANGED <<section, pane, editor, rotation, reads, form, acts, faults>>
         /\ \/ \E b \in Ask :
                 /\ entries' = entries /\ a.op # "create" /\ a.target \in Entry /\ entries[a.target] = NoEntry
                 /\ asked' = (asked \ {a}) \cup {b}
                 /\ b.target = a.target /\ b.op = a.op /\ b.on = a.on /\ b.tag = a.tag /\ b.served = "refused"
            \/ \E b \in Ask, t \in Entry :
                 /\ t = (IF a.op = "create" THEN FreeEntry ELSE a.target)
                 /\ IF a.op = "create" THEN \E e \in Entry : entries[e] = NoEntry ELSE entries[t] # NoEntry
                 /\ entries' = [entries EXCEPT ![t] = b.row] /\ b.row = RowAfter(a)
                 /\ asked' = (asked \ {a}) \cup {b}
                 /\ b.target = t /\ b.op = a.op /\ b.on = a.on /\ b.tag = a.tag /\ b.served = "done"
<1>0. /\ a \in Ask /\ a.served = "no" /\ a.op # "save"
      /\ doubt' = (doubt \/ (a.op = "create" /\ \E o \in asked : o.target = FreeEntry))
      /\ UNCHANGED <<section, pane, editor, rotation, reads, form, acts, faults>>
  BY DEF ServeAsk, SettingsTypeOK
<1> DEFINE row == RowAfter(a)
<1>1. CASE a.op = "create"
  <2> DEFINE b == [a EXCEPT !.served = "done", !.row = row, !.target = FreeEntry]
  <2>1. /\ \E e \in Entry : entries[e] = NoEntry
        /\ entries' = [entries EXCEPT ![FreeEntry] = row]
        /\ asked' = (asked \ {a}) \cup {b}
    BY <1>1, Zenon DEF ServeAsk, Settled
  <2>2. FreeEntry \in Entry /\ row \in Row \cup {NoEntry}
    BY <1>0, <1>1, <2>1, RowAfterFacts
  <2> HIDE DEF row
  <2>3. b \in Ask
    BY <1>0, <2>2 DEF Ask
  <2>4. b.target = FreeEntry /\ b.op = a.op /\ b.on = a.on /\ b.tag = a.tag /\ b.served = "done" /\ b.row = row
    BY <1>0 DEF Ask
  <2> HIDE DEF b
  <2> QED
    BY <1>0, <1>1, <2>1, <2>2, <2>3, <2>4 DEF row
<1>2. CASE a.op # "create" /\ entries[a.target] = NoEntry
  <2> DEFINE b == [a EXCEPT !.served = "refused"]
  <2>1. entries' = entries /\ asked' = (asked \ {a}) \cup {b} /\ a.target \in Entry
    BY <1>0, <1>2 DEF ServeAsk, Settled, AskFits
  <2>2. /\ b \in Ask /\ b.target = a.target /\ b.op = a.op /\ b.on = a.on /\ b.tag = a.tag /\ b.served = "refused"
    BY <1>0 DEF Ask
  <2> HIDE DEF b
  <2> QED
    BY <1>0, <1>2, <2>1, <2>2
<1>3. CASE a.op # "create" /\ entries[a.target] # NoEntry
  <2> DEFINE b == [a EXCEPT !.served = "done", !.row = row]
  <2>1. /\ entries' = [entries EXCEPT ![a.target] = row]
        /\ asked' = (asked \ {a}) \cup {b}
    BY <1>3, Zenon DEF ServeAsk, Settled
  <2>2. a.target \in Entry /\ row \in Row \cup {NoEntry}
    BY <1>0, <1>3, RowAfterFacts
  <2> HIDE DEF row
  <2>3. b \in Ask
    BY <1>0, <2>2 DEF Ask
  <2>4. b.target = a.target /\ b.op = a.op /\ b.on = a.on /\ b.tag = a.tag /\ b.served = "done" /\ b.row = row
    BY <1>0 DEF Ask
  <2> HIDE DEF b
  <2> QED
    BY <1>0, <1>3, <2>1, <2>2, <2>3, <2>4 DEF row
<1> QED
  BY <1>1, <1>2, <1>3

(* What an answer leaves in the pane.                                      *)
LEMMA ChangedTyped ==
  ASSUME SettingsTypeOK, NEW a \in asked, AskFits(a), a.served = "done", a.op \notin {"save", "install"}
  PROVE  Changed(a) \in PaneType
<1>1. /\ a.target \in Entry /\ a.row \in Row \cup {NoEntry} /\ a.on \in BOOLEAN /\ pane.list \in Rows
      /\ pane \in PaneType /\ NoEntry \in Row \cup {NoEntry}
  BY SettingsTypes DEF AskFits, Ask, PaneType
<1>2. ASSUME NEW r \in Row \cup {NoEntry}
      PROVE  Listed([pane.list EXCEPT ![a.target] = r]) \in PaneType
  BY <1>1, RowPut, ListedFacts
<1>3. ASSUME pane.list[a.target] # NoEntry
      PROVE  Listed([pane.list EXCEPT ![a.target].on = a.on]) \in PaneType
  <2>1. pane.list[a.target] \in Row
    BY <1>1, <1>3 DEF Rows
  <2> DEFINE r == [pane.list[a.target] EXCEPT !.on = a.on]
  <2>2. r \in Row
    BY <1>1, <2>1, RowSwitched
  <2>3. [pane.list EXCEPT ![a.target].on = a.on] = [pane.list EXCEPT ![a.target] = r]
    BY <1>1 DEF Rows
  <2> HIDE DEF r
  <2> QED
    BY <1>2, <2>2, <2>3
<1> QED
  BY <1>1, <1>2, <1>3 DEF Changed

LEMMA ChangedFacts ==
  ASSUME SettingsTypeOK, NEW a \in asked, AskFits(a), a.served = "done", a.op \notin {"save", "install"}, Changing(a)
  PROVE  Changed(a).list = [pane.list EXCEPT ![a.target] = a.row] /\ Changed(a).knob = Rendered(Changed(a).list)
<1>1. /\ a.target \in Entry /\ a.row \in Row \cup {NoEntry} /\ pane.list \in Rows
      /\ a.op \in {"create", "update", "switch", "delete", "rotate"}
  BY SettingsTypes DEF AskFits, Ask, PaneType
<1> DEFINE rows == [pane.list EXCEPT ![a.target] = a.row]
<1>2. rows \in Rows
  BY <1>1, RowPut
<1>3. Changed(a) = Listed(rows)
  <2>1. CASE a.op = "create"
    BY <2>1 DEF Changed
  <2>2. CASE a.op # "create"
    <3>1. pane.list[a.target] # NoEntry
      BY <1>1, <2>2 DEF Changing
    <3>2. CASE a.op = "delete"
      BY <2>2, <3>1, <3>2 DEF Changed, Changing
    <3>3. CASE a.op = "switch" /\ section = "members"
      <4>1. [pane.list EXCEPT ![a.target].on = a.on] = rows
        BY <1>1, <3>3 DEF Changing, Rows
      <4> QED
        BY <2>2, <3>1, <3>3, <4>1 DEF Changed
    <3>4. CASE a.op # "delete" /\ ~(a.op = "switch" /\ section = "members")
      BY <2>2, <3>1, <3>4 DEF Changed
    <3> QED
      BY <3>2, <3>3, <3>4
  <2> QED
    BY <2>1, <2>2
<1> HIDE DEF rows
<1> QED
  BY <1>2, <1>3, ListedFacts DEF rows

(* What the user asks for.                                                 *)
LEMMA AsksFacts ==
  ASSUME SettingsTypeOK, NEW op \in {"create", "update", "switch", "delete", "rotate", "install", "save"},
         NEW t \in Entry \cup {New}, NEW tag \in Entry \cup {New}, NEW on \in BOOLEAN, Asks(op, t, tag, on)
  PROVE  /\ acts' \in 0 .. MaxActs /\ UNCHANGED <<section, entries, reads, form, faults>>
         /\ doubt' = (doubt \/ Meets(t)) /\ doubt' \in BOOLEAN
         /\ asked' = asked \cup {AskFor(op, t, tag, on)} /\ asked' \subseteq Ask
         /\ LET a == AskFor(op, t, tag, on) IN
            a.op = op /\ a.target = t /\ a.tag = tag /\ a.on = on /\ a.served = "no"
<1> DEFINE a == AskFor(op, t, tag, on)
<1>1. acts + 1 \in 1 .. MaxActs /\ acts' = acts + 1 /\ UNCHANGED <<section, entries, reads, form, faults>>
  BY SettingsAssumption DEF Asks, Act, SettingsTypeOK
<1>2. a \in Ask /\ a.op = op /\ a.target = t /\ a.tag = tag /\ a.on = on /\ a.served = "no"
  BY <1>1 DEF AskFor, Ask
<1>3. doubt' = (doubt \/ Meets(t)) /\ asked' = asked \cup {a}
  BY DEF Asks
<1>4. doubt \in BOOLEAN /\ asked \subseteq Ask /\ Meets(t) \in BOOLEAN
  BY DEF SettingsTypeOK, Meets
<1> HIDE DEF a
<1>5. doubt' \in BOOLEAN
  BY <1>3, <1>4
<1>6. acts' \in 0 .. MaxActs
  BY <1>1
<1> QED
  BY <1>1, <1>2, <1>3, <1>4, <1>5, <1>6 DEF a

(* Every button that asks for something about records.                     *)
UserAsks == SaveEditor \/ DoRotate \/ \E e \in Entry : Switch(e) \/ DeleteEntry(e) \/ Install(e)

(* The request fits, and of the pane at most the switch that was turned    *)
(* and what is being installed have changed.                               *)
LEMMA UserAsksFacts ==
  ASSUME SettingsTypeOK, DialogsFit, UserAsks
  PROVE  \E op \in {"create", "update", "switch", "delete", "rotate", "install"},
            t \in Entry \cup {New}, tag \in Entry \cup {New}, on \in BOOLEAN :
           /\ Asks(op, t, tag, on) /\ section \in Collections
           /\ op = "install" <=> section = "bundles"
           /\ op = "create" <=> t = New
           /\ op = "create" => tag = New
           /\ op \in {"update", "rotate"} => tag = t
           /\ op = "switch" => pane.list[t] # NoEntry /\ on = ~pane.list[t].on
           /\ pane' \in PaneType /\ pane'.list = pane.list
           /\ \A e \in Entry : pane'.knob[e] = pane.knob[e] \/ (op = "switch" /\ e = t)
           /\ editor' \in EditorType /\ editor'.tag = editor.tag /\ editor'.target = editor.target /\ UNCHANGED rotation
<1> DEFINE Kept(op, t) ==
      /\ pane' \in PaneType /\ pane'.list = pane.list
      /\ \A e \in Entry : pane'.knob[e] = pane.knob[e] \/ (op = "switch" /\ e = t)
      /\ editor' \in EditorType /\ editor'.tag = editor.tag /\ editor'.target = editor.target /\ UNCHANGED rotation
    Right(op, t, tag, on) ==
      /\ Asks(op, t, tag, on) /\ section \in Collections
      /\ op = "install" <=> section = "bundles"
      /\ op = "create" <=> t = New
      /\ op = "create" => tag = New
      /\ op \in {"update", "rotate"} => tag = t
      /\ op = "switch" => pane.list[t] # NoEntry /\ on = ~pane.list[t].on
<1>0. /\ pane \in PaneType /\ editor \in EditorType /\ rotation \in RotationType /\ New \notin Entry
      /\ NoEntry \notin Entry /\ NoEntry # New /\ TRUE \in BOOLEAN /\ FALSE \in BOOLEAN
  BY SettingsTypes, SettingsAssumption
<1>1. SUFFICES \E op \in {"create", "update", "switch", "delete", "rotate", "install"},
                  t \in Entry \cup {New}, tag \in Entry \cup {New}, on \in BOOLEAN :
                 Right(op, t, tag, on) /\ Kept(op, t)
  OBVIOUS
<1> DEFINE Goal == \E op \in {"create", "update", "switch", "delete", "rotate", "install"},
                      t \in Entry \cup {New}, tag \in Entry \cup {New}, on \in BOOLEAN :
                     Right(op, t, tag, on) /\ Kept(op, t)
<1>2. ASSUME UNCHANGED <<pane, rotation>>, editor' \in {editor, [editor EXCEPT !.busy = TRUE]}
      PROVE  \A op, t : Kept(op, t)
  BY <1>0, <1>2 DEF EditorType
<1>3. ASSUME SaveEditor
      PROVE  Goal
  <2> DEFINE op == IF editor.target = New THEN "create" ELSE "update"
  <2>1. Asks(op, editor.target, editor.tag, FALSE) /\ "save" \in Dialogs
    BY <1>3 DEF SaveEditor
  <2>2. section \in Collections /\ section # "bundles"
    BY <2>1, DialogsFacts
  <2>3. editor.target \in Entry \cup {New} /\ editor.tag = editor.target
    BY <1>0 DEF EditorType, DialogsFit
  <2>4. op \in {"create", "update"} /\ (op = "create" <=> editor.target = New)
    OBVIOUS
  <2>5. Kept(op, editor.target)
    BY <1>2, <1>3 DEF SaveEditor
  <2> HIDE DEF op, Kept
  <2>6. Right(op, editor.target, editor.tag, FALSE)
    BY <2>1, <2>2, <2>3, <2>4
  <2> HIDE DEF Right
  <2> QED
    BY <2>3, <2>4, <2>5, <2>6
<1>4. ASSUME DoRotate
      PROVE  Goal
  <2>1. /\ Asks("rotate", rotation.target, rotation.tag, FALSE) /\ "rotate" \in Dialogs /\ rotation.target # NoEntry
    BY <1>4 DEF DoRotate
  <2>2. section \in Collections /\ section # "bundles" /\ rotation.tag # NoEntry
    BY <2>1, DialogsFacts
  <2>3. rotation.target \in Entry /\ rotation.tag = rotation.target
    BY <1>0, <2>1, <2>2 DEF RotationType, DialogsFit
  <2>4. Kept("rotate", rotation.target)
    BY <1>2, <1>4 DEF DoRotate
  <2> HIDE DEF Kept
  <2>5. Right("rotate", rotation.target, rotation.tag, FALSE)
    BY <1>0, <2>1, <2>2, <2>3
  <2> HIDE DEF Right
  <2> QED
    BY <2>3, <2>4, <2>5
<1>5. ASSUME NEW e \in Entry, Switch(e)
      PROVE  Goal
  <2> DEFINE on == ~pane.list[e].on
  <2>1. /\ Asks("switch", e, e, on) /\ "switch" \in Card(e) /\ UNCHANGED <<editor, rotation>>
        /\ pane' = [pane EXCEPT !.knob[e] = ~@]
    BY <1>5 DEF Switch
  <2>2. pane.list[e] # NoEntry /\ section \in Collections /\ section # "bundles"
    BY <2>1, CardFacts
  <2>3. on \in BOOLEAN
    OBVIOUS
  <2>4. Kept("switch", e)
    <3> DEFINE k == [pane.knob EXCEPT ![e] = ~@]
    <3>1. k \in [Entry -> BOOLEAN] /\ \A x \in Entry \ {e} : k[x] = pane.knob[x]
      BY <1>0 DEF PaneType
    <3>2. pane' = [pane EXCEPT !.knob = k]
      BY <2>1
    <3> HIDE DEF k
    <3>3. pane' \in PaneType /\ pane'.list = pane.list /\ pane'.knob = k
      BY <1>0, <3>1, <3>2 DEF PaneType
    <3> QED
      BY <1>0, <2>1, <3>1, <3>3
  <2> HIDE DEF Kept
  <2>5. Right("switch", e, e, on)
    BY <1>0, <2>1, <2>2
  <2> HIDE DEF Right, on
  <2> QED
    BY <2>3, <2>4, <2>5
<1>6. ASSUME NEW e \in Entry, DeleteEntry(e)
      PROVE  Goal
  <2>1. Asks("delete", e, e, FALSE) /\ "delete" \in Card(e) /\ UNCHANGED <<pane, editor, rotation>>
    BY <1>6 DEF DeleteEntry
  <2>2. section \in Collections /\ section # "bundles"
    BY <2>1, CardFacts
  <2>3. Kept("delete", e)
    BY <1>2, <2>1
  <2> HIDE DEF Kept
  <2>4. Right("delete", e, e, FALSE)
    BY <1>0, <2>1, <2>2
  <2> HIDE DEF Right
  <2> QED
    BY <2>3, <2>4
<1>7. ASSUME NEW e \in Entry, Install(e)
      PROVE  Goal
  <2>1. /\ Asks("install", e, e, TRUE) /\ "install" \in Card(e) /\ UNCHANGED <<editor, rotation>>
        /\ pane' = [pane EXCEPT !.installing = e]
    BY <1>7 DEF Install
  <2>2. section = "bundles" /\ section \in Collections
    BY <2>1, CardFacts
  <2>3. Kept("install", e)
    <3>1. pane' \in PaneType /\ pane'.list = pane.list /\ pane'.knob = pane.knob
      BY <1>0, <2>1 DEF PaneType
    <3> QED
      BY <1>0, <2>1, <3>1
  <2> HIDE DEF Kept
  <2>4. Right("install", e, e, TRUE)
    BY <1>0, <2>1, <2>2
  <2> HIDE DEF Right
  <2> QED
    BY <2>3, <2>4
<1> HIDE DEF Goal
<1>8. Goal
  BY <1>3, <1>4, <1>5, <1>6, <1>7 DEF UserAsks
<1> QED
  BY <1>8 DEF Goal

LEMMA SettingsFacts ==
  ASSUME SettingsFit
  PROVE  /\ section \in Collections \cup Forms \cup {"none"} /\ entries \in Rows /\ pane \in PaneType
         /\ editor \in EditorType /\ rotation \in RotationType /\ asked \subseteq Ask
         /\ reads \in [1 .. 2 -> ReadType] /\ form \in FieldsType
         /\ doubt \in BOOLEAN /\ acts \in 0 .. MaxActs /\ faults \in 0 .. MaxFaults
         /\ pane.list \in Rows /\ pane.knob \in [Entry -> BOOLEAN] /\ form.stored \in [Field -> Text]
BY SettingsTypes DEF SettingsFit, PaneType, FieldsType

(* Dialogs that are opened, filled in and closed.                          *)
DialogSteps ==
  OpenNew \/ CloseEditor \/ TypeValue \/ CloseRotate \/ \E e \in Entry : OpenEdit(e) \/ StartRotate(e)

LEMMA DialogStepsFit ==
  ASSUME SettingsFit, DialogSteps
  PROVE  SettingsFit'
<1>0. /\ editor \in EditorType /\ rotation \in RotationType /\ DialogsFit /\ SettingsTypeOK
      /\ New \notin Entry /\ NoEntry \notin Entry
  BY SettingsFacts, SettingsAssumption DEF SettingsFit
<1> DEFINE Goal == editor' \in EditorType /\ rotation' \in RotationType /\ DialogsFit'
           Kept == UNCHANGED <<section, entries, pane, asked, reads, form, doubt, acts, faults>>
<1>1. ASSUME UNCHANGED rotation, NEW t \in Entry \cup {New},
             editor' = [editor EXCEPT !.up = TRUE, !.target = t, !.tag = t]
      PROVE  Goal
  <2>1. editor' \in EditorType
    BY <1>0, <1>1 DEF EditorType
  <2>2. editor'.tag = t /\ editor'.target = t
    BY <1>0, <1>1 DEF EditorType
  <2> QED
    BY <1>0, <1>1, <2>1, <2>2 DEF DialogsFit
<1>2. ASSUME UNCHANGED editor, rotation' \in RotationType, rotation'.tag \in {NoEntry, rotation'.target}
      PROVE  Goal
  BY <1>0, <1>2 DEF DialogsFit
<1>3. OpenNew => Goal /\ Kept
  <2>1. ASSUME OpenNew, editor' = [editor EXCEPT !.up = TRUE]
        PROVE  Goal
    <3>1. editor' \in EditorType /\ editor'.tag = editor.tag /\ editor'.target = editor.target
      BY <1>0, <2>1 DEF EditorType
    <3> QED
      BY <1>0, <2>1, <3>1 DEF OpenNew, DialogsFit
  <2>2. ASSUME OpenNew, editor' = [editor EXCEPT !.up = TRUE, !.target = New, !.tag = New]
        PROVE  Goal
    BY <1>1, <2>2 DEF OpenNew
  <2> HIDE DEF Goal
  <2> QED
    BY <2>1, <2>2 DEF OpenNew, Open, OpenNewReaction, OpenNewJob, ShowAddUser, ShowAddOrg
<1>4. ASSUME NEW e \in Entry, OpenEdit(e)
      PROVE  Goal /\ Kept
  <2>1. UNCHANGED rotation /\ editor' = [editor EXCEPT !.up = TRUE, !.target = e, !.tag = e]
    BY <1>4 DEF OpenEdit, OpenEditReaction, OpenEditJob
  <2>2. Goal
    BY <1>1, <2>1
  <2> HIDE DEF Goal
  <2> QED
    BY <1>4, <2>2 DEF OpenEdit, Open
<1>5. CloseEditor => Goal /\ Kept
  <2>1. ASSUME CloseEditor
        PROVE  Goal
    <3>1. editor' = [editor EXCEPT !.up = FALSE, !.target = New, !.tag = New] /\ UNCHANGED rotation
      BY <2>1 DEF CloseEditor
    <3>2. editor' \in EditorType
      BY <1>0, <3>1 DEF EditorType
    <3>3. editor'.tag = New /\ editor'.target = New
      BY <1>0, <3>1 DEF EditorType
    <3> QED
      BY <1>0, <3>1, <3>2, <3>3 DEF DialogsFit
  <2> HIDE DEF Goal
  <2> QED
    BY <2>1 DEF CloseEditor, Open
<1>6. ASSUME NEW e \in Entry, StartRotate(e)
      PROVE  Goal /\ Kept
  <2>1. UNCHANGED editor /\ rotation' = [up |-> TRUE, target |-> e, tag |-> NoEntry]
    BY <1>6 DEF StartRotate, StartUserRotation, StartOrgRotation
  <2>2. Goal
    BY <1>2, <2>1 DEF RotationType
  <2> HIDE DEF Goal
  <2> QED
    BY <1>6, <2>2 DEF StartRotate, Open
<1>7. TypeValue => Goal /\ Kept
  <2>1. ASSUME TypeValue
        PROVE  Goal
    <3>1. UNCHANGED editor /\ rotation' = [rotation EXCEPT !.tag = rotation.target]
      BY <2>1 DEF TypeValue
    <3> QED
      BY <1>0, <1>2, <3>1 DEF RotationType
  <2> HIDE DEF Goal
  <2> QED
    BY <2>1 DEF TypeValue, Open
<1>8. CloseRotate => Goal /\ Kept
  <2>1. ASSUME CloseRotate
        PROVE  Goal
    <3>1. UNCHANGED editor /\ rotation' = [up |-> FALSE, target |-> NoEntry, tag |-> NoEntry]
      BY <2>1 DEF CloseRotate
    <3> QED
      BY <1>2, <3>1 DEF RotationType
  <2> HIDE DEF Goal
  <2> QED
    BY <2>1 DEF CloseRotate, Open
<1> HIDE DEF Goal, Kept
<1>9. Goal /\ Kept
  BY <1>3, <1>4, <1>5, <1>6, <1>7, <1>8 DEF DialogSteps
<1>10. SettingsTypeOK'
  BY <1>9, SettingsFacts, SettingsTypesNext DEF Goal, Kept
<1>11. (\A a \in asked : AskFits(a))' /\ EditsMatch' /\ ListFits' /\ TextsFit'
  BY <1>9 DEF Kept, SettingsFit, AskFits, EditsMatch, ListFits, TextsFit, Reading, DoneFor, Changing
<1> QED
  BY <1>9, <1>10, <1>11 DEF SettingsFit, Goal

(* A request about records.                                                *)
LEMMA UserAsksFit ==
  ASSUME SettingsFit, UserAsks
  PROVE  SettingsFit'
<1>0. /\ SettingsTypeOK /\ DialogsFit /\ section \in Collections \cup Forms \cup {"none"} /\ asked \subseteq Ask
      /\ New \notin Entry /\ doubt \in BOOLEAN /\ rotation \in RotationType /\ reads \in [1 .. 2 -> ReadType]
  BY SettingsFacts, SettingsAssumption DEF SettingsFit
<1>1. PICK op \in {"create", "update", "switch", "delete", "rotate", "install"},
           t \in Entry \cup {New}, tag \in Entry \cup {New}, on \in BOOLEAN :
         /\ Asks(op, t, tag, on) /\ section \in Collections
         /\ op = "install" <=> section = "bundles"
         /\ op = "create" <=> t = New
         /\ op = "create" => tag = New
         /\ op \in {"update", "rotate"} => tag = t
         /\ op = "switch" => pane.list[t] # NoEntry /\ on = ~pane.list[t].on
         /\ pane' \in PaneType /\ pane'.list = pane.list
         /\ \A e \in Entry : pane'.knob[e] = pane.knob[e] \/ (op = "switch" /\ e = t)
         /\ editor' \in EditorType /\ editor'.tag = editor.tag /\ editor'.target = editor.target /\ UNCHANGED rotation
  BY <1>0, UserAsksFacts
<1> DEFINE a == AskFor(op, t, tag, on)
<1>2. /\ acts' \in 0 .. MaxActs /\ UNCHANGED <<section, entries, reads, form, faults>>
      /\ doubt' = (doubt \/ Meets(t)) /\ doubt' \in BOOLEAN
      /\ asked' = asked \cup {a} /\ asked' \subseteq Ask
      /\ a.op = op /\ a.target = t /\ a.tag = tag /\ a.on = on /\ a.served = "no"
  BY <1>0, <1>1, AsksFacts
<1> HIDE DEF a
<1>3. SettingsTypeOK'
  BY <1>1, <1>2, SettingsFacts, SettingsTypesNext
<1>4. AskFits(a) /\ section \notin Forms
  BY <1>1, <1>2, SectionsApart DEF AskFits
<1>5. \A b \in asked' : AskFits(b)'
  BY <1>2, <1>4 DEF AskFits, SettingsFit
<1>6. DialogsFit' /\ EditsMatch' /\ TextsFit'
  BY <1>0, <1>1, <1>2, <1>4 DEF DialogsFit, EditsMatch, TextsFit, SettingsFit
<1>7. ListFits'
  <2> SUFFICES ASSUME ~doubt, ~Meets(t)
               PROVE  ListFits'
    BY <1>2 DEF ListFits
  <2>1. ~Reading /\ (t # New => \A b \in asked : b.target # t)
    BY DEF Meets, Reading
  <2>2. /\ \A b, c \in asked : b.target = c.target /\ b.target # New => b = c
        /\ \A e \in Entry : ~DoneFor(e) => pane.list[e] = entries[e]
        /\ \A e \in Entry : pane.list[e] # NoEntry =>
             pane.knob[e] = pane.list[e].on \/ \E b \in asked : b.op = "switch" /\ b.target = e
        /\ \A b \in asked : b.op = "switch" => pane.list[b.target] # NoEntry /\ b.on # pane.list[b.target].on
        /\ \A b \in asked : b.served = "done" => Changing(b)
    BY <1>1, <2>1 DEF SettingsFit, ListFits
  <2>3. \A b, c \in asked' : b.target = c.target /\ b.target # New => b = c
    BY <1>2, <2>1, <2>2
  <2>4. ~Reading' /\ \A i \in 1 .. 2 : reads'[i].at # "read" /\ reads'[i].at = "none"
    BY <1>2, <2>1 DEF Reading
  <2>5. \A e \in Entry : DoneFor(e) => DoneFor(e)'
    BY <1>2 DEF DoneFor
  <2>6. \A e \in Entry : ~DoneFor(e)' => pane'.list[e] = entries'[e]
    BY <1>1, <1>2, <2>2, <2>5
  <2>7. ASSUME NEW e \in Entry, pane'.list[e] # NoEntry
        PROVE  pane'.knob[e] = pane'.list[e].on \/ \E b \in asked' : b.op = "switch" /\ b.target = e
    BY <1>1, <1>2, <2>2, <2>7
  <2>8. ASSUME NEW b \in asked', b.op = "switch"
        PROVE  pane'.list[b.target] # NoEntry /\ b.on # pane'.list[b.target].on
    BY <1>1, <1>2, <2>2, <2>8
  <2>9. ASSUME NEW b \in asked', b.served = "done"
        PROVE  Changing(b)'
    BY <1>1, <1>2, <2>2, <2>9 DEF Changing
  <2> QED
    BY <2>3, <2>4, <2>6, <2>7, <2>8, <2>9 DEF ListFits
<1> QED
  BY <1>3, <1>5, <1>6, <1>7 DEF SettingsFit

LEMMA AskedFacts ==
  ASSUME SettingsFit, NEW a \in asked
  PROVE  /\ a \in Ask /\ AskFits(a) /\ a.served \in {"no", "done", "refused"}
         /\ a.op # "save" => section \notin Forms
         /\ a.op # "save" /\ a.served = "done" => a.target \in Entry
BY DEF SettingsFit, SettingsTypeOK, AskFits, Ask

(* What is left of a list that fits.                                       *)
LEMMA ListFacts ==
  ASSUME SettingsFit, section \in Collections, ~doubt
  PROVE  /\ \A a, b \in asked : a.target = b.target /\ a.target # New => a = b
         /\ section # "bundles" /\ Reading => asked = {}
         /\ section = "bundles" => \A i, j \in 1 .. 2 : reads[i].at # "none" /\ reads[j].at # "none" => i = j
         /\ \A e \in Entry : ~DoneFor(e) =>
              /\ Reading \/ pane.list[e] = entries[e]
              /\ \A i \in 1 .. 2 : reads[i].at = "read" => reads[i].rows[e] = entries[e]
         /\ \A e \in Entry : pane.list[e] # NoEntry =>
              pane.knob[e] = pane.list[e].on \/ \E a \in asked : a.op = "switch" /\ a.target = e
         /\ \A a \in asked : a.op = "switch" => pane.list[a.target] # NoEntry /\ a.on # pane.list[a.target].on
         /\ \A a \in asked : a.served = "done" => Changing(a)
BY DEF SettingsFit, ListFits

(* The server answers a request about a record.                            *)
LEMMA ServeRefusedFits ==
  ASSUME SettingsFit, NEW a \in asked, a.served = "no", a.op # "save", a.op # "create",
         doubt' = (doubt \/ (a.op = "create" /\ \E o \in asked : o.target = FreeEntry)),
         UNCHANGED <<section, pane, editor, rotation, reads, form, acts, faults>>, entries' = entries,
         NEW b \in Ask, asked' = (asked \ {a}) \cup {b},
         b.target = a.target, b.op = a.op, b.on = a.on, b.tag = a.tag, b.served = "refused"
  PROVE  SettingsFit'
<1>0. /\ asked' \subseteq Ask /\ doubt \in BOOLEAN /\ doubt' = doubt /\ section \notin Forms
      /\ AskFits(a) /\ \A c \in asked : AskFits(c)
  BY SettingsFacts, AskedFacts DEF SettingsFit
<1>1. SettingsTypeOK'
  BY <1>0, SettingsFacts, SettingsTypesNext
<1>2. \A c \in asked' : AskFits(c)'
  BY <1>0 DEF AskFits
<1>3. DialogsFit' /\ EditsMatch' /\ TextsFit'
  BY <1>0 DEF SettingsFit, DialogsFit, EditsMatch, TextsFit
<1>4. ListFits'
  <2> SUFFICES ASSUME section \in Collections, ~doubt
               PROVE  ListFits'
    BY <1>0 DEF ListFits
  <2>1. \A e \in Entry : DoneFor(e)' <=> DoneFor(e)
    BY DEF DoneFor
  <2>2. Reading' <=> Reading
    BY DEF Reading
  <2>3. \A c, d \in asked' : c.target = d.target /\ c.target # New => c = d
    BY ListFacts
  <2>4. section' # "bundles" /\ Reading' => asked' = {}
    BY <2>2, ListFacts
  <2>5. section' = "bundles" => \A i, j \in 1 .. 2 : reads'[i].at # "none" /\ reads'[j].at # "none" => i = j
    BY ListFacts
  <2>6. \A e \in Entry : ~DoneFor(e)' =>
          /\ Reading' \/ pane'.list[e] = entries'[e]
          /\ \A i \in 1 .. 2 : reads'[i].at = "read" => reads'[i].rows[e] = entries'[e]
    BY <2>1, <2>2, ListFacts
  <2>7. \A e \in Entry : pane'.list[e] # NoEntry =>
          pane'.knob[e] = pane'.list[e].on \/ \E c \in asked' : c.op = "switch" /\ c.target = e
    BY ListFacts
  <2>8. \A c \in asked' : c.op = "switch" => pane'.list[c.target] # NoEntry /\ c.on # pane'.list[c.target].on
    BY ListFacts
  <2>9. \A c \in asked' : c.served = "done" => Changing(c)'
    BY ListFacts DEF Changing
  <2> QED
    BY <2>3, <2>4, <2>5, <2>6, <2>7, <2>8, <2>9 DEF ListFits
<1> QED
  BY <1>1, <1>2, <1>3, <1>4 DEF SettingsFit

LEMMA ServeDoneFits ==
  ASSUME SettingsFit, NEW a \in asked, a.served = "no", a.op # "save",
         doubt' = (doubt \/ (a.op = "create" /\ \E o \in asked : o.target = FreeEntry)),
         UNCHANGED <<section, pane, editor, rotation, reads, form, acts, faults>>,
         NEW b \in Ask, NEW t \in Entry, t = (IF a.op = "create" THEN FreeEntry ELSE a.target),
         IF a.op = "create" THEN \E e \in Entry : entries[e] = NoEntry ELSE entries[t] # NoEntry,
         entries' = [entries EXCEPT ![t] = b.row], b.row = RowAfter(a), asked' = (asked \ {a}) \cup {b},
         b.target = t, b.op = a.op, b.on = a.on, b.tag = a.tag, b.served = "done"
  PROVE  SettingsFit'
<1>0. /\ asked' \subseteq Ask /\ doubt \in BOOLEAN /\ section \notin Forms /\ SettingsTypeOK /\ EditsMatch
      /\ AskFits(a) /\ (\A c \in asked : AskFits(c)) /\ entries \in Rows /\ t # New
  BY SettingsFacts, AskedFacts, SettingsAssumption DEF SettingsFit
<1> DEFINE Free == \E o \in asked : o.target = FreeEntry
<1>1. Free \in BOOLEAN
  OBVIOUS
<1> HIDE DEF Free
<1>2. doubt' = (doubt \/ (a.op = "create" /\ Free))
  BY DEF Free
<1>3. doubt' \in BOOLEAN /\ (doubt' = FALSE => doubt = FALSE /\ (a.op = "create" => ~Free))
  BY <1>0, <1>1, <1>2
<1>4. /\ b.row \in Row \cup {NoEntry}
      /\ b.row # NoEntry => b.row.from = t
      /\ a.op = "create" => entries[t] = NoEntry /\ b.row # NoEntry
      /\ a.op = "delete" => b.row = NoEntry
      /\ a.op \in {"switch", "install"} => b.row # NoEntry /\ b.row = [entries[t] EXCEPT !.on = a.on]
      /\ a.op \in {"update", "rotate"} => b.row # NoEntry /\ b.row.on = entries[t].on
  BY <1>0, RowAfterFacts
<1>5. entries' \in Rows /\ entries'[t] = b.row /\ \A e \in Entry \ {t} : entries'[e] = entries[e]
  BY <1>0, <1>4 DEF Rows
<1>6. SettingsTypeOK'
  BY <1>0, <1>3, <1>5, SettingsFacts, SettingsTypesNext
<1>7. \A c \in asked' : AskFits(c)'
  BY <1>0 DEF AskFits
<1>8. DialogsFit' /\ TextsFit'
  BY <1>0 DEF SettingsFit, DialogsFit, TextsFit
<1>9. EditsMatch'
  BY <1>0, <1>4, <1>5 DEF EditsMatch
<1>10. ListFits'
  <2> SUFFICES ASSUME section \in Collections, ~doubt, a.op = "create" => ~Free
               PROVE  ListFits'
    BY <1>3 DEF ListFits
  <2>1. \A c \in asked \ {a} : c.target # t
    <3>1. CASE a.op = "create"
      BY <3>1 DEF Free
    <3>2. CASE a.op # "create"
      BY <1>0, <3>2, ListFacts
    <3> QED
      BY <3>1, <3>2
  <2>2. ~DoneFor(t)
    BY <1>0, <2>1 DEF DoneFor
  <2>3. \A e \in Entry : DoneFor(e)' <=> DoneFor(e) \/ e = t
    BY DEF DoneFor
  <2>4. Reading' <=> Reading
    BY DEF Reading
  <2>5. \A c, d \in asked' : c.target = d.target /\ c.target # New => c = d
    BY <2>1, ListFacts
  <2>6. section' # "bundles" /\ Reading' => asked' = {}
    BY <2>4, ListFacts
  <2>7. section' = "bundles" => \A i, j \in 1 .. 2 : reads'[i].at # "none" /\ reads'[j].at # "none" => i = j
    BY ListFacts
  <2>8. \A e \in Entry : ~DoneFor(e)' =>
          /\ Reading' \/ pane'.list[e] = entries'[e]
          /\ \A i \in 1 .. 2 : reads'[i].at = "read" => reads'[i].rows[e] = entries'[e]
    BY <1>5, <2>3, <2>4, ListFacts
  <2>9. \A e \in Entry : pane'.list[e] # NoEntry =>
          pane'.knob[e] = pane'.list[e].on \/ \E c \in asked' : c.op = "switch" /\ c.target = e
    BY ListFacts
  <2>10. \A c \in asked' : c.op = "switch" => pane'.list[c.target] # NoEntry /\ c.on # pane'.list[c.target].on
    BY ListFacts
  <2>11. Changing(b)'
    <3>1. a.op # "install" => pane.list[t] = entries[t]
      BY <1>0, <2>2, ListFacts DEF AskFits
    <3> QED
      BY <1>4, <1>5, <3>1 DEF Changing
  <2>12. ASSUME NEW c \in asked, c # a, c.served = "done"
         PROVE  Changing(c)'
    <3>1. c.target \in Entry \ {t}
      BY <1>0, <2>1, <2>12, AskedFacts DEF AskFits
    <3> QED
      BY <1>5, <2>12, <3>1, ListFacts DEF Changing
  <2>13. \A c \in asked' : c.served = "done" => Changing(c)'
    BY <2>11, <2>12
  <2> QED
    BY <2>5, <2>6, <2>7, <2>8, <2>9, <2>10, <2>13 DEF ListFits
<1> QED
  BY <1>6, <1>7, <1>8, <1>9, <1>10 DEF SettingsFit

LEMMA ServeAskFits ==
  ASSUME SettingsFit, NEW a \in asked, ServeAsk(a)
  PROVE  SettingsFit'
<1>1. SettingsTypeOK /\ EditsMatch /\ AskFits(a)
  BY DEF SettingsFit
<1>2. /\ a.served = "no" /\ a.op # "save"
      /\ doubt' = (doubt \/ (a.op = "create" /\ \E o \in asked : o.target = FreeEntry))
      /\ UNCHANGED <<section, pane, editor, rotation, reads, form, acts, faults>>
      /\ \/ \E b \in Ask :
              /\ entries' = entries /\ a.op # "create" /\ a.target \in Entry /\ entries[a.target] = NoEntry
              /\ asked' = (asked \ {a}) \cup {b}
              /\ b.target = a.target /\ b.op = a.op /\ b.on = a.on /\ b.tag = a.tag /\ b.served = "refused"
         \/ \E b \in Ask, t \in Entry :
              /\ t = (IF a.op = "create" THEN FreeEntry ELSE a.target)
              /\ IF a.op = "create" THEN \E e \in Entry : entries[e] = NoEntry ELSE entries[t] # NoEntry
              /\ entries' = [entries EXCEPT ![t] = b.row] /\ b.row = RowAfter(a)
              /\ asked' = (asked \ {a}) \cup {b}
              /\ b.target = t /\ b.op = a.op /\ b.on = a.on /\ b.tag = a.tag /\ b.served = "done"
  BY <1>1, ServeFacts
<1> QED
  BY <1>2, ServeRefusedFits, ServeDoneFits, Zenon

(* An answer is written into the list.                                     *)
LEMMA ChangeAnsweredFits ==
  ASSUME SettingsFit, NEW a \in asked, AskAnswered(a), a.op # "install"
  PROVE  SettingsFit'
<1> DEFINE t == a.target
<1>0. /\ a.served = "done" /\ a.op # "save" /\ asked' = asked \ {a} /\ asked' \subseteq Ask
      /\ UNCHANGED <<section, entries, form, acts, faults, reads, doubt>> /\ pane' = Changed(a)
      /\ section \notin Forms /\ SettingsTypeOK /\ AskFits(a) /\ (\A c \in asked : AskFits(c))
      /\ section # "bundles" /\ t \in Entry /\ t # New
  BY SettingsFacts, AskedFacts, SettingsAssumption DEF AskAnswered, SettingsFit, AskFits
<1>1. editor' \in EditorType /\ (editor'.tag = editor'.target)
  <2>1. editor \in EditorType /\ editor.tag = editor.target
    BY SettingsFacts DEF SettingsFit, DialogsFit
  <2>2. editor' \in {editor, [editor EXCEPT !.busy = FALSE],
                     [up |-> FALSE, target |-> New, tag |-> New, busy |-> FALSE]}
    BY DEF AskAnswered, Saved, ReactionSaved, JobSaved, UserCredentialAdded, OrgCredentialAdded, MemberInvited
  <2>3. ASSUME editor' = [editor EXCEPT !.busy = FALSE]
        PROVE  editor' \in EditorType /\ editor'.tag = editor.tag /\ editor'.target = editor.target
    BY <2>1, <2>3 DEF EditorType
  <2>4. ASSUME editor' = [up |-> FALSE, target |-> New, tag |-> New, busy |-> FALSE]
        PROVE  editor' \in EditorType /\ editor'.tag = editor'.target
    BY <2>4 DEF EditorType
  <2> QED
    BY <2>1, <2>2, <2>3, <2>4
<1>2. rotation' \in RotationType /\ rotation'.tag \in {NoEntry, rotation'.target}
  <2>1. rotation \in RotationType /\ rotation.tag \in {NoEntry, rotation.target}
    BY SettingsFacts DEF SettingsFit, DialogsFit
  <2>2. rotation' \in {rotation, [up |-> FALSE, target |-> NoEntry, tag |-> NoEntry]}
    BY DEF AskAnswered
  <2>3. ASSUME rotation' = [up |-> FALSE, target |-> NoEntry, tag |-> NoEntry]
        PROVE  rotation' \in RotationType /\ rotation'.tag = NoEntry
    BY <2>3 DEF RotationType
  <2> QED
    BY <2>1, <2>2, <2>3
<1>3. pane' \in PaneType
  BY <1>0, ChangedTyped
<1>4. SettingsTypeOK'
  BY <1>0, <1>1, <1>2, <1>3, SettingsFacts, SettingsTypesNext
<1>5. \A c \in asked' : AskFits(c)'
  BY <1>0 DEF AskFits
<1>6. DialogsFit' /\ EditsMatch' /\ TextsFit'
  BY <1>0, <1>1, <1>2 DEF SettingsFit, DialogsFit, EditsMatch, TextsFit
<1>7. ListFits'
  <2> SUFFICES ASSUME section \in Collections, ~doubt
               PROVE  ListFits'
    BY <1>0 DEF ListFits
  <2>1. Changing(a) /\ ~Reading /\ \A c \in asked' : c.target # t
    BY <1>0, ListFacts
  <2>2. pane'.list = [pane.list EXCEPT ![t] = a.row] /\ pane'.knob = Rendered(pane'.list)
    BY <1>0, <2>1, ChangedFacts
  <2>3. a.row = entries[t] /\ a.row \in Row \cup {NoEntry} /\ pane.list \in Rows
    BY <1>0, <2>1, SettingsFacts DEF Changing, Rows
  <2>4. pane'.list \in Rows /\ pane'.list[t] = entries[t] /\ \A e \in Entry \ {t} : pane'.list[e] = pane.list[e]
    BY <1>0, <2>2, <2>3 DEF Rows
  <2>5. \A e \in Entry \ {t} : DoneFor(e)' <=> DoneFor(e)
    BY <1>0 DEF DoneFor
  <2>6. ~Reading' /\ \A i \in 1 .. 2 : reads'[i].at = "none"
    BY <1>0, <2>1 DEF Reading
  <2>7. \A c, d \in asked' : c.target = d.target /\ c.target # New => c = d
    BY <1>0, ListFacts
  <2>8. \A e \in Entry : ~DoneFor(e)' => pane'.list[e] = entries'[e]
    BY <1>0, <2>1, <2>4, <2>5, ListFacts
  <2>9. ASSUME NEW e \in Entry, pane'.list[e] # NoEntry
        PROVE  pane'.knob[e] = pane'.list[e].on \/ \E c \in asked' : c.op = "switch" /\ c.target = e
    <3> DEFINE rows == pane'.list
    <3>0. rows \in Rows /\ rows[e] # NoEntry /\ pane'.knob = Rendered(rows)
      BY <2>2, <2>4, <2>9
    <3> HIDE DEF rows
    <3>1. Rendered(rows)[e] = IF rows[e] = NoEntry THEN FALSE
                              ELSE IF pane.list[e] = NoEntry \/ pane.list[e].on # rows[e].on THEN rows[e].on
                              ELSE pane.knob[e]
      BY <1>0, <3>0, RenderedTyped, Zenon
    <3> USE DEF rows
    <3>2. CASE pane.list[e] = NoEntry \/ pane.list[e].on # pane'.list[e].on
      BY <3>0, <3>1, <3>2
    <3>3. CASE pane.list[e] # NoEntry /\ pane.list[e].on = pane'.list[e].on
      <4>1. pane'.knob[e] = pane.list[e].on \/ \E c \in asked : c.op = "switch" /\ c.target = e
        BY <3>0, <3>1, <3>3, ListFacts
      <4>2. a.op = "switch" => t # e
        <5>1. ASSUME a.op = "switch", t = e
              PROVE  FALSE
          <6>1. a.on # pane.list[e].on /\ a.row = [pane.list[e] EXCEPT !.on = a.on] /\ pane'.list[e] = a.row
            BY <1>0, <2>1, <2>3, <2>4, <5>1, ListFacts DEF Changing
          <6>2. pane.list[e] \in Row
            BY <2>3, <3>3 DEF Rows
          <6>3. a.row.on = a.on
            BY <6>1, <6>2 DEF Row
          <6> QED
            BY <3>3, <6>1, <6>3
        <5> QED
          BY <5>1
      <4> QED
        BY <1>0, <3>3, <4>1, <4>2
    <3> QED
      BY <3>2, <3>3
  <2>10. ASSUME NEW c \in asked', c.op = "switch"
         PROVE  pane'.list[c.target] # NoEntry /\ c.on # pane'.list[c.target].on
    <3>1. c.target \in Entry \ {t}
      BY <1>0, <2>1, <2>10 DEF AskFits
    <3> QED
      BY <1>0, <2>4, <2>10, <3>1, ListFacts
  <2>11. ASSUME NEW c \in asked', c.served = "done"
         PROVE  Changing(c)'
    <3>1. c.target \in Entry \ {t}
      BY <1>0, <2>1, <2>11, AskedFacts DEF AskFits
    <3> QED
      BY <1>0, <2>4, <2>11, <3>1, ListFacts DEF Changing
  <2> QED
    BY <1>0, <2>6, <2>7, <2>8, <2>9, <2>10, <2>11 DEF ListFits
<1> QED
  BY <1>4, <1>5, <1>6, <1>7 DEF SettingsFit

(* After an installation the list is loaded again.                         *)
LEMMA InstallAnsweredFits ==
  ASSUME SettingsFit, NEW a \in asked, AskAnswered(a), a.op = "install"
  PROVE  SettingsFit'
<1>0. /\ a.served = "done" /\ asked' = asked \ {a} /\ asked' \subseteq Ask
      /\ UNCHANGED <<section, entries, form, acts, faults, editor, rotation>>
      /\ doubt' = (doubt \/ Meets(New)) /\ pane' = [pane EXCEPT !.loading = TRUE]
      /\ AskFits(a) /\ (\A c \in asked : AskFits(c)) /\ section = "bundles" /\ section \in Collections \ Forms
  BY SettingsFacts, SectionsApart DEF AskAnswered, SettingsFit, AskFits
<1>1. /\ doubt \in BOOLEAN /\ pane \in PaneType /\ reads \in [1 .. 2 -> ReadType] /\ Meets(New) \in BOOLEAN
  BY SettingsFacts DEF Meets
<1>2. doubt' \in BOOLEAN /\ (doubt' = FALSE => doubt = FALSE /\ ~Meets(New))
  BY <1>0, <1>1
<1>3. pane' \in PaneType /\ pane'.list = pane.list /\ pane'.knob = pane.knob
  BY <1>0, <1>1 DEF PaneType
<1>4. PICK i \in 1 .. 2 : reads' = [reads EXCEPT ![i].at = "sent"]
  BY <1>0 DEF AskAnswered
<1>5. reads' \in [1 .. 2 -> ReadType] /\ reads'[i].at = "sent" /\ \A j \in (1 .. 2) \ {i} : reads'[j] = reads[j]
  BY <1>1, <1>4 DEF ReadType
<1>6. SettingsTypeOK'
  BY <1>0, <1>2, <1>3, <1>5, SettingsFacts, SettingsTypesNext
<1>7. \A c \in asked' : AskFits(c)'
  BY <1>0 DEF AskFits
<1>8. DialogsFit' /\ EditsMatch' /\ TextsFit'
  BY <1>0 DEF SettingsFit, DialogsFit, EditsMatch, TextsFit
<1>9. ListFits'
  <2> SUFFICES ASSUME ~doubt, ~Meets(New)
               PROVE  ListFits'
    BY <1>2 DEF ListFits
  <2>1. ~Reading
    BY DEF Meets, Reading
  <2>2. \A j \in 1 .. 2 : reads'[j].at # "read" /\ (j = i \/ reads'[j].at = "none")
    BY <1>5, <2>1 DEF Reading
  <2>3. Reading'
    BY <1>5 DEF Reading
  <2>4. \A c, d \in asked' : c.target = d.target /\ c.target # New => c = d
    BY <1>0, ListFacts
  <2>5. \A e \in Entry : pane'.list[e] # NoEntry =>
          pane'.knob[e] = pane'.list[e].on \/ \E c \in asked' : c.op = "switch" /\ c.target = e
    BY <1>0, <1>3, ListFacts
  <2>6. \A c \in asked' : c.op = "switch" => pane'.list[c.target] # NoEntry /\ c.on # pane'.list[c.target].on
    BY <1>0, <1>3, ListFacts
  <2>7. \A c \in asked' : c.served = "done" => Changing(c)'
    BY <1>0, <1>3, ListFacts DEF Changing
  <2> QED
    BY <1>0, <2>2, <2>3, <2>4, <2>5, <2>6, <2>7 DEF ListFits
<1> QED
  BY <1>6, <1>7, <1>8, <1>9 DEF SettingsFit

(* A request that fails: with no doubt it changed nothing.                 *)
LEMMA AskFailsFits ==
  ASSUME SettingsFit, NEW a \in asked, AskFails(a)
  PROVE  SettingsFit'
<1>0. /\ asked' = asked \ {a} /\ asked' \subseteq Ask /\ a.op # "save" /\ section \notin Forms
      /\ UNCHANGED <<section, entries, rotation, reads, form, acts>>
      /\ doubt' = (doubt \/ a.served = "done" \/ a.op = "switch") /\ (\A c \in asked : AskFits(c))
  BY SettingsFacts, AskedFacts DEF AskFails, SettingsFit
<1>1. /\ doubt \in BOOLEAN /\ pane \in PaneType /\ editor \in EditorType /\ editor.tag = editor.target
      /\ faults \in 0 .. MaxFaults /\ MaxFaults \in Nat
  BY SettingsFacts, SettingsAssumption DEF SettingsFit, DialogsFit
<1>2. doubt' \in BOOLEAN /\ (doubt' = FALSE => doubt = FALSE /\ a.served # "done" /\ a.op # "switch")
  BY <1>0, <1>1
<1>3. faults' \in 0 .. MaxFaults
  BY <1>1 DEF AskFails
<1>4. pane' \in {pane, [pane EXCEPT !.failed = TRUE, !.installing = NoEntry]}
      /\ editor' \in {editor, [editor EXCEPT !.busy = FALSE]}
  BY DEF AskFails
<1>5. pane' \in PaneType
  BY <1>1, <1>4 DEF PaneType
<1>6. pane'.list = pane.list /\ pane'.knob = pane.knob
  BY <1>1, <1>4 DEF PaneType
<1>7. editor' \in EditorType /\ editor'.tag = editor.tag /\ editor'.target = editor.target
  BY <1>1, <1>4 DEF EditorType
<1>8. SettingsTypeOK'
  BY <1>0, <1>2, <1>3, <1>5, <1>7, SettingsFacts, SettingsTypesNext
<1>9. \A c \in asked' : AskFits(c)'
  BY <1>0 DEF AskFits
<1>10. DialogsFit' /\ EditsMatch' /\ TextsFit'
  BY <1>0, <1>1, <1>7 DEF SettingsFit, DialogsFit, EditsMatch, TextsFit
<1>11. ListFits'
  <2> SUFFICES ASSUME section \in Collections, ~doubt, a.served # "done", a.op # "switch"
               PROVE  ListFits'
    BY <1>0, <1>2 DEF ListFits
  <2>1. \A e \in Entry : DoneFor(e)' <=> DoneFor(e)
    BY <1>0 DEF DoneFor
  <2>2. Reading' <=> Reading
    BY <1>0 DEF Reading
  <2>3. \A c, d \in asked' : c.target = d.target /\ c.target # New => c = d
    BY <1>0, ListFacts
  <2>4. section' # "bundles" /\ Reading' => asked' = {}
    BY <1>0, <2>2, ListFacts
  <2>5. section' = "bundles" => \A i, j \in 1 .. 2 : reads'[i].at # "none" /\ reads'[j].at # "none" => i = j
    BY <1>0, ListFacts
  <2>6. \A e \in Entry : ~DoneFor(e)' =>
          /\ Reading' \/ pane'.list[e] = entries'[e]
          /\ \A i \in 1 .. 2 : reads'[i].at = "read" => reads'[i].rows[e] = entries'[e]
    BY <1>0, <1>6, <2>1, <2>2, ListFacts
  <2>7. \A e \in Entry : pane'.list[e] # NoEntry =>
          pane'.knob[e] = pane'.list[e].on \/ \E c \in asked' : c.op = "switch" /\ c.target = e
    BY <1>0, <1>6, ListFacts
  <2>8. \A c \in asked' : c.op = "switch" => pane'.list[c.target] # NoEntry /\ c.on # pane'.list[c.target].on
    BY <1>0, <1>6, ListFacts
  <2>9. \A c \in asked' : c.served = "done" => Changing(c)'
    BY <1>0, <1>6, ListFacts DEF Changing
  <2> QED
    BY <2>3, <2>4, <2>5, <2>6, <2>7, <2>8, <2>9 DEF ListFits
<1> QED
  BY <1>8, <1>9, <1>10, <1>11 DEF SettingsFit

(* The server reads the list or the texts.                                 *)
LEMMA ServeReadFits ==
  ASSUME SettingsFit, NEW i \in 1 .. 2, ServeRead(i)
  PROVE  SettingsFit'
<1>0. /\ UNCHANGED <<section, entries, pane, editor, rotation, asked, form, doubt, acts, faults>>
      /\ reads[i].at = "sent" /\ reads' = [reads EXCEPT ![i] = Read("read", entries, form.stored)]
  BY DEF ServeRead
<1>1. reads \in [1 .. 2 -> ReadType] /\ entries \in Rows /\ form.stored \in [Field -> Text]
  BY SettingsFacts
<1>2. Read("read", entries, form.stored) \in ReadType
  BY <1>1 DEF Read, ReadType
<1>3. /\ reads' \in [1 .. 2 -> ReadType] /\ reads'[i].at = "read"
      /\ reads'[i].rows = entries /\ reads'[i].texts = form.stored
      /\ \A j \in (1 .. 2) \ {i} : reads'[j] = reads[j]
  BY <1>0, <1>1, <1>2 DEF Read
<1>4. SettingsTypeOK'
  BY <1>0, <1>3, SettingsFacts, SettingsTypesNext
<1>5. (\A a \in asked : AskFits(a))' /\ DialogsFit' /\ EditsMatch'
  BY <1>0 DEF SettingsFit, AskFits, DialogsFit, EditsMatch
<1>6. Reading /\ Reading'
  BY <1>0, <1>3 DEF Reading
<1>7. TextsFit'
  BY <1>0, <1>3, <1>6 DEF SettingsFit, TextsFit
<1>8. ListFits'
  <2> SUFFICES ASSUME section \in Collections, ~doubt
               PROVE  ListFits'
    BY <1>0 DEF ListFits
  <2>1. \A e \in Entry : DoneFor(e)' <=> DoneFor(e)
    BY <1>0 DEF DoneFor
  <2>2. section' = "bundles" => \A j, k \in 1 .. 2 : reads'[j].at # "none" /\ reads'[k].at # "none" => j = k
    BY <1>0, <1>3, ListFacts
  <2>3. \A e \in Entry : ~DoneFor(e)' => \A j \in 1 .. 2 : reads'[j].at = "read" => reads'[j].rows[e] = entries'[e]
    BY <1>0, <1>3, <2>1, ListFacts
  <2>4. \A a \in asked' : a.served = "done" => Changing(a)'
    BY <1>0, ListFacts DEF Changing
  <2> QED
    BY <1>0, <1>6, <2>1, <2>2, <2>3, <2>4, ListFacts DEF ListFits
<1> QED
  BY <1>4, <1>5, <1>7, <1>8 DEF SettingsFit

(* The page gets a list.                                                   *)
LEMMA ListAnsweredFits ==
  ASSUME SettingsFit, NEW i \in 1 .. 2, ReadAnswered(i), section \notin Forms
  PROVE  SettingsFit'
<1> DEFINE rows == reads[i].rows
<1>0. /\ UNCHANGED <<section, entries, editor, rotation, asked, doubt, acts, faults, form>>
      /\ reads[i].at = "read" /\ reads' = [reads EXCEPT ![i] = NoRead] /\ pane' = PanelLoaded(i)
  BY DEF ReadAnswered
<1>1. reads \in [1 .. 2 -> ReadType] /\ pane.list \in Rows /\ SettingsTypeOK /\ rows \in Rows
  BY SettingsFacts DEF SettingsFit, ReadType
<1>2. NoRead \in ReadType /\ NoRead.at = "none"
  BY DEF NoRead, Read, ReadType, NoRows, NoTexts, Rows, Text
<1>3. /\ reads' \in [1 .. 2 -> ReadType] /\ reads'[i].at = "none"
      /\ \A j \in (1 .. 2) \ {i} : reads'[j] = reads[j]
  BY <1>0, <1>1, <1>2
<1> DEFINE p == Listed(rows)
<1>4. p \in PaneType /\ p.list = rows /\ p.knob = Rendered(rows)
  BY <1>1, ListedFacts
<1>5. pane' = [p EXCEPT !.loading = FALSE, !.installing = NoEntry]
  BY <1>0 DEF PanelLoaded
<1> HIDE DEF p, rows
<1>6. pane' \in PaneType
  BY <1>4, <1>5 DEF PaneType
<1>7. pane'.list = rows /\ pane'.knob = Rendered(rows)
  BY <1>4, <1>5 DEF PaneType
<1>8. SettingsTypeOK'
  BY <1>0, <1>3, <1>6, SettingsFacts, SettingsTypesNext
<1>9. (\A a \in asked : AskFits(a))' /\ DialogsFit' /\ EditsMatch' /\ TextsFit'
  BY <1>0 DEF SettingsFit, AskFits, DialogsFit, EditsMatch, TextsFit
<1>10. ListFits'
  <2> SUFFICES ASSUME section \in Collections, ~doubt
               PROVE  ListFits'
    BY <1>0 DEF ListFits
  <2>1. \A e \in Entry : DoneFor(e)' <=> DoneFor(e)
    BY <1>0 DEF DoneFor
  <2>2. Reading /\ (Reading' => Reading)
    BY <1>0 DEF Reading
  <2>3. section = "bundles" \/ asked = {}
    BY <2>2, ListFacts
  <2>4. \A a \in asked : a.op = "install"
    BY <2>3, AskedFacts DEF AskFits
  <2>5. section' = "bundles" => \A j, k \in 1 .. 2 : reads'[j].at # "none" /\ reads'[k].at # "none" => j = k
    BY <1>0, <1>3, ListFacts
  <2>6. ASSUME NEW e \in Entry, ~DoneFor(e)'
        PROVE  /\ pane'.list[e] = entries'[e]
               /\ \A j \in 1 .. 2 : reads'[j].at = "read" => reads'[j].rows[e] = entries'[e]
    BY <1>0, <1>3, <1>7, <2>1, <2>6, ListFacts DEF rows
  <2>7. ASSUME NEW e \in Entry, pane'.list[e] # NoEntry
        PROVE  pane'.knob[e] = pane'.list[e].on \/ \E c \in asked' : c.op = "switch" /\ c.target = e
    <3>1. Rendered(rows)[e] = IF rows[e] = NoEntry THEN FALSE
                              ELSE IF pane.list[e] = NoEntry \/ pane.list[e].on # rows[e].on THEN rows[e].on
                              ELSE pane.knob[e]
      BY <1>1, RenderedTyped, Zenon DEF rows
    <3>2. pane.list[e] # NoEntry =>
            pane.knob[e] = pane.list[e].on \/ \E c \in asked : c.op = "switch" /\ c.target = e
      BY ListFacts
    <3> QED
      BY <1>0, <1>7, <2>7, <3>1, <3>2
  <2>8. \A a \in asked' : a.served = "done" => Changing(a)'
    BY <1>0, <2>4, ListFacts DEF Changing
  <2> QED
    BY <1>0, <2>2, <2>3, <2>4, <2>5, <2>6, <2>7, <2>8, ListFacts DEF ListFits
<1> QED
  BY <1>8, <1>9, <1>10 DEF SettingsFit

(* A form gets its texts.                                                  *)
LEMMA TextsAnsweredFits ==
  ASSUME SettingsFit, NEW i \in 1 .. 2, ReadAnswered(i), section \in Forms
  PROVE  SettingsFit'
<1> DEFINE texts == [f \in Field |->
              IF section = "preferences" /\ reads[i].texts[f] = "empty" THEN form.typed[f] ELSE reads[i].texts[f]]
<1>0. /\ UNCHANGED <<section, entries, editor, rotation, asked, doubt, acts, faults>>
      /\ reads[i].at = "read" /\ reads' = [reads EXCEPT ![i] = NoRead]
      /\ pane' = [pane EXCEPT !.loading = FALSE] /\ form' = [form EXCEPT !.typed = texts]
  BY DEF ReadAnswered
<1>1. /\ reads \in [1 .. 2 -> ReadType] /\ pane \in PaneType /\ form \in FieldsType
      /\ reads[i].texts \in [Field -> Text] /\ form.typed \in [Field -> Text] /\ form.stored \in [Field -> Text]
  BY SettingsFacts DEF ReadType, FieldsType
<1>2. NoRead \in ReadType /\ NoRead.at = "none"
  BY DEF NoRead, Read, ReadType, NoRows, NoTexts, Rows, Text
<1>3. /\ reads' \in [1 .. 2 -> ReadType] /\ reads'[i].at = "none"
      /\ \A j \in (1 .. 2) \ {i} : reads'[j] = reads[j]
  BY <1>0, <1>1, <1>2
<1>4. texts \in [Field -> Text]
  BY <1>1
<1>5. \A f \in Field : reads[i].texts[f] # "empty" => texts[f] = reads[i].texts[f]
  OBVIOUS
<1> HIDE DEF texts
<1>6. form' \in FieldsType
  BY <1>0, <1>1, <1>4 DEF FieldsType
<1>7. /\ form'.typed = texts /\ form'.stored = form.stored /\ form'.sent = form.sent
      /\ form'.dirty = form.dirty /\ form'.busy = form.busy
  BY <1>0, <1>1 DEF FieldsType
<1>8. pane' \in PaneType
  BY <1>0, <1>1 DEF PaneType
<1>9. SettingsTypeOK'
  BY <1>0, <1>3, <1>6, <1>8, SettingsFacts, SettingsTypesNext
<1>10. (\A a \in asked : AskFits(a))' /\ DialogsFit' /\ EditsMatch' /\ ListFits'
  BY <1>0, SectionsApart DEF SettingsFit, AskFits, DialogsFit, EditsMatch, ListFits
<1>11. TextsFit'
  <2> SUFFICES ASSUME ~doubt
               PROVE  TextsFit'
    BY <1>0 DEF TextsFit
  <2>1. Reading
    BY <1>0 DEF Reading
  <2>2. /\ asked = {} /\ ~form.dirty /\ \A f \in Field : form.stored[f] # "empty"
        /\ \A j \in 1 .. 2 : reads[j].at = "read" => reads[j].texts = form.stored
    BY <2>1 DEF SettingsFit, TextsFit
  <2>3. \A f \in Field : form'.typed[f] = form'.stored[f]
    BY <1>0, <1>5, <1>7, <2>2
  <2>4. \A j \in 1 .. 2 : reads'[j].at = "read" => reads'[j].texts = form'.stored
    BY <1>3, <1>7, <2>2
  <2> QED
    BY <1>0, <1>7, <2>2, <2>3, <2>4 DEF TextsFit
<1> QED
  BY <1>9, <1>10, <1>11 DEF SettingsFit

LEMMA ReadFailsFits ==
  ASSUME SettingsFit, NEW i \in 1 .. 2, ReadFails(i)
  PROVE  SettingsFit'
<1>0. /\ UNCHANGED <<section, entries, editor, rotation, asked, form, acts>> /\ doubt' = TRUE
      /\ reads' = [reads EXCEPT ![i] = NoRead] /\ faults < MaxFaults /\ faults' = faults + 1
      /\ pane' = [pane EXCEPT !.loading = FALSE, !.failed = TRUE, !.installing = NoEntry]
  BY DEF ReadFails
<1>1. reads \in [1 .. 2 -> ReadType] /\ pane \in PaneType /\ faults \in 0 .. MaxFaults /\ MaxFaults \in Nat
  BY SettingsFacts, SettingsAssumption
<1>2. NoRead \in ReadType
  BY DEF NoRead, Read, ReadType, NoRows, NoTexts, Rows, Text
<1>3. reads' \in [1 .. 2 -> ReadType]
  BY <1>0, <1>1, <1>2
<1>4. pane' \in PaneType
  BY <1>0, <1>1 DEF PaneType
<1>5. faults' \in 0 .. MaxFaults
  BY <1>0, <1>1
<1>6. SettingsTypeOK'
  BY <1>0, <1>3, <1>4, <1>5, SettingsFacts, SettingsTypesNext
<1> QED
  BY <1>0, <1>6 DEF SettingsFit, AskFits, DialogsFit, EditsMatch, ListFits, TextsFit

-----------------------------------------------------------------------------
(* The forms.                                                              *)
LEMMA TypeFieldFits ==
  ASSUME SettingsFit, NEW f \in Field, NEW x \in Text, TypeField(f, x)
  PROVE  SettingsFit'
<1> DEFINE Busy == \E i \in 1 .. 2 : reads[i].at # "none"
           typed == [form.typed EXCEPT ![f] = x]
<1>0. /\ UNCHANGED <<section, entries, pane, editor, rotation, asked, reads, faults>> /\ section \in Forms
      /\ form' = [form EXCEPT !.typed = typed, !.dirty = TRUE] /\ acts < MaxActs /\ acts' = acts + 1
      /\ doubt' = (doubt \/ Busy)
  BY DEF TypeField
<1>1. form \in FieldsType /\ acts \in 0 .. MaxActs /\ MaxActs \in Nat /\ doubt \in BOOLEAN /\ typed \in [Field -> Text]
  BY SettingsFacts, SettingsAssumption DEF FieldsType
<1>2. Busy \in BOOLEAN /\ (Busy <=> Reading)
  BY DEF Reading
<1> HIDE DEF Busy, typed
<1>3. doubt' \in BOOLEAN /\ (doubt' = FALSE => doubt = FALSE /\ ~Reading)
  BY <1>0, <1>1, <1>2
<1>4. form' \in FieldsType
  BY <1>0, <1>1 DEF FieldsType
<1>5. form'.dirty /\ form'.busy = form.busy
  BY <1>0, <1>1 DEF FieldsType
<1>6. acts' \in 0 .. MaxActs
  BY <1>0, <1>1
<1>7. SettingsTypeOK'
  BY <1>0, <1>3, <1>4, <1>6, SettingsFacts, SettingsTypesNext
<1>8. (\A a \in asked : AskFits(a))' /\ DialogsFit' /\ EditsMatch' /\ ListFits'
  BY <1>0, SectionsApart DEF SettingsFit, AskFits, DialogsFit, EditsMatch, ListFits
<1>9. TextsFit'
  <2> SUFFICES ASSUME ~doubt, ~Reading
               PROVE  TextsFit'
    BY <1>3 DEF TextsFit
  <2>1. ~Reading' /\ \A i \in 1 .. 2 : reads'[i].at = "none"
    BY <1>0 DEF Reading
  <2> QED
    BY <1>0, <1>5, <2>1 DEF SettingsFit, TextsFit
<1> QED
  BY <1>7, <1>8, <1>9 DEF SettingsFit

LEMMA SaveFormFits ==
  ASSUME SettingsFit, SaveForm
  PROVE  SettingsFit'
<1> DEFINE Busy == \E i \in 1 .. 2 : reads[i].at # "none"
           sent == [f \in Field |-> IF Sends(f) THEN form.typed[f] ELSE "keep"]
           a == AskFor("save", New, New, FALSE)
<1>0. /\ UNCHANGED <<section, entries, pane, editor, rotation, reads, faults>> /\ section \in Forms
      /\ form' = [form EXCEPT !.busy = TRUE, !.dirty = FALSE, !.sent = sent] /\ ~form.busy
      /\ acts < MaxActs /\ acts' = acts + 1 /\ asked' = asked \cup {a} /\ doubt' = (doubt \/ Busy)
  BY DEF SaveForm
<1>1. /\ form \in FieldsType /\ acts \in 0 .. MaxActs /\ MaxActs \in Nat /\ doubt \in BOOLEAN /\ asked \subseteq Ask
      /\ form.typed \in [Field -> Text]
  BY SettingsFacts, SettingsAssumption DEF FieldsType
<1>2. sent \in [Field -> Text \cup {"keep"}]
  BY <1>1
<1>3. \A f \in Field : sent[f] = form.typed[f] \/ (sent[f] = "keep" /\ form.typed[f] = "empty")
  BY DEF Sends
<1>4. a \in Ask /\ a.served = "no" /\ a.op = "save" /\ a.target = New
  BY <1>0, <1>1 DEF AskFor, Ask
<1>5. Busy \in BOOLEAN /\ (Busy <=> Reading)
  BY DEF Reading
<1> HIDE DEF Busy, sent, a
<1>6. doubt' \in BOOLEAN /\ (doubt' = FALSE => doubt = FALSE /\ ~Reading)
  BY <1>0, <1>1, <1>5
<1>7. form' \in FieldsType
  BY <1>0, <1>1, <1>2 DEF FieldsType
<1>8. form'.busy /\ ~form'.dirty /\ form'.sent = sent /\ form'.typed = form.typed
  BY <1>0, <1>1 DEF FieldsType
<1>9. acts' \in 0 .. MaxActs /\ asked' \subseteq Ask
  BY <1>0, <1>1, <1>4
<1>10. SettingsTypeOK'
  BY <1>0, <1>6, <1>7, <1>9, SettingsFacts, SettingsTypesNext
<1>11. AskFits(a)
  BY <1>0, <1>4 DEF AskFits, Forms
<1>12. (\A b \in asked : AskFits(b))' /\ DialogsFit' /\ EditsMatch' /\ ListFits'
  BY <1>0, <1>11, SectionsApart DEF SettingsFit, AskFits, DialogsFit, EditsMatch, ListFits
<1>13. TextsFit'
  <2> SUFFICES ASSUME ~doubt, ~Reading
               PROVE  TextsFit'
    BY <1>6 DEF TextsFit
  <2>1. ~Reading' /\ \A i \in 1 .. 2 : reads'[i].at = "none"
    BY <1>0 DEF Reading
  <2>2. asked' = {a}
    BY <1>0 DEF SettingsFit, TextsFit
  <2> QED
    BY <1>3, <1>4, <1>8, <2>1, <2>2 DEF TextsFit
<1> QED
  BY <1>10, <1>12, <1>13 DEF SettingsFit

LEMMA ServeSaveFits ==
  ASSUME SettingsFit, NEW a \in asked, ServeSave(a)
  PROVE  SettingsFit'
<1> DEFINE stored == [f \in Field |-> IF form.sent[f] = "keep" THEN form.stored[f] ELSE form.sent[f]]
           b == [a EXCEPT !.served = "done"]
<1>0. /\ UNCHANGED <<section, entries, pane, editor, rotation, reads, doubt, acts, faults>>
      /\ a.op = "save" /\ a.served = "no" /\ asked' = (asked \ {a}) \cup {b} /\ form' = [form EXCEPT !.stored = stored]
  BY DEF ServeSave, Settled
<1>1. /\ form \in FieldsType /\ asked \subseteq Ask /\ AskFits(a) /\ section \in Forms
      /\ form.typed \in [Field -> Text] /\ form.stored \in [Field -> Text]
      /\ form.sent \in [Field -> Text \cup {"keep"}]
  BY <1>0, SettingsFacts, AskedFacts DEF FieldsType, AskFits
<1>2. stored \in [Field -> Text]
  BY <1>1
<1>3. ASSUME \A f \in Field : form.sent[f] = form.typed[f] \/ (form.sent[f] = "keep" /\ form.typed[f] = "empty")
      PROVE  \A f \in Field : form.typed[f] \in {stored[f], "empty"}
  <2>1. "keep" \notin Text
    BY DEF Text
  <2> QED
    BY <1>1, <1>3, <2>1
<1>4. b \in Ask /\ b.served = "done" /\ b.op = "save" /\ b.target = a.target /\ b.tag = a.tag
  BY <1>0, <1>1 DEF Ask
<1> HIDE DEF stored, b
<1>5. form' \in FieldsType
  BY <1>0, <1>1, <1>2 DEF FieldsType
<1>6. form'.busy = form.busy /\ form'.dirty = form.dirty /\ form'.stored = stored /\ form'.typed = form.typed
  BY <1>0, <1>1 DEF FieldsType
<1>7. asked' \subseteq Ask
  BY <1>0, <1>1, <1>4
<1>8. SettingsTypeOK'
  BY <1>0, <1>5, <1>7, SettingsFacts, SettingsTypesNext
<1>9. AskFits(b)
  BY <1>0, <1>1, <1>4 DEF AskFits
<1>10. (\A c \in asked : AskFits(c))' /\ DialogsFit' /\ EditsMatch' /\ ListFits'
  BY <1>0, <1>1, <1>9, SectionsApart DEF SettingsFit, AskFits, DialogsFit, EditsMatch, ListFits
<1>11. TextsFit'
  <2> SUFFICES ASSUME ~doubt
               PROVE  TextsFit'
    BY <1>0 DEF TextsFit
  <2>1. /\ form.busy /\ ~Reading /\ asked = {a}
        /\ ~form.dirty =>
             \A f \in Field : form.sent[f] = form.typed[f] \/ (form.sent[f] = "keep" /\ form.typed[f] = "empty")
    BY <1>0, <1>1 DEF SettingsFit, TextsFit
  <2>2. asked' = {b} /\ ~Reading' /\ \A i \in 1 .. 2 : reads'[i].at = "none"
    BY <1>0, <2>1 DEF Reading
  <2> QED
    BY <1>3, <1>4, <1>6, <2>1, <2>2 DEF TextsFit
<1> QED
  BY <1>8, <1>10, <1>11 DEF SettingsFit

LEMMA FormSavedFits ==
  ASSUME SettingsFit, NEW a \in asked, FormSaved(a)
  PROVE  SettingsFit'
<1>0. /\ UNCHANGED <<section, entries, pane, editor, rotation, reads, acts>>
      /\ a.op = "save" /\ asked' = asked \ {a} /\ form' = [form EXCEPT !.busy = FALSE]
      /\ \/ a.served = "done" /\ UNCHANGED <<doubt, faults>>
         \/ faults < MaxFaults /\ faults' = faults + 1 /\ doubt' = TRUE
  BY DEF FormSaved
<1>1. /\ form \in FieldsType /\ asked \subseteq Ask /\ section \in Forms /\ doubt \in BOOLEAN
      /\ faults \in 0 .. MaxFaults /\ MaxFaults \in Nat
  BY <1>0, SettingsFacts, AskedFacts, SettingsAssumption DEF AskFits
<1>2. form' \in FieldsType
  BY <1>0, <1>1 DEF FieldsType
<1>3. form'.dirty = form.dirty /\ form'.stored = form.stored /\ form'.typed = form.typed
  BY <1>0, <1>1 DEF FieldsType
<1>4. asked' \subseteq Ask /\ doubt' \in BOOLEAN /\ faults' \in 0 .. MaxFaults
  <2>1. asked' \subseteq Ask /\ faults' \in 0 .. MaxFaults
    BY <1>0, <1>1
  <2>2. doubt' = doubt \/ doubt' = TRUE
    BY <1>0
  <2> QED
    BY <1>1, <2>1, <2>2
<1>5. SettingsTypeOK'
  BY <1>0, <1>2, <1>4, SettingsFacts, SettingsTypesNext
<1>6. (\A c \in asked : AskFits(c))' /\ DialogsFit' /\ EditsMatch' /\ ListFits'
  BY <1>0, <1>1, SectionsApart DEF SettingsFit, AskFits, DialogsFit, EditsMatch, ListFits
<1>7. TextsFit'
  <2> SUFFICES ASSUME ~doubt, a.served = "done"
               PROVE  TextsFit'
    BY <1>0, <1>1 DEF TextsFit
  <2>1. /\ ~Reading /\ asked = {a}
        /\ ~form.dirty => \A f \in Field : form.typed[f] \in {form.stored[f], "empty"}
    BY <1>1 DEF SettingsFit, TextsFit
  <2>2. asked' = {} /\ ~Reading' /\ \A i \in 1 .. 2 : reads'[i].at = "none"
    BY <1>0, <2>1 DEF Reading
  <2> QED
    BY <1>3, <2>1, <2>2 DEF TextsFit
<1> QED
  BY <1>5, <1>6, <1>7 DEF SettingsFit

-----------------------------------------------------------------------------
LEMMA SettingsInitFits == SettingsInit => SettingsFit
<1> SUFFICES ASSUME SettingsInit
             PROVE  SettingsFit
  OBVIOUS
<1>0. /\ section \in Collections \cup Forms \cup {"none"}
      /\ pane = [loading |-> TRUE, failed |-> FALSE, list |-> NoRows,
                 knob |-> [e \in Entry |-> FALSE], installing |-> NoEntry]
      /\ editor = [up |-> section = "members", target |-> New, tag |-> New, busy |-> FALSE]
      /\ rotation = [up |-> FALSE, target |-> NoEntry, tag |-> NoEntry]
      /\ asked = {} /\ reads = [i \in 1 .. 2 |-> [NoRead EXCEPT !.at = IF i \in FirstReads THEN "sent" ELSE "none"]]
      /\ form = [stored |-> [f \in Field |-> "one"], typed |-> NoTexts, sent |-> NoTexts, dirty |-> FALSE, busy |-> FALSE]
      /\ doubt = FALSE /\ acts = 0 /\ faults = 0
  BY DEF SettingsInit
<1>1. \A e \in Entry : FreshRow(e) \in Row /\ FreshRow(e).from = e
  BY SettingsAssumption DEF FreshRow, Row
<1>2. entries \in Rows /\ EditsMatch
  <2>1. CASE section = "bundles"
    <3>1. entries = [e \in Entry |-> FreshRow(e)]
      BY <2>1 DEF SettingsInit
    <3> QED
      BY <1>1, <3>1 DEF Rows, EditsMatch
  <2>2. CASE section # "bundles" /\ section \in Collections
    <3>1. PICK there \in SUBSET Entry : entries = [e \in Entry |-> IF e \in there THEN FreshRow(e) ELSE NoEntry]
      BY <2>2 DEF SettingsInit
    <3> QED
      BY <1>1, <3>1 DEF Rows, EditsMatch
  <2>3. CASE section # "bundles" /\ section \notin Collections
    <3>1. entries = NoRows
      BY <2>3 DEF SettingsInit
    <3> QED
      BY <3>1 DEF NoRows, Rows, EditsMatch
  <2> QED
    BY <2>1, <2>2, <2>3
<1>3. NoRows \in Rows /\ NoTexts \in [Field -> Text] /\ [f \in Field |-> "one"] \in [Field -> Text]
  BY DEF NoRows, Rows, NoTexts, Text
<1>4. NoRead \in ReadType
  BY <1>3 DEF NoRead, Read, ReadType
<1>5. reads \in [1 .. 2 -> ReadType]
  BY <1>0, <1>4 DEF ReadType
<1>6. \A i \in 1 .. 2 : reads[i].at = IF i \in FirstReads THEN "sent" ELSE "none"
  BY <1>0, <1>4 DEF ReadType
<1>7. pane \in PaneType /\ pane.list = NoRows
  BY <1>0, <1>3 DEF PaneType
<1>8. editor \in EditorType /\ editor.tag = editor.target
  <2> DEFINE up == section = "members"
  <2>1. up \in BOOLEAN /\ editor = [up |-> up, target |-> New, tag |-> New, busy |-> FALSE]
    BY <1>0
  <2> HIDE DEF up
  <2> QED
    BY <2>1 DEF EditorType
<1>9. rotation \in RotationType /\ rotation.tag = NoEntry
  BY <1>0 DEF RotationType
<1>10. form \in FieldsType /\ ~form.dirty /\ form.stored = [f \in Field |-> "one"]
  BY <1>0, <1>3 DEF FieldsType, NoTexts
<1>11. SettingsTypeOK
  <2>1. asked \subseteq Ask /\ doubt \in BOOLEAN /\ acts \in 0 .. MaxActs /\ faults \in 0 .. MaxFaults
    <3>1. asked = {} /\ doubt = FALSE /\ acts = 0 /\ faults = 0
      BY <1>0
    <3>2. acts \in 0 .. MaxActs /\ faults \in 0 .. MaxFaults
      BY <3>1, SettingsAssumption
    <3> QED
      BY <3>1, <3>2
  <2>2. section \in Collections \cup Forms \cup {"none"}
    BY <1>0
  <2> QED
    BY <1>2, <1>5, <1>7, <1>8, <1>9, <1>10, <2>1, <2>2, SettingsTypes
<1>12. section \in Collections \cup Forms => 1 \in FirstReads
  BY DEF Collections, Forms, Automations, Credentials, FirstReads, AutomationReads, ProjectReads, UserReads,
         OrgReads, BundleReads
<1>13. section = "bundles" => FirstReads = {1}
  BY DEF FirstReads, BundleReads, Automations
<1>14. section \in Collections \cup Forms => Reading
  BY <1>6, <1>12 DEF Reading
<1>15. \A i \in 1 .. 2 : reads[i].at # "read"
  BY <1>6
<1>16. \A e \in Entry : pane.list[e] = NoEntry
  BY <1>7 DEF NoRows
<1>17. ListFits
  BY <1>0, <1>6, <1>13, <1>14, <1>15, <1>16 DEF ListFits
<1>18. TextsFit
  BY <1>0, <1>10, <1>14, <1>15 DEF TextsFit
<1> QED
  BY <1>0, <1>2, <1>8, <1>9, <1>11, <1>17, <1>18 DEF SettingsFit, DialogsFit

LEMMA SettingsNextFits ==
  ASSUME SettingsFit, SettingsNext
  PROVE  SettingsFit'
<1>1. CASE DialogSteps
  BY <1>1, DialogStepsFit
<1>2. CASE UserAsks
  BY <1>2, UserAsksFit
<1>3. CASE SaveForm
  BY <1>3, SaveFormFits
<1>4. ASSUME NEW a \in asked, ServeAsk(a) \/ AskAnswered(a) \/ AskFails(a) \/ ServeSave(a) \/ FormSaved(a)
      PROVE  SettingsFit'
  BY <1>4, ServeAskFits, ChangeAnsweredFits, InstallAnsweredFits, AskFailsFits, ServeSaveFits, FormSavedFits
<1>5. ASSUME NEW i \in 1 .. 2, ServeRead(i) \/ ReadAnswered(i) \/ ReadFails(i)
      PROVE  SettingsFit'
  BY <1>5, ServeReadFits, ListAnsweredFits, TextsAnsweredFits, ReadFailsFits
<1>6. ASSUME NEW f \in Field, NEW x \in Text, TypeField(f, x)
      PROVE  SettingsFit'
  BY <1>6, TypeFieldFits
<1> QED
  BY <1>1, <1>2, <1>3, <1>4, <1>5, <1>6, Zenon DEF SettingsNext, DialogSteps, UserAsks

LEMMA SettingsStutterFits ==
  ASSUME SettingsFit, UNCHANGED settingsVars
  PROVE  SettingsFit'
BY DEF settingsVars, SettingsFit, SettingsTypeOK, AskFits, DialogsFit, EditsMatch, ListFits, TextsFit, Reading,
       DoneFor, Changing

(* What fits is, at rest, what the page shows.                             *)
LEMMA SettingsFitShows == SettingsFit => SettingsFollow
<1> SUFFICES ASSUME SettingsFit, SettingsQuiet
             PROVE  SettingsCurrent
  BY DEF SettingsFollow, SettingsFit, SettingsCurrent
<1>1. asked = {} /\ ~Reading /\ ~doubt /\ \A e \in Entry : ~DoneFor(e)
  BY DEF SettingsQuiet, Reading, DoneFor
<1>2. section \in Collections =>
        pane.list = entries /\ \A e \in Entry : entries[e] # NoEntry => pane.knob[e] = entries[e].on
  <2> SUFFICES ASSUME section \in Collections
               PROVE  pane.list = entries /\ \A e \in Entry : entries[e] # NoEntry => pane.knob[e] = entries[e].on
    OBVIOUS
  <2>1. \A e \in Entry : pane.list[e] = entries[e]
    BY <1>1, ListFacts
  <2>2. pane.list = entries
    BY <2>1, SettingsFacts DEF Rows
  <2> QED
    BY <1>1, <2>2, ListFacts
<1>3. section \in Forms /\ ~form.dirty => \A f \in Field : form.typed[f] \in {form.stored[f], "empty"}
  BY <1>1 DEF SettingsFit, TextsFit
<1> QED
  BY <1>2, <1>3 DEF SettingsCurrent

(* The variables of the settings hold what they are said to hold.          *)
THEOREM SettingsTyped == SettingsSpec => []SettingsTypeOK
<1>1. SettingsFit => SettingsTypeOK
  BY DEF SettingsFit
<1> QED
  BY <1>1, SettingsInitFits, SettingsNextFits, SettingsStutterFits, PTL DEF SettingsSpec

(* What was entered for a record is stored for that record; and at rest    *)
(* the lists, their switches and the forms show what the server has,       *)
(* unless requests about one record met or one failed.                     *)
THEOREM SettingsShowWhatIs == SettingsSpec => []SettingsFollow
BY SettingsInitFits, SettingsNextFits, SettingsStutterFits, SettingsFitShows, PTL DEF SettingsSpec
-----------------------------------------------------------------------------
(* The panels of a session.                                                *)
QuestionsType == [status : [Question -> Status], text : [Question -> Question \cup {Nothing, Others}],
                  seen : [Question -> Status], answering : Question \cup {Nothing}, draft : Question \cup {Nothing},
                  submit : Sent(Question) \cup {Nothing}, dismissing : SUBSET Question]
NotesType == [content : [Note -> Note \cup {Nothing}], exists : SUBSET Note, seen : SUBSET Note,
              active : Note \cup {Nothing}, editing : BOOLEAN, edit : Note \cup {Nothing},
              save : Sent(Note) \cup {Nothing}, creating : SUBSET Note]
ActivityLoad == [of : Actor, n : 0 .. NotYet]
ActivityType == [of : Actor, loads : SUBSET ActivityLoad, shown : [of : Actor, n : 0 .. MaxNews], missed : BOOLEAN]
ConsoleType == [who : Actor \cup {Nothing}, mail : [Actor -> Nat], loads : SUBSET ConsoleLoad,
                messages : [of : Actor \cup {Nothing}, n : Nat], info : Actor \cup {Nothing},
                box : BOOLEAN, posts : SUBSET Post, untold : BOOLEAN, missed : BOOLEAN]

BoundsFit ==
  /\ kind \in {"none", "questions", "notes", "feed", "view", "console"}
  /\ news \in 0 .. MaxNews /\ linked \in BOOLEAN /\ uses \in 0 .. MaxUses /\ fails \in Nat

(* What is in the box was typed for the question that is answered.         *)
QuestionsFit ==
  /\ questions \in QuestionsType /\ questions.draft \in {Nothing, questions.answering}
  /\ questions.submit # Nothing => questions.submit.text = questions.submit.id
  /\ AnswersMatch

(* What is in the editor was typed for the note that is selected.          *)
NotesFit ==
  /\ notes \in NotesType /\ notes.active # Nothing
  /\ notes.editing => notes.edit \in {Nothing, notes.active}
  /\ notes.save # Nothing => notes.save.text \in {Nothing, notes.save.id}
  /\ NotesMatch

(* With nothing missed all there is was shown, or will be by an answer that*)
(* is on its way.                                                          *)
ActivityFit ==
  /\ activity \in ActivityType
  /\ kind \in {"feed", "view"} =>
       /\ activity.shown.n <= news /\ \A r \in activity.loads : r.n = NotYet \/ r.n <= news
       /\ activity.missed \/ activity.shown = [of |-> activity.of, n |-> news]
            \/ \E r \in activity.loads : r.of = activity.of /\ r.n \in {news, NotYet}

Undone == {p \in console.posts : p.stage # "done"}

InfoComes       == \E r \in console.loads : r.part = "info" /\ r.of = console.who
MessagesCome(N) == \E r \in console.loads : r.part = "messages" /\ r.of = console.who /\ r.n \in N

(* The messages are shown, or will be by an answer that is on its way; a   *)
(* list that a message was added to is longer than the server's, and then  *)
(* one is on its way that is shorter.                                      *)
MessagesComeOrAre ==
  LET m == console.mail[console.who] IN
  \/ console.messages = [of |-> console.who, n |-> m]
  \/ MessagesCome({m, NotServed})
  \/ console.messages.of = console.who /\ console.messages.n > m /\ MessagesCome(Nat)

(* A message costs one of the uses that are counted, if it is the user's.  *)
MailFits ==
  /\ IsFiniteSet(console.posts)
  /\ \A a \in Actor : console.mail[a] + Cardinality(Undone) <= news + uses

ConsoleLoadsFit ==
  \A r \in console.loads : r.n = NotServed \/ (r.part = "messages" /\ r.n <= console.mail[r.of])

ShownFits ==
  console.who # Nothing /\ ~console.missed =>
    /\ console.info = console.who \/ InfoComes
    /\ console.untold \/ MessagesComeOrAre

ConsoleFit == console \in ConsoleType /\ MailFits /\ ConsoleLoadsFit /\ ShownFits

PanelsFit == BoundsFit /\ QuestionsFit /\ NotesFit /\ ActivityFit /\ ConsoleFit

LEMMA CountsStep ==
  ASSUME BoundsFit, NEW k, Use(k) \/ Goes(k) \/ News(k)
  PROVE  BoundsFit' /\ kind = k /\ kind' = kind /\ linked' = linked /\ news <= news' /\ uses <= uses'
BY PanelAssumption DEF BoundsFit, Use, Goes, News

-----------------------------------------------------------------------------
(* The questions.                                                          *)
(* Steps that leave the texts and what is being sent alone.                *)
LEMMA QuestionsAlike ==
  ASSUME QuestionsFit, questions' \in QuestionsType, questions'.draft \in {Nothing, questions'.answering},
         questions'.text = questions.text, questions'.submit \in {Nothing, questions.submit}
  PROVE  QuestionsFit'
BY DEF QuestionsFit, AnswersMatch

LEMMA QuestionsStep ==
  ASSUME QuestionsFit, QuestionsNext
  PROVE  QuestionsFit' /\ UNCHANGED <<notes, activity, console>>
<1>0. /\ questions \in QuestionsType /\ questions.draft \in {Nothing, questions.answering}
      /\ (questions.submit # Nothing => questions.submit.text = questions.submit.id) /\ AnswersMatch
  BY DEF QuestionsFit
<1>1. UNCHANGED <<notes, activity, console>>
  BY DEF QuestionsNext, AskQuestions, LoadQuestions, SetFilterOfQuestions, TypeAnswer, CancelAnswering, SubmitAnswer,
         AnswerReads, AnswerWrites, AnswerTaken, AnswerRefused, StartAnswering, DismissQuestion, Dismissed,
         OthersDecide
<1>2. ASSUME questions' = [questions EXCEPT !.seen = questions.status]
      PROVE  QuestionsFit'
  <2>1. questions' \in QuestionsType
    BY <1>0, <1>2 DEF QuestionsType
  <2>2. /\ questions'.draft = questions.draft /\ questions'.answering = questions.answering
        /\ questions'.text = questions.text /\ questions'.submit = questions.submit
    BY <1>0, <1>2 DEF QuestionsType
  <2> QED
    BY <1>0, <2>1, <2>2, QuestionsAlike
<1>3. LoadQuestions \/ SetFilterOfQuestions => QuestionsFit'
  BY <1>2 DEF LoadQuestions, SetFilterOfQuestions, AskQuestions
<1>4. ASSUME NEW i \in Question \cup {Nothing},
             questions' = [questions EXCEPT !.answering = i, !.draft = Nothing]
      PROVE  QuestionsFit'
  <2>1. questions' \in QuestionsType
    BY <1>0, <1>4 DEF QuestionsType
  <2>2. /\ questions'.draft = Nothing /\ questions'.text = questions.text /\ questions'.submit = questions.submit
    BY <1>0, <1>4 DEF QuestionsType
  <2> QED
    BY <1>0, <2>1, <2>2, QuestionsAlike
<1>5. (\E i \in Question : StartAnswering(i)) \/ CancelAnswering => QuestionsFit'
  BY <1>4 DEF StartAnswering, CancelAnswering, AskQuestions
<1>6. TypeAnswer => QuestionsFit'
  <2> SUFFICES ASSUME TypeAnswer
               PROVE  QuestionsFit'
    OBVIOUS
  <2>0. questions' = [questions EXCEPT !.draft = questions.answering]
    BY DEF TypeAnswer, AskQuestions
  <2>1. questions' \in QuestionsType
    BY <1>0, <2>0 DEF QuestionsType
  <2>2. /\ questions'.draft = questions'.answering
        /\ questions'.text = questions.text /\ questions'.submit = questions.submit
    BY <1>0, <2>0 DEF QuestionsType
  <2> QED
    BY <1>0, <2>1, <2>2, QuestionsAlike
<1>7. SubmitAnswer => QuestionsFit'
  <2> SUFFICES ASSUME SubmitAnswer
               PROVE  QuestionsFit'
    OBVIOUS
  <2> DEFINE r == [id |-> questions.answering, text |-> questions.draft, stage |-> "sent"]
  <2>0. /\ questions.answering \in Question /\ questions.draft = questions.answering
        /\ questions' = [questions EXCEPT !.submit = r]
    BY <1>0 DEF SubmitAnswer, AskQuestions, QuestionsType
  <2>1. r \in Sent(Question) /\ r.text = r.id
    BY <2>0 DEF Sent
  <2> HIDE DEF r
  <2>2. questions' \in QuestionsType
    BY <1>0, <2>0, <2>1 DEF QuestionsType
  <2>3. /\ questions'.draft = questions.draft /\ questions'.answering = questions.answering
        /\ questions'.text = questions.text /\ questions'.submit = r
    BY <1>0, <2>0 DEF QuestionsType
  <2> QED
    BY <1>0, <2>1, <2>2, <2>3 DEF QuestionsFit, AnswersMatch
<1>8. ASSUME NEW r, r = questions.submit, r # Nothing
      PROVE  /\ r \in Sent(Question) /\ r.text = r.id
             /\ \A s \in {"sent", "read", "done", "refused"} :
                  /\ [r EXCEPT !.stage = s] \in Sent(Question)
                  /\ [r EXCEPT !.stage = s].id = r.id /\ [r EXCEPT !.stage = s].text = r.text
  <2>1. r \in Sent(Question) /\ r.text = r.id
    BY <1>0, <1>8 DEF QuestionsType
  <2> QED
    BY <2>1 DEF Sent
<1>9. AnswerReads => QuestionsFit'
  <2> SUFFICES ASSUME AnswerReads
               PROVE  QuestionsFit'
    OBVIOUS
  <2> DEFINE s == IF questions.status[questions.submit.id] = "pending" THEN "read" ELSE "refused"
             r == [questions.submit EXCEPT !.stage = s]
  <2>0. s \in {"sent", "read", "done", "refused"} /\ questions.submit # Nothing
    BY DEF AnswerReads
  <2>1. questions' = [questions EXCEPT !.submit = r]
    BY <1>0 DEF AnswerReads, AskQuestions, QuestionsType
  <2> HIDE DEF s
  <2>2. r \in Sent(Question) /\ r.text = r.id
    BY <1>8, <2>0
  <2> HIDE DEF r
  <2>3. questions' \in QuestionsType
    BY <1>0, <2>1, <2>2 DEF QuestionsType
  <2>4. /\ questions'.draft = questions.draft /\ questions'.answering = questions.answering
        /\ questions'.text = questions.text /\ questions'.submit = r
    BY <1>0, <2>1 DEF QuestionsType
  <2> QED
    BY <1>0, <2>2, <2>3, <2>4 DEF QuestionsFit, AnswersMatch
<1>10. AnswerWrites => QuestionsFit'
  <2> SUFFICES ASSUME AnswerWrites
               PROVE  QuestionsFit'
    OBVIOUS
  <2> DEFINE q == questions.submit
             r == [q EXCEPT !.stage = "done"]
             status == [questions.status EXCEPT ![q.id] = "answered"]
             text == [questions.text EXCEPT ![q.id] = q.text]
  <2>0. q # Nothing /\ questions' = [questions EXCEPT !.submit.stage = "done", !.status[q.id] = "answered",
                                                     !.text[q.id] = q.text]
    BY DEF AnswerWrites, AskQuestions
  <2>1. questions' = [questions EXCEPT !.submit = r, !.status = status, !.text = text]
    BY <1>0, <2>0 DEF QuestionsType
  <2>2. q \in Sent(Question) /\ q.text = q.id
    BY <1>8, <2>0
  <2>3. r \in Sent(Question) /\ r.text = r.id /\ q.id \in Question
    BY <2>2 DEF Sent
  <2>4. status \in [Question -> Status] /\ text \in [Question -> Question \cup {Nothing, Others}]
    BY <1>0, <2>2, <2>3 DEF QuestionsType, Status
  <2>5. \A i \in Question : text[i] \in {Nothing, Others, i}
    BY <1>0, <2>2, <2>3 DEF AnswersMatch, QuestionsType
  <2> HIDE DEF r, status, text
  <2>6. questions' \in QuestionsType
    BY <1>0, <2>1, <2>3, <2>4 DEF QuestionsType
  <2>7. /\ questions'.draft = questions.draft /\ questions'.answering = questions.answering
        /\ questions'.text = text /\ questions'.submit = r
    BY <1>0, <2>1 DEF QuestionsType
  <2> QED
    BY <1>0, <2>3, <2>5, <2>6, <2>7 DEF QuestionsFit, AnswersMatch
<1>11. AnswerTaken => QuestionsFit'
  <2> SUFFICES ASSUME AnswerTaken
               PROVE  QuestionsFit'
    OBVIOUS
  <2>0. questions' = [questions EXCEPT !.submit = Nothing, !.answering = Nothing, !.draft = Nothing,
                                       !.seen = questions.status]
    BY DEF AnswerTaken, AskQuestions
  <2>1. questions' \in QuestionsType
    BY <1>0, <2>0 DEF QuestionsType
  <2>2. questions'.draft = Nothing /\ questions'.text = questions.text /\ questions'.submit = Nothing
    BY <1>0, <2>0 DEF QuestionsType
  <2> QED
    BY <2>1, <2>2, QuestionsAlike
<1>12. AnswerRefused => QuestionsFit'
  <2> SUFFICES ASSUME AnswerRefused
               PROVE  QuestionsFit'
    OBVIOUS
  <2>0. questions' = [questions EXCEPT !.submit = Nothing]
    BY DEF AnswerRefused, AskQuestions
  <2>1. questions' \in QuestionsType
    BY <1>0, <2>0 DEF QuestionsType
  <2>2. /\ questions'.draft = questions.draft /\ questions'.answering = questions.answering
        /\ questions'.text = questions.text /\ questions'.submit = Nothing
    BY <1>0, <2>0 DEF QuestionsType
  <2> QED
    BY <1>0, <2>1, <2>2, QuestionsAlike
<1>13. ASSUME NEW i \in Question, DismissQuestion(i)
       PROVE  QuestionsFit'
  <2>0. questions' = [questions EXCEPT !.dismissing = @ \cup {i}]
    BY <1>13 DEF DismissQuestion, AskQuestions
  <2>1. questions' \in QuestionsType
    BY <1>0, <2>0 DEF QuestionsType
  <2>2. /\ questions'.draft = questions.draft /\ questions'.answering = questions.answering
        /\ questions'.text = questions.text /\ questions'.submit = questions.submit
    BY <1>0, <2>0 DEF QuestionsType
  <2> QED
    BY <1>0, <2>1, <2>2, QuestionsAlike
<1>14. ASSUME NEW i \in Question, Dismissed(i)
       PROVE  QuestionsFit'
  <2> DEFINE status == [questions.status EXCEPT ![i] = IF @ = "pending" THEN "cancelled" ELSE @]
  <2>0. questions' = [questions EXCEPT !.dismissing = @ \ {i}, !.status = status, !.seen = status]
    BY <1>14 DEF Dismissed, AskQuestions
  <2>1. status \in [Question -> Status]
    BY <1>0 DEF QuestionsType, Status
  <2> HIDE DEF status
  <2>2. questions' \in QuestionsType
    BY <1>0, <2>0, <2>1 DEF QuestionsType
  <2>3. /\ questions'.draft = questions.draft /\ questions'.answering = questions.answering
        /\ questions'.text = questions.text /\ questions'.submit = questions.submit
    BY <1>0, <2>0 DEF QuestionsType
  <2> QED
    BY <1>0, <2>2, <2>3, QuestionsAlike
<1>15. ASSUME NEW i \in Question, OthersDecide(i)
       PROVE  QuestionsFit'
  <2>0. PICK s \in {"answered", "cancelled"} :
          questions' = [questions EXCEPT !.status[i] = s, !.text[i] = IF s = "answered" THEN Others ELSE @]
    BY <1>15 DEF OthersDecide, AskQuestions
  <2> DEFINE status == [questions.status EXCEPT ![i] = s]
             text == [questions.text EXCEPT ![i] = IF s = "answered" THEN Others ELSE @]
  <2>1. questions' = [questions EXCEPT !.status = status, !.text = text]
    BY <1>0, <2>0 DEF QuestionsType
  <2>2. status \in [Question -> Status] /\ text \in [Question -> Question \cup {Nothing, Others}]
    BY <1>0, <2>0 DEF QuestionsType, Status
  <2>3. \A j \in Question : text[j] \in {Nothing, Others, j}
    BY <1>0 DEF AnswersMatch, QuestionsType
  <2> HIDE DEF status, text
  <2>4. questions' \in QuestionsType
    BY <1>0, <2>1, <2>2 DEF QuestionsType
  <2>5. /\ questions'.draft = questions.draft /\ questions'.answering = questions.answering
        /\ questions'.text = text /\ questions'.submit = questions.submit
    BY <1>0, <2>1 DEF QuestionsType
  <2> QED
    BY <1>0, <2>3, <2>4, <2>5 DEF QuestionsFit, AnswersMatch
<1> QED
  BY <1>1, <1>3, <1>5, <1>6, <1>7, <1>9, <1>10, <1>11, <1>12, <1>13, <1>14, <1>15 DEF QuestionsNext

-----------------------------------------------------------------------------
(* The notes.                                                              *)
LEMMA NotesAlike ==
  ASSUME NotesFit, notes' \in NotesType, notes'.active # Nothing,
         notes'.editing => notes'.edit \in {Nothing, notes'.active},
         notes'.content = notes.content, notes'.save \in {Nothing, notes.save}
  PROVE  NotesFit'
BY DEF NotesFit, NotesMatch

LEMMA ListedNotes ==
  ASSUME NEW n \in NotesType, n.active # Nothing
  PROVE  /\ NotesListed(n) \in NotesType /\ NotesListed(n).active = n.active /\ NotesListed(n).editing = n.editing
         /\ NotesListed(n).edit = n.edit /\ NotesListed(n).content = n.content /\ NotesListed(n).save = n.save
<1>1. NotesListed(n) = [n EXCEPT !.seen = n.exists, !.active = n.active]
  BY DEF NotesListed, NotesType
<1>2. NotesListed(n) \in NotesType
  BY <1>1 DEF NotesType
<1>3. /\ NotesListed(n).active = n.active /\ NotesListed(n).editing = n.editing
      /\ NotesListed(n).edit = n.edit /\ NotesListed(n).content = n.content /\ NotesListed(n).save = n.save
  BY <1>1 DEF NotesType
<1> QED
  BY <1>2, <1>3

LEMMA NotesStep ==
  ASSUME NotesFit, NotesNext
  PROVE  NotesFit' /\ UNCHANGED <<questions, activity, console>>
<1>0. /\ notes \in NotesType /\ notes.active # Nothing /\ (notes.editing => notes.edit \in {Nothing, notes.active})
      /\ (notes.save # Nothing => notes.save.text \in {Nothing, notes.save.id}) /\ NotesMatch /\ Nothing \notin Note
  BY PanelAssumption DEF NotesFit
<1>1. UNCHANGED <<questions, activity, console>>
  BY DEF NotesNext, Writes, LoadNotes, StartEditing, CancelEditing, SaveNote, Stored, NoteSaved, CreateNote, TypeNote,
         OthersCreate, SelectNote, NoteCreated
<1>2. LoadNotes => NotesFit'
  BY <1>0, ListedNotes, NotesAlike DEF LoadNotes, Writes
<1>3. ASSUME NEW s \in Note, SelectNote(s)
      PROVE  NotesFit'
  <2>0. notes' = [notes EXCEPT !.active = s, !.editing = FALSE]
    BY <1>3 DEF SelectNote, Writes
  <2>1. notes' \in NotesType
    BY <1>0, <2>0 DEF NotesType
  <2>2. /\ notes'.active = s /\ ~notes'.editing /\ notes'.content = notes.content /\ notes'.save = notes.save
    BY <1>0, <2>0 DEF NotesType
  <2> QED
    BY <1>0, <2>1, <2>2, NotesAlike
<1>4. StartEditing => NotesFit'
  <2> SUFFICES ASSUME StartEditing
               PROVE  NotesFit'
    OBVIOUS
  <2>0. notes' = [notes EXCEPT !.edit = notes.active, !.editing = TRUE]
    BY DEF StartEditing, Writes
  <2>1. notes' \in NotesType
    BY <1>0, <2>0 DEF NotesType
  <2>2. /\ notes'.active = notes.active /\ notes'.edit = notes.active
        /\ notes'.content = notes.content /\ notes'.save = notes.save
    BY <1>0, <2>0 DEF NotesType
  <2> QED
    BY <1>0, <2>1, <2>2, NotesAlike
<1>5. CancelEditing => NotesFit'
  <2> SUFFICES ASSUME CancelEditing
               PROVE  NotesFit'
    OBVIOUS
  <2>0. notes' = [notes EXCEPT !.editing = FALSE]
    BY DEF CancelEditing, Writes
  <2>1. notes' \in NotesType
    BY <1>0, <2>0 DEF NotesType
  <2>2. /\ notes'.active = notes.active /\ ~notes'.editing
        /\ notes'.content = notes.content /\ notes'.save = notes.save
    BY <1>0, <2>0 DEF NotesType
  <2> QED
    BY <1>0, <2>1, <2>2, NotesAlike
<1>6. SaveNote => NotesFit'
  <2> SUFFICES ASSUME SaveNote
               PROVE  NotesFit'
    OBVIOUS
  <2> DEFINE r == [id |-> notes.active, text |-> notes.edit, stage |-> "sent"]
  <2>0. notes.editing /\ notes.active \in Note /\ notes.edit \in Note \cup {Nothing}
        /\ notes' = [notes EXCEPT !.save = r]
    BY <1>0 DEF SaveNote, Writes, NotesType
  <2>1. r \in Sent(Note) /\ r.text \in {Nothing, r.id}
    BY <1>0, <2>0 DEF Sent
  <2> HIDE DEF r
  <2>2. notes' \in NotesType
    BY <1>0, <2>0, <2>1 DEF NotesType
  <2>3. /\ notes'.active = notes.active /\ notes'.editing = notes.editing /\ notes'.edit = notes.edit
        /\ notes'.content = notes.content /\ notes'.save = r
    BY <1>0, <2>0 DEF NotesType
  <2> QED
    BY <1>0, <2>1, <2>2, <2>3 DEF NotesFit, NotesMatch
<1>7. Stored => NotesFit'
  <2> SUFFICES ASSUME Stored
               PROVE  NotesFit'
    OBVIOUS
  <2> DEFINE q == notes.save
             r == [q EXCEPT !.stage = "done"]
             content == [notes.content EXCEPT ![q.id] = q.text]
  <2>0. q # Nothing /\ notes' = [notes EXCEPT !.save.stage = "done", !.content[q.id] = q.text]
    BY DEF Stored, Writes
  <2>1. notes' = [notes EXCEPT !.save = r, !.content = content]
    BY <1>0, <2>0 DEF NotesType
  <2>2. q \in Sent(Note) /\ q.text \in {Nothing, q.id}
    BY <1>0, <2>0 DEF NotesType
  <2>3. r \in Sent(Note) /\ r.text \in {Nothing, r.id} /\ q.id \in Note
    BY <2>2 DEF Sent
  <2>4. content \in [Note -> Note \cup {Nothing}] /\ \A s \in Note : content[s] \in {Nothing, s}
    BY <1>0, <2>2, <2>3 DEF NotesType, NotesMatch
  <2> HIDE DEF r, content
  <2>5. notes' \in NotesType
    BY <1>0, <2>1, <2>3, <2>4 DEF NotesType
  <2>6. /\ notes'.active = notes.active /\ notes'.editing = notes.editing /\ notes'.edit = notes.edit
        /\ notes'.content = content /\ notes'.save = r
    BY <1>0, <2>1 DEF NotesType
  <2> QED
    BY <1>0, <2>3, <2>4, <2>5, <2>6 DEF NotesFit, NotesMatch
<1>8. NoteSaved => NotesFit'
  <2> SUFFICES ASSUME NoteSaved
               PROVE  NotesFit'
    OBVIOUS
  <2> DEFINE n == [notes EXCEPT !.save = Nothing, !.editing = FALSE]
  <2>0. notes' = NotesListed(n)
    BY DEF NoteSaved, Writes
  <2>1. n \in NotesType
    BY <1>0 DEF NotesType
  <2>2. n.active = notes.active /\ ~n.editing /\ n.content = notes.content /\ n.save = Nothing
    BY <1>0 DEF NotesType
  <2> HIDE DEF n
  <2> QED
    BY <1>0, <2>0, <2>1, <2>2, ListedNotes, NotesAlike
<1>9. CreateNote => NotesFit'
  <2> SUFFICES ASSUME CreateNote
               PROVE  NotesFit'
    OBVIOUS
  <2>0. PICK s \in Note : notes' = [notes EXCEPT !.creating = @ \cup {s}]
    BY DEF CreateNote, Writes
  <2>1. notes' \in NotesType
    BY <1>0, <2>0 DEF NotesType
  <2>2. /\ notes'.active = notes.active /\ notes'.editing = notes.editing /\ notes'.edit = notes.edit
        /\ notes'.content = notes.content /\ notes'.save = notes.save
    BY <1>0, <2>0 DEF NotesType
  <2> QED
    BY <1>0, <2>1, <2>2, NotesAlike
<1>10. ASSUME NEW s \in Note, NoteCreated(s)
       PROVE  NotesFit'
  <2> DEFINE n == [notes EXCEPT !.creating = @ \ {s}, !.exists = @ \cup {s},
                                 !.active = s, !.editing = TRUE, !.edit = Nothing]
  <2>0. notes' = NotesListed(n)
    BY <1>10 DEF NoteCreated, Writes
  <2>1. n \in NotesType
    BY <1>0 DEF NotesType
  <2>2. n.active = s /\ n.edit = Nothing /\ n.content = notes.content /\ n.save = notes.save
    BY <1>0 DEF NotesType
  <2> HIDE DEF n
  <2> QED
    BY <1>0, <2>0, <2>1, <2>2, ListedNotes, NotesAlike
<1>11. TypeNote => NotesFit'
  <2> SUFFICES ASSUME TypeNote
               PROVE  NotesFit'
    OBVIOUS
  <2>0. notes' = [notes EXCEPT !.edit = notes.active]
    BY DEF TypeNote, Writes
  <2>1. notes' \in NotesType
    BY <1>0, <2>0 DEF NotesType
  <2>2. /\ notes'.active = notes.active /\ notes'.edit = notes.active
        /\ notes'.content = notes.content /\ notes'.save = notes.save
    BY <1>0, <2>0 DEF NotesType
  <2> QED
    BY <1>0, <2>1, <2>2, NotesAlike
<1>12. OthersCreate => NotesFit'
  <2> SUFFICES ASSUME OthersCreate
               PROVE  NotesFit'
    OBVIOUS
  <2>0. PICK s \in Note : notes' = [notes EXCEPT !.exists = @ \cup {s}, !.content[s] = s]
    BY DEF OthersCreate, Writes
  <2> DEFINE content == [notes.content EXCEPT ![s] = s]
  <2>1. notes' = [notes EXCEPT !.exists = @ \cup {s}, !.content = content]
    BY <1>0, <2>0 DEF NotesType
  <2>2. content \in [Note -> Note \cup {Nothing}] /\ \A x \in Note : content[x] \in {Nothing, x}
    BY <1>0 DEF NotesType, NotesMatch
  <2> HIDE DEF content
  <2>3. notes' \in NotesType
    BY <1>0, <2>1, <2>2 DEF NotesType
  <2>4. /\ notes'.active = notes.active /\ notes'.editing = notes.editing /\ notes'.edit = notes.edit
        /\ notes'.content = content /\ notes'.save = notes.save
    BY <1>0, <2>1 DEF NotesType
  <2> QED
    BY <1>0, <2>2, <2>3, <2>4 DEF NotesFit, NotesMatch
<1> QED
  BY <1>1, <1>2, <1>3, <1>4, <1>5, <1>6, <1>7, <1>8, <1>9, <1>10, <1>11, <1>12 DEF NotesNext

-----------------------------------------------------------------------------
(* The activity.                                                           *)
LEMMA AskedLoad == ASSUME NEW a \in Actor PROVE Asked(a) \in ActivityLoad /\ Asked(a).of = a /\ Asked(a).n = NotYet
BY PanelAssumption DEF Asked, ActivityLoad, NotYet

(* A load that was asked for is on its way.                                *)
LEMMA LoadingFits ==
  ASSUME BoundsFit, ActivityFit, BoundsFit', news <= news', kind' = kind, NEW a \in Actor,
         kind \notin {"feed", "view"} \/ activity' = Loading([activity EXCEPT !.of = a], a),
         kind \in {"feed", "view"} \/ activity' = activity
  PROVE  ActivityFit'
<1> SUFFICES ASSUME kind \in {"feed", "view"}
             PROVE  ActivityFit'
  BY DEF ActivityFit
<1> DEFINE loads == activity.loads \cup {Asked(a)}
<1>1. activity \in ActivityType /\ activity.loads \subseteq ActivityLoad /\ Asked(a) \in ActivityLoad
  BY AskedLoad DEF ActivityFit, ActivityType
<1>2. activity' = [activity EXCEPT !.of = a, !.loads = loads]
  BY <1>1 DEF Loading, ActivityType
<1>3. loads \subseteq ActivityLoad
  BY <1>1
<1>4. /\ activity.shown.n <= news /\ \A r \in activity.loads : r.n = NotYet \/ r.n <= news
      /\ activity.shown.n \in 0 .. MaxNews /\ news \in 0 .. MaxNews /\ news' \in 0 .. MaxNews
  BY <1>1 DEF ActivityFit, ActivityType, BoundsFit
<1>5. \A r \in loads : r.n = NotYet \/ r.n <= news'
  BY <1>1, <1>4, AskedLoad, PanelAssumption DEF ActivityLoad, NotYet
<1>6. \E r \in loads : r.of = a /\ r.n = NotYet
  BY AskedLoad
<1> HIDE DEF loads
<1>7. activity' \in ActivityType
  BY <1>1, <1>2, <1>3 DEF ActivityType
<1>8. activity'.of = a /\ activity'.loads = loads /\ activity'.shown = activity.shown
  BY <1>1, <1>2 DEF ActivityType
<1>9. activity'.shown.n <= news'
  BY <1>4, <1>8, PanelAssumption
<1> QED
  BY <1>5, <1>6, <1>7, <1>8, <1>9 DEF ActivityFit

LEMMA ActivityServedFits ==
  ASSUME BoundsFit, ActivityFit, ActivityServed
  PROVE  ActivityFit'
<1>0. PICK r \in activity.loads :
        r.n = NotYet /\ activity' = [activity EXCEPT !.loads = (@ \ {r}) \cup {[r EXCEPT !.n = news]}]
  BY DEF ActivityServed, ActivityIs
<1> DEFINE q == [r EXCEPT !.n = news]
           loads == (activity.loads \ {r}) \cup {q}
<1>1. /\ kind \in {"feed", "view"} /\ kind' = kind /\ news' = news /\ news \in 0 .. MaxNews
      /\ activity \in ActivityType /\ activity.loads \subseteq ActivityLoad
  BY DEF ActivityServed, Goes, ActivityFit, ActivityType, BoundsFit
<1>2. q \in ActivityLoad /\ q.of = r.of /\ q.n = news
  BY <1>1, PanelAssumption DEF ActivityLoad, NotYet
<1>3. activity' = [activity EXCEPT !.loads = loads] /\ loads \subseteq ActivityLoad
  BY <1>0, <1>1, <1>2
<1> HIDE DEF q
<1>4. \A o \in loads : o.n = NotYet \/ o.n <= news
  BY <1>1, <1>2 DEF ActivityFit
<1>5. (\E o \in activity.loads : o.of = activity.of /\ o.n \in {news, NotYet}) =>
        \E o \in loads : o.of = activity.of /\ o.n \in {news, NotYet}
  BY <1>2
<1> HIDE DEF loads
<1>6. activity' \in ActivityType
  BY <1>1, <1>3 DEF ActivityType
<1>7. activity'.of = activity.of /\ activity'.loads = loads /\ activity'.shown = activity.shown
      /\ activity'.missed = activity.missed
  BY <1>1, <1>3 DEF ActivityType
<1> QED
  BY <1>1, <1>4, <1>5, <1>6, <1>7 DEF ActivityFit

(* An answer is shown: either it holds all there is, or what does is still *)
(* to come, or it is marked as missed.                                     *)
LEMMA ActivityLoadedFits ==
  ASSUME BoundsFit, ActivityFit, ActivityLoaded
  PROVE  ActivityFit'
<1> DEFINE Late(r) ==
      /\ r.of # activity.of \/ (activity.shown.of = activity.of /\ r.n < activity.shown.n)
      /\ \A o \in activity.loads \ {r} : o.of # activity.of \/ o.n < activity.shown.n
<1>0. PICK r \in activity.loads :
        r.n # NotYet /\ activity' = [activity EXCEPT !.loads = @ \ {r}, !.shown = r, !.missed = @ \/ Late(r)]
  BY DEF ActivityLoaded, ActivityIs
<1> DEFINE late == Late(r)
           missed == activity.missed \/ late
           loads == activity.loads \ {r}
<1>1. /\ kind \in {"feed", "view"} /\ kind' = kind /\ news' = news /\ news \in 0 .. MaxNews
      /\ activity \in ActivityType /\ activity.loads \subseteq ActivityLoad /\ activity.missed \in BOOLEAN
      /\ activity.shown \in [of : Actor, n : 0 .. MaxNews]
  BY DEF ActivityLoaded, Goes, ActivityFit, ActivityType, BoundsFit
<1>2. late \in BOOLEAN /\ missed \in BOOLEAN
  BY <1>1
<1>3. r \in [of : Actor, n : 0 .. MaxNews]
  BY <1>0, <1>1, PanelAssumption DEF ActivityLoad, NotYet
<1>4. loads \subseteq ActivityLoad
  BY <1>1
<1>5. /\ activity.shown.n <= news /\ \A o \in activity.loads : o.n = NotYet \/ o.n <= news
      /\ activity.missed \/ activity.shown = [of |-> activity.of, n |-> news]
           \/ \E o \in activity.loads : o.of = activity.of /\ o.n \in {news, NotYet}
  BY <1>1 DEF ActivityFit
<1>6. ASSUME ~missed
      PROVE  r = [of |-> activity.of, n |-> news] \/ \E o \in loads : o.of = activity.of /\ o.n \in {news, NotYet}
  <2>0. ~late /\ r.n <= news /\ r.n \in Nat /\ news \in Nat /\ activity.shown.n \in Nat /\ \A o \in loads : o.n \in Nat
    BY <1>0, <1>1, <1>3, <1>4, <1>5, <1>6, PanelAssumption DEF ActivityLoad, NotYet
  <2>1. CASE \E o \in loads : o.of = activity.of /\ o.n \in {news, NotYet}
    BY <2>1
  <2>2. CASE activity.shown = [of |-> activity.of, n |-> news]
    <3>1. activity.shown.of = activity.of /\ activity.shown.n = news
      BY <2>2
    <3>2. CASE r.of = activity.of /\ ~(r.n < news)
      <4>1. r.n = news
        BY <2>0, <3>2
      <4> QED
        BY <1>3, <3>2, <4>1
    <3>3. CASE r.of # activity.of \/ r.n < news
      <4>1. PICK o \in loads : o.of = activity.of /\ ~(o.n < news)
        BY <2>0, <3>1, <3>3
      <4>2. o.n = NotYet \/ o.n = news
        BY <1>5, <2>0, <4>1
      <4> QED
        BY <4>1, <4>2
    <3> QED
      BY <3>2, <3>3
  <2>3. CASE r.of = activity.of /\ r.n = news
    BY <1>3, <2>3
  <2> QED
    BY <1>0, <1>5, <1>6, <2>1, <2>2, <2>3
<1>7. activity' = [activity EXCEPT !.loads = loads, !.shown = r, !.missed = missed]
  BY <1>0
<1> HIDE DEF late, missed, Late
<1>8. \A o \in loads : o.n = NotYet \/ o.n <= news
  BY <1>5
<1>9. r.n <= news
  BY <1>0, <1>5
<1> HIDE DEF loads
<1>10. activity' \in ActivityType
  BY <1>1, <1>2, <1>3, <1>4, <1>7 DEF ActivityType
<1>11. activity'.of = activity.of /\ activity'.loads = loads /\ activity'.shown = r /\ activity'.missed = missed
  BY <1>1, <1>7 DEF ActivityType
<1> QED
  BY <1>1, <1>6, <1>8, <1>9, <1>10, <1>11 DEF ActivityFit

LEMMA ActivityStep ==
  ASSUME BoundsFit, ActivityFit, ActivityNext
  PROVE  BoundsFit' /\ ActivityFit' /\ UNCHANGED <<questions, notes, console>> /\ news <= news' /\ uses <= uses'
<1>0. /\ activity \in ActivityType /\ activity.of \in Actor /\ activity.loads \subseteq ActivityLoad
      /\ [activity EXCEPT !.of = activity.of] = activity
      /\ kind \in {"none", "questions", "notes", "feed", "view", "console"}
      /\ news \in 0 .. MaxNews /\ linked \in BOOLEAN /\ uses \in 0 .. MaxUses /\ fails \in Nat
  BY DEF ActivityFit, ActivityType, BoundsFit
<1>1. UNCHANGED <<questions, notes, console>>
  BY DEF ActivityNext, ActivityIs, ActivityHappens, LinkChanges, FeedPolls, FilterActor, ActivityServed, ActivityLoaded,
         ActivityFails
<1>2. BoundsFit' /\ news <= news' /\ uses <= uses' /\ kind' = kind /\ kind \in {"feed", "view"}
  <2>1. CASE LinkChanges
    BY <1>0, <2>1, PanelAssumption DEF LinkChanges, BoundsFit
  <2>2. CASE ActivityFails
    BY <1>0, <2>2, PanelAssumption DEF ActivityFails, ActivityIs, BoundsFit
  <2>3. CASE ActivityHappens \/ FeedPolls \/ ActivityServed \/ ActivityLoaded \/ \E a \in Actor : FilterActor(a)
    <3>1. \E k \in {"feed", "view"} : kind = k /\ (Use(k) \/ Goes(k) \/ News(k))
      BY <2>3 DEF ActivityHappens, FeedPolls, ActivityServed, ActivityLoaded, FilterActor, Goes, Use
    <3> QED
      BY <3>1, CountsStep
  <2> QED
    BY <2>1, <2>2, <2>3 DEF ActivityNext
<1>3. ASSUME UNCHANGED <<activity, news>>
      PROVE  ActivityFit'
  BY <1>2, <1>3 DEF ActivityFit
<1>4. LinkChanges => ActivityFit'
  BY <1>3 DEF LinkChanges
<1>5. ASSUME NEW a \in Actor, activity' = Loading([activity EXCEPT !.of = a], a)
      PROVE  ActivityFit'
  BY <1>2, <1>5, LoadingFits
<1>6. FeedPolls => ActivityFit'
  BY <1>0, <1>5 DEF FeedPolls, ActivityIs
<1>7. ASSUME NEW a \in Actor, FilterActor(a)
      PROVE  ActivityFit'
  BY <1>5, <1>7 DEF FilterActor, ActivityIs
<1>8. ASSUME activity' \in ActivityType, activity'.missed, activity'.shown = activity.shown,
             activity'.loads \subseteq activity.loads
      PROVE  ActivityFit'
  <2>1. /\ activity.shown.n <= news /\ \A r \in activity.loads : r.n = NotYet \/ r.n <= news
        /\ activity.shown.n \in 0 .. MaxNews
    BY <1>0, <1>2 DEF ActivityFit, ActivityType
  <2>2. activity'.shown.n <= news' /\ \A r \in activity'.loads : r.n = NotYet \/ r.n <= news'
    BY <1>0, <1>2, <1>8, <2>1, PanelAssumption DEF ActivityLoad, NotYet, BoundsFit
  <2> QED
    BY <1>8, <2>2 DEF ActivityFit
<1>9. ActivityHappens => ActivityFit'
  <2> SUFFICES ASSUME ActivityHappens
               PROVE  ActivityFit'
    OBVIOUS
  <2>1. CASE linked
    BY <1>0, <1>5, <2>1 DEF ActivityHappens, ActivityIs
  <2>2. CASE ~linked
    <3>0. activity' = [activity EXCEPT !.missed = TRUE]
      BY <2>2 DEF ActivityHappens, ActivityIs
    <3>1. activity' \in ActivityType
      BY <1>0, <3>0 DEF ActivityType
    <3>2. activity'.missed /\ activity'.shown = activity.shown /\ activity'.loads = activity.loads
      BY <1>0, <3>0 DEF ActivityType
    <3> QED
      BY <1>8, <3>1, <3>2
  <2> QED
    BY <2>1, <2>2
<1>10. ActivityFails => ActivityFit'
  <2> SUFFICES ASSUME ActivityFails
               PROVE  ActivityFit'
    OBVIOUS
  <2>0. PICK r \in activity.loads : activity' = [activity EXCEPT !.loads = @ \ {r}, !.missed = TRUE]
    BY DEF ActivityFails, ActivityIs
  <2>1. activity' \in ActivityType
    BY <1>0, <2>0 DEF ActivityType
  <2>2. activity'.missed /\ activity'.shown = activity.shown /\ activity'.loads = activity.loads \ {r}
    BY <1>0, <2>0 DEF ActivityType
  <2> QED
    BY <1>8, <2>1, <2>2
<1> QED
  BY <1>1, <1>2, <1>4, <1>6, <1>7, <1>9, <1>10, ActivityServedFits, ActivityLoadedFits DEF ActivityNext

-----------------------------------------------------------------------------
(* The console.                                                            *)
LEMMA ConsoleFields ==
  ASSUME ConsoleFit
  PROVE  /\ console \in ConsoleType /\ console.who \in Actor \cup {Nothing} /\ console.mail \in [Actor -> Nat]
         /\ console.loads \subseteq ConsoleLoad /\ console.messages \in [of : Actor \cup {Nothing}, n : Nat]
         /\ console.messages.n \in Nat /\ console.info \in Actor \cup {Nothing} /\ console.posts \subseteq Post
         /\ console.untold \in BOOLEAN /\ console.missed \in BOOLEAN /\ Nothing \notin Actor
         /\ IsFiniteSet(console.posts) /\ IsFiniteSet(Undone) /\ Cardinality(Undone) \in Nat
<1>1. /\ console \in ConsoleType /\ console.who \in Actor \cup {Nothing} /\ console.mail \in [Actor -> Nat]
      /\ console.loads \subseteq ConsoleLoad /\ console.messages \in [of : Actor \cup {Nothing}, n : Nat]
      /\ console.messages.n \in Nat /\ console.info \in Actor \cup {Nothing} /\ console.posts \subseteq Post
      /\ console.untold \in BOOLEAN /\ console.missed \in BOOLEAN /\ Nothing \notin Actor
  BY PanelAssumption DEF ConsoleFit, ConsoleType
<1>2. IsFiniteSet(console.posts)
  BY DEF ConsoleFit, MailFits
<1>3. Undone \subseteq console.posts
  BY DEF Undone
<1>4. IsFiniteSet(Undone) /\ Cardinality(Undone) \in Nat
  BY <1>2, <1>3, FS_Subset, FS_CardinalityType
<1> QED
  BY <1>1, <1>2, <1>4

LEMMA MailBound ==
  ASSUME BoundsFit, ConsoleFit, NEW a \in Actor
  PROVE  console.mail[a] \in Nat /\ console.mail[a] <= MaxNews + MaxUses
<1> DEFINE k == Cardinality(Undone)
           m == console.mail[a]
<1>1. m \in Nat /\ k \in Nat /\ m + k <= news + uses
  BY ConsoleFields DEF ConsoleFit, MailFits
<1> HIDE DEF k, m
<1>2. m \in Nat /\ m <= MaxNews + MaxUses
  BY <1>1, PanelAssumption DEF BoundsFit
<1> QED
  BY <1>2 DEF m

(* Requests of the console for what is not served yet.                     *)
NewLoads(c, parts) == {[part |-> p, of |-> c.who, n |-> NotServed] : p \in parts}

LEMMA NewLoadFacts ==
  ASSUME NEW c, c.who \in Actor, NEW parts \in SUBSET {"messages", "info"}
  PROVE  /\ NewLoads(c, parts) \subseteq ConsoleLoad
         /\ \A r \in NewLoads(c, parts) : r.n = NotServed /\ r.of = c.who
         /\ \A p \in parts : \E r \in NewLoads(c, parts) : r.part = p /\ r.of = c.who /\ r.n = NotServed
<1>1. NotServed \in 0 .. MaxNews + MaxUses + 1
  BY PanelAssumption DEF NotServed
<1>2. ASSUME NEW p \in parts
      PROVE  [part |-> p, of |-> c.who, n |-> NotServed] \in ConsoleLoad
  BY <1>1 DEF ConsoleLoad, NotServed
<1>3. NewLoads(c, parts) \subseteq ConsoleLoad
  BY <1>2 DEF NewLoads
<1>4. \A r \in NewLoads(c, parts) : r.n = NotServed /\ r.of = c.who
  BY DEF NewLoads
<1>5. ASSUME NEW p \in parts
      PROVE  \E r \in NewLoads(c, parts) : r.part = p /\ r.of = c.who /\ r.n = NotServed
  <2> DEFINE r == [part |-> p, of |-> c.who, n |-> NotServed]
  <2>1. r \in NewLoads(c, parts) /\ r.part = p /\ r.of = c.who /\ r.n = NotServed
    BY DEF NewLoads
  <2> QED
    BY <2>1
<1> QED
  BY <1>3, <1>4, <1>5

(* What is less stays below what has grown.                                *)
LEMMA SumsGrow ==
  ASSUME NEW m \in Nat, NEW k \in Nat, NEW n \in Nat, NEW u \in Nat, NEW x \in Nat, NEW y \in Nat,
         m + k <= n + u, n <= x, u <= y
  PROVE  m + k <= x + y
OBVIOUS

(* Steps after which nothing is shown, or less comes than before and that  *)
(* is known.                                                               *)
LEMMA ConsoleMissed ==
  ASSUME ConsoleFit, BoundsFit, news <= news', uses <= uses', BoundsFit', console' \in ConsoleType,
         console'.missed \/ console'.who = Nothing,
         console'.mail = console.mail, console'.loads \subseteq console.loads,
         IsFiniteSet(console'.posts), Cardinality(Undone') <= Cardinality(Undone), Cardinality(Undone') \in Nat
  PROVE  ConsoleFit'
<1>1. ShownFits'
  BY DEF ShownFits
<1>2. ConsoleLoadsFit'
  BY DEF ConsoleFit, ConsoleLoadsFit, NotServed
<1>3. MailFits'
  <2> SUFFICES ASSUME NEW a \in Actor
               PROVE  console'.mail[a] + Cardinality(Undone') <= news' + uses'
    BY DEF MailFits
  <2> DEFINE k == Cardinality(Undone)
             l == Cardinality(Undone')
             m == console.mail[a]
  <2>1. m \in Nat /\ k \in Nat /\ l \in Nat /\ l <= k /\ m + k <= news + uses /\ console'.mail[a] = m
    BY ConsoleFields DEF ConsoleFit, MailFits
  <2> HIDE DEF k, l, m
  <2>2. news \in Nat /\ news' \in Nat /\ uses \in Nat /\ uses' \in Nat
    BY PanelAssumption DEF BoundsFit
  <2>3. m + l <= news + uses
    BY <2>1, <2>2
  <2>4. news <= news' /\ uses <= uses'
    OBVIOUS
  <2>5. m + l <= news' + uses'
    BY <2>1, <2>2, <2>3, <2>4, SumsGrow
  <2> QED
    BY <2>1, <2>5 DEF l
<1> QED
  BY <1>1, <1>2, <1>3 DEF ConsoleFit

(* Steps that leave the mail and what is to be sent alone.                 *)
LEMMA MailKept ==
  ASSUME ConsoleFit, BoundsFit, BoundsFit', news <= news', uses <= uses',
         console'.mail = console.mail, console'.posts = console.posts
  PROVE  MailFits'
<1>1. Undone' = Undone
  BY DEF Undone
<1> SUFFICES ASSUME NEW a \in Actor
             PROVE  console'.mail[a] + Cardinality(Undone) <= news' + uses'
  BY <1>1, ConsoleFields DEF MailFits
<1> DEFINE k == Cardinality(Undone)
           m == console.mail[a]
<1>2. m \in Nat /\ k \in Nat /\ m + k <= news + uses /\ console'.mail[a] = m
  BY ConsoleFields DEF ConsoleFit, MailFits
<1> HIDE DEF k, m
<1>3. news \in Nat /\ uses \in Nat /\ news' \in Nat /\ uses' \in Nat
  BY PanelAssumption DEF BoundsFit
<1>4. news <= news' /\ uses <= uses'
  OBVIOUS
<1>5. m + k <= news' + uses'
  BY <1>2, <1>3, <1>4, SumsGrow
<1> QED
  BY <1>2, <1>5 DEF k

(* More is asked for, and nothing else that is shown or comes changes.     *)
LEMMA AskedMoreFits ==
  ASSUME ConsoleFit, console' \in ConsoleType, MailFits', NEW parts \in SUBSET {"messages", "info"},
         console'.who \in Actor, console'.mail = console.mail, console'.messages = console.messages,
         console'.info = console.info, console'.missed = console.missed,
         console'.loads = console.loads \cup NewLoads(console', parts),
         parts = {"messages", "info"} \/ (console'.who = console.who /\ console'.untold = console.untold)
  PROVE  ConsoleFit'
<1> DEFINE new == NewLoads(console', parts)
<1>1. /\ \A r \in new : r.n = NotServed /\ r.of = console'.who
      /\ \A p \in parts : \E r \in new : r.part = p /\ r.of = console'.who /\ r.n = NotServed
  BY NewLoadFacts
<1> HIDE DEF new
<1>2. console'.loads = console.loads \cup new
  BY DEF new
<1>3. ConsoleLoadsFit'
  BY <1>1, <1>2 DEF ConsoleFit, ConsoleLoadsFit, NotServed
<1>4. ShownFits'
  <2>1. CASE parts = {"messages", "info"}
    <3>1. InfoComes'
      BY <1>1, <1>2, <2>1 DEF InfoComes
    <3>2. MessagesCome({console.mail[console.who], NotServed})'
      BY <1>1, <1>2, <2>1 DEF MessagesCome, NotServed
    <3> QED
      BY <3>1, <3>2 DEF ShownFits, MessagesComeOrAre
  <2>2. CASE console'.who = console.who /\ console'.untold = console.untold
    <3>1. InfoComes => InfoComes'
      BY <1>2, <2>2 DEF InfoComes
    <3>2. \A N : MessagesCome(N) => MessagesCome(N)'
      BY <1>2, <2>2 DEF MessagesCome
    <3>3. MessagesComeOrAre => MessagesComeOrAre'
      BY <2>2, <3>2 DEF MessagesComeOrAre, NotServed
    <3> QED
      BY <2>2, <3>1, <3>3 DEF ConsoleFit, ShownFits
  <2> QED
    BY <2>1, <2>2
<1> QED
  BY <1>3, <1>4 DEF ConsoleFit

LEMMA OpenConsoleFits ==
  ASSUME BoundsFit, BoundsFit', ConsoleFit, NEW a \in Actor, OpenConsole(a), news <= news', uses <= uses'
  PROVE  ConsoleFit'
<1> DEFINE c == [console EXCEPT !.who = a, !.untold = FALSE]
           both == {"messages", "info"}
           loads == console.loads \cup NewLoads(c, both)
<1>1. c \in ConsoleType
  BY ConsoleFields DEF ConsoleType
<1>2. /\ c.who = a /\ c.loads = console.loads /\ c.mail = console.mail /\ c.messages = console.messages
      /\ c.info = console.info /\ c.missed = console.missed /\ c.posts = console.posts
  BY ConsoleFields DEF ConsoleType
<1>3. console' = [c EXCEPT !.loads = loads]
  BY <1>2 DEF OpenConsole, Watches, LoadingOf, NewLoads
<1>4. loads \subseteq ConsoleLoad
  BY <1>2, NewLoadFacts, ConsoleFields
<1> HIDE DEF c
<1>5. console' \in ConsoleType
  BY <1>1, <1>3, <1>4 DEF ConsoleType
<1>6. /\ console'.who = c.who /\ console'.loads = loads /\ console'.mail = c.mail /\ console'.messages = c.messages
      /\ console'.info = c.info /\ console'.missed = c.missed /\ console'.posts = c.posts
  BY <1>1, <1>3 DEF ConsoleType
<1>7. console'.loads = console.loads \cup NewLoads(console', both)
  BY <1>6 DEF NewLoads
<1>8. MailFits'
  BY <1>2, <1>6, MailKept
<1> QED
  BY <1>2, <1>5, <1>6, <1>7, <1>8, AskedMoreFits

LEMMA ConsolePollsFits ==
  ASSUME BoundsFit, BoundsFit', ConsoleFit, ConsolePolls, news <= news', uses <= uses'
  PROVE  ConsoleFit'
<1> DEFINE both == {"messages", "info"}
           loads == console.loads \cup NewLoads(console, both)
<1>1. console' = [console EXCEPT !.loads = loads] /\ console.who \in Actor
  BY ConsoleFields DEF ConsolePolls, Watches, LoadingOf, NewLoads
<1>2. loads \subseteq ConsoleLoad
  BY <1>1, NewLoadFacts, ConsoleFields
<1>3. console' \in ConsoleType
  BY <1>1, <1>2, ConsoleFields DEF ConsoleType
<1>4. /\ console'.who = console.who /\ console'.loads = loads /\ console'.mail = console.mail
      /\ console'.messages = console.messages /\ console'.info = console.info
      /\ console'.missed = console.missed /\ console'.posts = console.posts
  BY <1>1, ConsoleFields DEF ConsoleType
<1>5. console'.loads = console.loads \cup NewLoads(console', both)
  BY <1>4 DEF NewLoads
<1>6. MailFits'
  BY <1>4, MailKept
<1> QED
  BY <1>1, <1>3, <1>4, <1>5, <1>6, AskedMoreFits

LEMMA CloseConsoleFits ==
  ASSUME BoundsFit, BoundsFit', ConsoleFit, CloseConsole, news <= news', uses <= uses'
  PROVE  ConsoleFit'
<1> DEFINE left == {[p EXCEPT !.stage = "left"] : p \in {q \in console.posts : q.stage # "done"}}
           f == [q \in Undone |-> [q EXCEPT !.stage = "left"]]
<1>1. console' = [Closed(console.mail) EXCEPT !.posts = left]
  BY DEF CloseConsole, Watches
<1>2. Closed(console.mail) \in ConsoleType
  BY ConsoleFields DEF Closed, ConsoleType
<1>3. left \subseteq Post
  BY ConsoleFields DEF Post
<1>4. left = {f[q] : q \in Undone}
  BY DEF Undone
<1> HIDE DEF f
<1>5. f \in Surjection(Undone, left)
  BY <1>4, Zenon DEF f, Surjection
<1>6. IsFiniteSet(left) /\ Cardinality(left) <= Cardinality(Undone)
  BY <1>5, ConsoleFields, FS_Surjection
<1> HIDE DEF left
<1>7. console' \in ConsoleType
  BY <1>1, <1>2, <1>3 DEF ConsoleType
<1>8. console'.who = Nothing /\ console'.mail = console.mail /\ console'.loads = {} /\ console'.posts = left
  BY <1>1 DEF Closed
<1>9. Undone' \subseteq left
  BY <1>8 DEF Undone
<1>10. Cardinality(Undone') \in Nat /\ Cardinality(Undone') <= Cardinality(left) /\ Cardinality(left) \in Nat
  BY <1>6, <1>9, FS_Subset, FS_CardinalityType
<1>11. Cardinality(Undone') <= Cardinality(Undone)
  <2> DEFINE i == Cardinality(Undone')
             j == Cardinality(left)
             k == Cardinality(Undone)
  <2>1. i \in Nat /\ j \in Nat /\ k \in Nat /\ i <= j /\ j <= k
    BY <1>6, <1>10, ConsoleFields
  <2> HIDE DEF i, j, k
  <2>2. i <= k
    BY <2>1
  <2> QED
    BY <2>2 DEF i, k
<1> QED
  BY <1>6, <1>7, <1>8, <1>10, <1>11, ConsoleMissed

(* What is shown, and comes, stays.                                        *)
LEMMA ShownSame ==
  ASSUME ConsoleFit, console'.who = console.who, console'.mail = console.mail, console'.loads = console.loads,
         console'.messages = console.messages, console'.info = console.info, console'.untold = console.untold,
         console.missed => console'.missed
  PROVE  ConsoleLoadsFit' /\ ShownFits'
<1>1. ConsoleLoadsFit'
  BY DEF ConsoleFit, ConsoleLoadsFit, NotServed
<1>2. InfoComes => InfoComes'
  BY DEF InfoComes
<1>3. MessagesComeOrAre => MessagesComeOrAre'
  BY DEF MessagesComeOrAre, MessagesCome, NotServed
<1> QED
  BY <1>1, <1>2, <1>3 DEF ConsoleFit, ShownFits

LEMMA AgentWritesFits ==
  ASSUME BoundsFit, ConsoleFit, NEW a \in Actor, AgentWrites(a)
  PROVE  ConsoleFit'
<1> DEFINE mail == [console.mail EXCEPT ![a] = @ + 1]
           mine == a = console.who
           untold == console.untold \/ mine
<1>0. console' = [console EXCEPT !.mail[a] = @ + 1, !.untold = @ \/ a = console.who]
  BY DEF AgentWrites, Watches
<1>1. console' = [console EXCEPT !.mail = mail, !.untold = untold] /\ news' = news + 1 /\ uses' = uses
  BY <1>0, ConsoleFields DEF AgentWrites, News, ConsoleType
<1>2. mine \in BOOLEAN /\ untold \in BOOLEAN
  BY ConsoleFields
<1>3. /\ mail \in [Actor -> Nat] /\ (~mine /\ console.who \in Actor => mail[console.who] = console.mail[console.who])
      /\ \A b \in Actor : mail[b] \in {console.mail[b], console.mail[b] + 1}
  BY ConsoleFields
<1> HIDE DEF mail, mine
<1>4. ~untold => ~mine /\ ~console.untold
  OBVIOUS
<1> HIDE DEF untold
<1>5. console' \in ConsoleType
  BY <1>1, <1>2, <1>3, ConsoleFields DEF ConsoleType
<1>6. /\ console'.who = console.who /\ console'.loads = console.loads /\ console'.mail = mail
      /\ console'.messages = console.messages /\ console'.info = console.info
      /\ console'.missed = console.missed /\ console'.posts = console.posts /\ console'.untold = untold
  BY <1>1, ConsoleFields DEF ConsoleType
<1>7. Undone' = Undone
  BY <1>6 DEF Undone
<1>8. MailFits'
  <2> SUFFICES ASSUME NEW b \in Actor
               PROVE  console'.mail[b] + Cardinality(Undone) <= news' + uses'
    BY <1>6, <1>7, ConsoleFields DEF MailFits
  <2> DEFINE k == Cardinality(Undone)
             m == console.mail[b]
             n == mail[b]
  <2>1. m \in Nat /\ k \in Nat /\ n \in {m, m + 1} /\ m + k <= news + uses /\ news \in Nat /\ uses \in Nat
    BY <1>3, ConsoleFields, PanelAssumption DEF ConsoleFit, MailFits, BoundsFit
  <2> HIDE DEF k, m, n
  <2>2. n + k <= (news + 1) + uses
    BY <2>1
  <2> QED
    BY <1>1, <1>6, <2>2 DEF n, k
<1>9. ConsoleLoadsFit'
  <2> SUFFICES ASSUME NEW r \in console.loads
               PROVE  r.n = NotServed \/ (r.part = "messages" /\ r.n <= mail[r.of])
    BY <1>6 DEF ConsoleLoadsFit, NotServed
  <2>1. r.of \in Actor /\ r.n \in Nat
    BY ConsoleFields, PanelAssumption DEF ConsoleLoad
  <2>2. r.n = NotServed \/ (r.part = "messages" /\ r.n <= console.mail[r.of])
    BY DEF ConsoleFit, ConsoleLoadsFit
  <2>3. console.mail[r.of] \in Nat /\ mail[r.of] \in {console.mail[r.of], console.mail[r.of] + 1}
    BY <1>3, <2>1, ConsoleFields
  <2> QED
    BY <2>1, <2>2, <2>3
<1>10. ShownFits'
  <2>1. InfoComes => InfoComes'
    BY <1>6 DEF InfoComes
  <2>2. ASSUME ~mine, console.who # Nothing, MessagesComeOrAre
        PROVE  MessagesComeOrAre'
    <3>1. mail[console.who] = console.mail[console.who]
      BY <1>3, <2>2, ConsoleFields
    <3> QED
      BY <1>6, <2>2, <3>1 DEF MessagesComeOrAre, MessagesCome, NotServed
  <2> QED
    BY <1>4, <1>6, <2>1, <2>2 DEF ConsoleFit, ShownFits
<1> QED
  BY <1>5, <1>8, <1>9, <1>10 DEF ConsoleFit

LEMMA ConsoleServedFits ==
  ASSUME BoundsFit, ConsoleFit, NEW r \in console.loads, ConsoleServed(r)
  PROVE  ConsoleFit'
<1> DEFINE q == [r EXCEPT !.n = console.mail[r.of]]
           loads == (console.loads \ {r}) \cup {q}
           apart == r.of # console.who
           untold == console.untold /\ apart
<1>0. r.part = "messages" /\ r.n = NotServed /\ r \in ConsoleLoad /\ news' = news /\ uses' = uses
  BY ConsoleFields DEF ConsoleServed, Goes
<1>1. console' = [console EXCEPT !.loads = loads, !.untold = untold]
  BY DEF ConsoleServed, Watches
<1>2. /\ r.of \in Actor /\ console.mail[r.of] \in Nat /\ console.mail[r.of] \in 0 .. MaxNews + MaxUses + 1
  BY <1>0, MailBound, PanelAssumption DEF ConsoleLoad
<1>3. q \in ConsoleLoad /\ q.part = "messages" /\ q.of = r.of /\ q.n = console.mail[r.of]
  BY <1>0, <1>2 DEF ConsoleLoad
<1>4. apart \in BOOLEAN /\ untold \in BOOLEAN
  BY ConsoleFields
<1> HIDE DEF q
<1>5. loads \subseteq ConsoleLoad
  BY <1>3, ConsoleFields
<1>6. q \in loads /\ \A o \in console.loads : o # r => o \in loads
  OBVIOUS
<1>7. \A o \in loads : o = q \/ o \in console.loads
  OBVIOUS
<1>8. ~untold => ~apart \/ ~console.untold
  OBVIOUS
<1> HIDE DEF loads, untold
<1>9. console' \in ConsoleType
  BY <1>1, <1>4, <1>5, ConsoleFields DEF ConsoleType
<1>10. /\ console'.who = console.who /\ console'.loads = loads /\ console'.mail = console.mail
       /\ console'.messages = console.messages /\ console'.info = console.info
       /\ console'.missed = console.missed /\ console'.posts = console.posts /\ console'.untold = untold
  BY <1>1, ConsoleFields DEF ConsoleType
<1>11. MailFits'
  <2>1. Undone' = Undone
    BY <1>10 DEF Undone
  <2> QED
    BY <1>0, <1>10, <2>1 DEF ConsoleFit, MailFits
<1>12. ConsoleLoadsFit'
  <2> SUFFICES ASSUME NEW o \in loads
               PROVE  o.n = NotServed \/ (o.part = "messages" /\ o.n <= console.mail[o.of])
    BY <1>10 DEF ConsoleLoadsFit, NotServed
  <2>1. CASE o = q
    BY <1>2, <1>3, <2>1
  <2>2. CASE o \in console.loads
    BY <2>2 DEF ConsoleFit, ConsoleLoadsFit
  <2> QED
    BY <1>7, <2>1, <2>2
<1>13. ShownFits'
  <2>1. InfoComes => InfoComes'
    BY <1>0, <1>6, <1>10 DEF InfoComes
  <2>2. ASSUME ~apart
        PROVE  MessagesComeOrAre'
    <3>1. q.of = console.who /\ q.n = console.mail[console.who]
      BY <1>3, <2>2
    <3> QED
      BY <1>3, <1>6, <1>10, <3>1 DEF MessagesComeOrAre, MessagesCome
  <2>3. ASSUME apart, MessagesComeOrAre
        PROVE  MessagesComeOrAre'
    <3>1. \A N : MessagesCome(N) => MessagesCome(N)'
      BY <1>6, <1>10, <2>3 DEF MessagesCome
    <3> QED
      BY <1>10, <2>3, <3>1 DEF MessagesComeOrAre, NotServed
  <2> QED
    BY <1>8, <1>10, <2>1, <2>2, <2>3 DEF ConsoleFit, ShownFits
<1> QED
  BY <1>9, <1>11, <1>12, <1>13 DEF ConsoleFit

(* An answer about who the agent is.                                       *)
LEMMA InfoLoadedFits ==
  ASSUME BoundsFit, ConsoleFit, NEW r \in console.loads, ConsoleLoaded(r), r.part = "info"
  PROVE  ConsoleFit'
<1> DEFINE over == Overtakes(r)
           missed == console.missed \/ over
           loads == console.loads \ {r}
           c == [console EXCEPT !.loads = loads, !.missed = missed]
<1>0. r \in ConsoleLoad /\ news' = news /\ uses' = uses /\ r.of \in Actor
  BY ConsoleFields DEF ConsoleLoaded, Goes, ConsoleLoad
<1>1. console' = [c EXCEPT !.info = r.of]
  BY DEF ConsoleLoaded, Watches
<1>2. over \in BOOLEAN /\ missed \in BOOLEAN
  BY ConsoleFields DEF Overtakes
<1>3. ~missed => ~console.missed /\ r.of = console.who
  BY DEF Overtakes
<1>4. loads \subseteq ConsoleLoad
  BY ConsoleFields
<1>5. \A o \in console.loads : o.part = "messages" => o \in loads
  OBVIOUS
<1>6. loads \subseteq console.loads
  OBVIOUS
<1> HIDE DEF loads, missed, over
<1>7. console' = [console EXCEPT !.loads = loads, !.missed = missed, !.info = r.of]
  BY <1>1, ConsoleFields DEF ConsoleType
<1>8. console' \in ConsoleType
  BY <1>0, <1>2, <1>4, <1>7, ConsoleFields DEF ConsoleType
<1>9. /\ console'.who = console.who /\ console'.loads = loads /\ console'.mail = console.mail
      /\ console'.messages = console.messages /\ console'.info = r.of
      /\ console'.missed = missed /\ console'.posts = console.posts /\ console'.untold = console.untold
  BY <1>7, ConsoleFields DEF ConsoleType
<1>10. MailFits'
  <2>1. Undone' = Undone
    BY <1>9 DEF Undone
  <2> QED
    BY <1>0, <1>9, <2>1 DEF ConsoleFit, MailFits
<1>11. ConsoleLoadsFit'
  BY <1>6, <1>9 DEF ConsoleFit, ConsoleLoadsFit, NotServed
<1>12. ShownFits'
  <2>1. \A N : MessagesCome(N) => MessagesCome(N)'
    BY <1>5, <1>9 DEF MessagesCome
  <2>2. MessagesComeOrAre => MessagesComeOrAre'
    BY <1>9, <2>1 DEF MessagesComeOrAre, NotServed
  <2> QED
    BY <1>3, <1>9, <2>2 DEF ConsoleFit, ShownFits
<1> QED
  BY <1>8, <1>10, <1>11, <1>12 DEF ConsoleFit

(* A list of messages: if it does not overtake, it holds all there are, or *)
(* what does is still to come.                                             *)
LEMMA MessagesLoadedFits ==
  ASSUME BoundsFit, ConsoleFit, NEW r \in console.loads, ConsoleLoaded(r), r.part # "info"
  PROVE  ConsoleFit'
<1> DEFINE over == Overtakes(r)
           missed == console.missed \/ over
           loads == console.loads \ {r}
           c == [console EXCEPT !.loads = loads, !.missed = missed]
           messages == [of |-> r.of, n |-> r.n]
<1>0. /\ r \in ConsoleLoad /\ news' = news /\ uses' = uses /\ r.of \in Actor /\ r.part = "messages"
      /\ r.n # NotServed /\ r.n \in Nat
  BY ConsoleFields, PanelAssumption DEF ConsoleLoaded, Goes, ConsoleLoad
<1>1. console' = [c EXCEPT !.messages = messages]
  BY <1>0 DEF ConsoleLoaded, Watches
<1>2. over \in BOOLEAN /\ missed \in BOOLEAN
  BY ConsoleFields DEF Overtakes
<1>3. ~missed => /\ ~console.missed /\ r.of = console.who
                 /\ ~(r.of = console.messages.of /\ r.n < console.messages.n)
  BY <1>0 DEF Overtakes
<1>4. loads \subseteq ConsoleLoad
  BY ConsoleFields
<1>5. \A o \in console.loads : o # r => o \in loads
  OBVIOUS
<1>6. loads \subseteq console.loads
  OBVIOUS
<1>7. messages \in [of : Actor \cup {Nothing}, n : Nat]
  BY <1>0
<1> HIDE DEF loads, missed, over
<1>8. console' = [console EXCEPT !.loads = loads, !.missed = missed, !.messages = messages]
  BY <1>1, ConsoleFields DEF ConsoleType
<1> HIDE DEF messages
<1>9. console' \in ConsoleType
  BY <1>0, <1>2, <1>4, <1>7, <1>8, ConsoleFields DEF ConsoleType
<1>10. /\ console'.who = console.who /\ console'.loads = loads /\ console'.mail = console.mail
       /\ console'.messages = messages /\ console'.info = console.info
       /\ console'.missed = missed /\ console'.posts = console.posts /\ console'.untold = console.untold
  BY <1>8, ConsoleFields DEF ConsoleType
<1>11. MailFits'
  <2>1. Undone' = Undone
    BY <1>10 DEF Undone
  <2> QED
    BY <1>0, <1>10, <2>1 DEF ConsoleFit, MailFits
<1>12. ConsoleLoadsFit'
  BY <1>6, <1>10 DEF ConsoleFit, ConsoleLoadsFit, NotServed
<1>13. InfoComes => InfoComes'
  BY <1>0, <1>5, <1>10 DEF InfoComes
<1>14. ASSUME ~missed, MessagesComeOrAre
       PROVE  MessagesComeOrAre'
  <2> DEFINE m == console.mail[console.who]
  <2>1. m \in Nat /\ r.n <= m /\ r.of = console.who
    BY <1>0, <1>3, <1>14, ConsoleFields DEF ConsoleFit, ConsoleLoadsFit
  <2>2. ASSUME r.n = m
        PROVE  MessagesComeOrAre'
    BY <1>10, <2>1, <2>2 DEF MessagesComeOrAre, messages
  <2>3. CASE console.messages = [of |-> console.who, n |-> m]
    <3>1. console.messages.of = r.of /\ console.messages.n = m
      BY <2>1, <2>3
    <3>2. r.n = m
      BY <1>0, <1>3, <1>14, <2>1, <3>1
    <3> QED
      BY <2>2, <3>2
  <2>4. CASE MessagesCome({m, NotServed})
    <3>1. PICK o \in console.loads : o.part = "messages" /\ o.of = console.who /\ o.n \in {m, NotServed}
      BY <2>4 DEF MessagesCome
    <3>2. CASE o = r
      BY <1>0, <2>2, <3>1, <3>2
    <3>3. CASE o # r
      <4>1. MessagesCome({m, NotServed})'
        BY <1>5, <1>10, <3>1, <3>3 DEF MessagesCome, NotServed
      <4> QED
        BY <1>10, <4>1 DEF MessagesComeOrAre, NotServed
    <3> QED
      BY <3>2, <3>3
  <2>5. CASE console.messages.of = console.who /\ console.messages.n > m
    <3>1. r.n < console.messages.n
      BY <1>0, <2>1, <2>5, ConsoleFields
    <3> QED
      BY <1>3, <1>14, <2>1, <2>5, <3>1
  <2> QED
    BY <1>14, <2>3, <2>4, <2>5 DEF MessagesComeOrAre
<1>15. ShownFits'
  BY <1>3, <1>10, <1>13, <1>14 DEF ConsoleFit, ShownFits
<1> QED
  BY <1>9, <1>11, <1>12, <1>15 DEF ConsoleFit

LEMMA ConsoleFailsFits ==
  ASSUME BoundsFit, ConsoleFit, ConsoleFails
  PROVE  ConsoleFit' /\ BoundsFit'
<1>0. /\ news' = news /\ uses' = uses /\ UNCHANGED <<kind, linked>>
      /\ fails' = fails + 1 /\ kind = "console" /\ BoundsFit' /\ news <= news' /\ uses <= uses'
  <2>1. UNCHANGED <<kind, news, linked, uses>> /\ fails' = fails + 1 /\ kind = "console"
    BY DEF ConsoleFails
  <2>2. BoundsFit'
    BY <2>1 DEF BoundsFit
  <2>3. news \in Nat /\ uses \in Nat
    BY PanelAssumption DEF BoundsFit
  <2> QED
    BY <2>1, <2>2, <2>3
<1>1. ASSUME NEW r \in console.loads, console' = [console EXCEPT !.loads = @ \ {r}, !.missed = TRUE]
      PROVE  ConsoleFit'
  <2>1. console' \in ConsoleType
    BY <1>1, ConsoleFields DEF ConsoleType
  <2>2. /\ console'.missed /\ console'.mail = console.mail /\ console'.loads = console.loads \ {r}
        /\ console'.posts = console.posts
    BY <1>1, ConsoleFields DEF ConsoleType
  <2>3. Undone' = Undone
    BY <2>2 DEF Undone
  <2>4. Cardinality(Undone') <= Cardinality(Undone) /\ Cardinality(Undone') \in Nat /\ IsFiniteSet(console'.posts)
    BY <2>2, <2>3, ConsoleFields
  <2> QED
    BY <1>0, <2>1, <2>2, <2>4, ConsoleMissed
<1>2. ASSUME NEW p \in console.posts,
             console' = [console EXCEPT !.posts = @ \ {p}, !.missed = @ \/ p.stage = "done"]
      PROVE  ConsoleFit'
  <2> DEFINE done == p.stage = "done"
             missed == console.missed \/ done
             posts == console.posts \ {p}
  <2>1. console' = [console EXCEPT !.posts = posts, !.missed = missed]
    BY <1>2
  <2>2. missed \in BOOLEAN /\ (console.missed => missed)
    BY ConsoleFields
  <2>3. posts \subseteq Post /\ posts \subseteq console.posts
    BY ConsoleFields
  <2>4. IsFiniteSet(posts)
    BY <2>3, ConsoleFields, FS_Subset
  <2> HIDE DEF missed, posts, done
  <2>5. console' \in ConsoleType
    BY <2>1, <2>2, <2>3, ConsoleFields DEF ConsoleType
  <2>6. /\ console'.who = console.who /\ console'.loads = console.loads /\ console'.mail = console.mail
        /\ console'.messages = console.messages /\ console'.info = console.info
        /\ console'.missed = missed /\ console'.posts = posts /\ console'.untold = console.untold
    BY <2>1, ConsoleFields DEF ConsoleType
  <2>7. Undone' \subseteq Undone
    BY <2>3, <2>6 DEF Undone
  <2>8. Cardinality(Undone') \in Nat /\ Cardinality(Undone') <= Cardinality(Undone)
    BY <2>7, ConsoleFields, FS_Subset, FS_CardinalityType
  <2>9. MailFits'
    <3> SUFFICES ASSUME NEW a \in Actor
                 PROVE  console'.mail[a] + Cardinality(Undone') <= news' + uses'
      BY <2>4, <2>6 DEF MailFits
    <3> DEFINE k == Cardinality(Undone)
               l == Cardinality(Undone')
               m == console.mail[a]
    <3>1. m \in Nat /\ k \in Nat /\ l \in Nat /\ l <= k /\ m + k <= news + uses /\ news \in Nat /\ uses \in Nat
      BY <2>8, ConsoleFields, PanelAssumption DEF ConsoleFit, MailFits, BoundsFit
    <3> HIDE DEF k, l, m
    <3>2. m + l <= news + uses
      BY <3>1
    <3> QED
      BY <1>0, <2>6, <3>2 DEF l, m
  <2> QED
    BY <2>2, <2>5, <2>6, <2>9, ShownSame DEF ConsoleFit
<1> QED
  BY <1>0, <1>1, <1>2 DEF ConsoleFails, Watches

LEMMA TypeMessageFits ==
  ASSUME BoundsFit, BoundsFit', ConsoleFit, TypeMessage, news <= news', uses <= uses'
  PROVE  ConsoleFit'
<1>0. console' = [console EXCEPT !.box = TRUE]
  BY DEF TypeMessage, Watches
<1>1. console' \in ConsoleType
  BY <1>0, ConsoleFields DEF ConsoleType
<1>2. /\ console'.who = console.who /\ console'.loads = console.loads /\ console'.mail = console.mail
      /\ console'.messages = console.messages /\ console'.info = console.info
      /\ console'.missed = console.missed /\ console'.posts = console.posts /\ console'.untold = console.untold
  BY <1>0, ConsoleFields DEF ConsoleType
<1> QED
  BY <1>1, <1>2, MailKept, ShownSame DEF ConsoleFit

LEMMA SendMessageFits ==
  ASSUME BoundsFit, ConsoleFit, SendMessage
  PROVE  ConsoleFit'
<1> DEFINE again == \E p \in console.posts : ~p.again
           q == [of |-> console.who, again |-> again, stage |-> "sent"]
           posts == console.posts \cup {q}
<1>0. news' = news /\ uses' = uses + 1 /\ console' = [console EXCEPT !.posts = posts] /\ console.who \in Actor
  BY ConsoleFields DEF SendMessage, Watches, Use
<1>1. again \in BOOLEAN
  OBVIOUS
<1> HIDE DEF again
<1>2. q \in Post
  BY <1>0, <1>1 DEF Post
<1> HIDE DEF q
<1>3. posts \subseteq Post /\ IsFiniteSet(posts)
  BY <1>2, ConsoleFields, FS_AddElement
<1>4. console' \in ConsoleType
  <2> HIDE DEF posts
  <2> QED
    BY <1>0, <1>3, ConsoleFields DEF ConsoleType
<1>5. /\ console'.who = console.who /\ console'.loads = console.loads /\ console'.mail = console.mail
      /\ console'.messages = console.messages /\ console'.info = console.info
      /\ console'.missed = console.missed /\ console'.posts = posts /\ console'.untold = console.untold
  BY <1>0, ConsoleFields DEF ConsoleType
<1>6. Undone' \subseteq Undone \cup {q}
  BY <1>5 DEF Undone
<1>7. /\ Cardinality(Undone') \in Nat /\ Cardinality(Undone') <= Cardinality(Undone \cup {q})
      /\ Cardinality(Undone \cup {q}) \in {Cardinality(Undone), Cardinality(Undone) + 1}
  <2>1. IsFiniteSet(Undone \cup {q}) /\ Cardinality(Undone \cup {q}) \in {Cardinality(Undone), Cardinality(Undone) + 1}
    BY ConsoleFields, FS_AddElement
  <2>2. IsFiniteSet(Undone') /\ Cardinality(Undone') <= Cardinality(Undone \cup {q})
    BY <1>6, <2>1, FS_Subset
  <2> QED
    BY <2>1, <2>2, FS_CardinalityType
<1>8. MailFits'
  <2> SUFFICES ASSUME NEW a \in Actor
               PROVE  console'.mail[a] + Cardinality(Undone') <= news' + uses'
    BY <1>3, <1>5 DEF MailFits
  <2> DEFINE k == Cardinality(Undone)
             j == Cardinality(Undone \cup {q})
             l == Cardinality(Undone')
             m == console.mail[a]
  <2>1. /\ m \in Nat /\ k \in Nat /\ l \in Nat /\ l <= j /\ j \in {k, k + 1}
        /\ m + k <= news + uses /\ news \in Nat /\ uses \in Nat
    BY <1>7, ConsoleFields, PanelAssumption DEF ConsoleFit, MailFits, BoundsFit
  <2> HIDE DEF k, l, m, j
  <2>2. m + l <= news + (uses + 1)
    BY <2>1
  <2> QED
    BY <1>0, <1>5, <2>2 DEF l, m
<1> QED
  BY <1>4, <1>5, <1>8, ShownSame DEF ConsoleFit

(* What is sent arrives, and an open console loads its messages.           *)
LEMMA PostedFits ==
  ASSUME BoundsFit, ConsoleFit, NEW p \in console.posts, Posted(p)
  PROVE  ConsoleFit'
<1> DEFINE answered == IF p.stage = "sent" THEN {[p EXCEPT !.stage = "done"]} ELSE {}
           posts == (console.posts \ {p}) \cup answered
           mail == [console.mail EXCEPT ![p.of] = @ + 1]
           c == [console EXCEPT !.mail = mail, !.posts = posts]
           more == IF console.who = Nothing THEN {} ELSE NewLoads(console, {"messages"})
           loads == console.loads \cup more
<1>0. p \in Post /\ p.of \in Actor /\ p.stage # "done" /\ news' = news /\ uses' = uses
  BY ConsoleFields DEF Posted, Goes, Post
<1>1. answered \subseteq Post /\ IsFiniteSet(answered) /\ \A o \in answered : o.stage = "done"
  <2>1. answered \subseteq Post /\ \A o \in answered : o.stage = "done"
    BY <1>0 DEF Post
  <2>2. IsFiniteSet(answered)
    BY FS_EmptySet, FS_Singleton
  <2> QED
    BY <2>1, <2>2
<1>2. console' = Told([console EXCEPT !.mail[p.of] = @ + 1, !.posts = (@ \ {p}) \cup answered])
  BY DEF Posted, Watches
<1> HIDE DEF answered
<1>3. posts \subseteq Post /\ IsFiniteSet(posts)
  <2>1. IsFiniteSet(console.posts \ {p})
    BY ConsoleFields, FS_RemoveElement
  <2> QED
    BY <1>1, <2>1, ConsoleFields, FS_Union
<1>4. {o \in posts : o.stage # "done"} = Undone \ {p}
  BY <1>1 DEF Undone
<1>5. [console EXCEPT !.mail[p.of] = @ + 1, !.posts = (@ \ {p}) \cup answered] = c
  BY <1>0, ConsoleFields DEF ConsoleType
<1>6. mail \in [Actor -> Nat] /\ \A a \in Actor : mail[a] \in {console.mail[a], console.mail[a] + 1}
  BY <1>0, ConsoleFields
<1> HIDE DEF posts, mail
<1>7. c \in ConsoleType
  BY <1>3, <1>6, ConsoleFields DEF ConsoleType
<1>8. /\ c.who = console.who /\ c.loads = console.loads /\ c.mail = mail
      /\ c.messages = console.messages /\ c.info = console.info
      /\ c.missed = console.missed /\ c.posts = posts /\ c.untold = console.untold
  BY ConsoleFields DEF ConsoleType
<1> HIDE DEF c
<1>9. /\ more \subseteq ConsoleLoad /\ \A r \in more : r.n = NotServed
      /\ console.who # Nothing => \E r \in more : r.part = "messages" /\ r.of = console.who /\ r.n = NotServed
  <2>1. CASE console.who = Nothing
    BY <2>1
  <2>2. CASE console.who # Nothing
    BY <2>2, NewLoadFacts, ConsoleFields
  <2> QED
    BY <2>1, <2>2
<1>10. console' = [c EXCEPT !.loads = loads]
  <2>1. CASE console.who = Nothing
    <3>1. c = [c EXCEPT !.loads = c.loads]
      BY <1>7 DEF ConsoleType
    <3>2. console' = c /\ loads = c.loads
      BY <1>2, <1>5, <1>8, <2>1 DEF Told
    <3> QED
      BY <3>1, <3>2
  <2>2. CASE console.who # Nothing
    BY <1>2, <1>5, <1>8, <2>2 DEF Told, LoadingOf, NewLoads
  <2> QED
    BY <2>1, <2>2
<1>11. loads \subseteq ConsoleLoad
  BY <1>9, ConsoleFields
<1>12. \A r \in loads : r \in console.loads \/ r.n = NotServed
  BY <1>9
<1>13. console.loads \subseteq loads
  OBVIOUS
<1>14. console.who # Nothing => \E r \in loads : r.part = "messages" /\ r.of = console.who /\ r.n = NotServed
  BY <1>9
<1> HIDE DEF loads
<1>15. console' \in ConsoleType
  BY <1>7, <1>10, <1>11 DEF ConsoleType
<1>16. /\ console'.who = console.who /\ console'.loads = loads /\ console'.mail = mail
       /\ console'.messages = console.messages /\ console'.info = console.info
       /\ console'.missed = console.missed /\ console'.posts = posts /\ console'.untold = console.untold
  BY <1>7, <1>8, <1>10 DEF ConsoleType
<1>17. MailFits'
  <2>1. Undone' = Undone \ {p} /\ p \in Undone
    BY <1>0, <1>4, <1>16 DEF Undone
  <2>2. Cardinality(Undone \ {p}) = Cardinality(Undone) - 1
    BY <2>1, ConsoleFields, FS_RemoveElement
  <2> SUFFICES ASSUME NEW a \in Actor
               PROVE  mail[a] + Cardinality(Undone \ {p}) <= news + uses
    BY <1>0, <1>3, <1>16, <2>1 DEF MailFits
  <2> DEFINE k == Cardinality(Undone)
             l == Cardinality(Undone \ {p})
             m == console.mail[a]
             n == mail[a]
  <2>3. m \in Nat /\ k \in Nat /\ l = k - 1 /\ n \in {m, m + 1} /\ m + k <= news + uses /\ news \in Nat /\ uses \in Nat
    BY <1>6, <2>2, ConsoleFields, PanelAssumption DEF ConsoleFit, MailFits, BoundsFit
  <2> HIDE DEF k, l, m, n
  <2>4. n + l <= news + uses
    BY <2>3
  <2> QED
    BY <2>4 DEF l, n
<1>18. ConsoleLoadsFit'
  <2> SUFFICES ASSUME NEW r \in loads
               PROVE  r.n = NotServed \/ (r.part = "messages" /\ r.n <= mail[r.of])
    BY <1>16 DEF ConsoleLoadsFit, NotServed
  <2>1. CASE r \in console.loads
    <3>1. r.of \in Actor /\ r.n \in Nat
      BY <2>1, ConsoleFields, PanelAssumption DEF ConsoleLoad
    <3>2. r.n = NotServed \/ (r.part = "messages" /\ r.n <= console.mail[r.of])
      BY <2>1 DEF ConsoleFit, ConsoleLoadsFit
    <3>3. console.mail[r.of] \in Nat /\ mail[r.of] \in {console.mail[r.of], console.mail[r.of] + 1}
      BY <1>6, <3>1, ConsoleFields
    <3> QED
      BY <3>1, <3>2, <3>3
  <2> QED
    BY <1>12, <2>1
<1>19. ShownFits'
  <2>1. InfoComes => InfoComes'
    BY <1>13, <1>16 DEF InfoComes
  <2>2. console.who # Nothing => MessagesComeOrAre'
    BY <1>14, <1>16 DEF MessagesComeOrAre, MessagesCome, NotServed
  <2> QED
    BY <1>16, <2>1, <2>2 DEF ConsoleFit, ShownFits
<1> QED
  BY <1>15, <1>17, <1>18, <1>19 DEF ConsoleFit

(* The message is added to the list that is shown.                         *)
LEMMA MessageSentFits ==
  ASSUME BoundsFit, ConsoleFit, NEW p \in console.posts, MessageSent(p)
  PROVE  ConsoleFit'
<1> DEFINE comes == \E r \in console.loads : r.part = "messages" /\ r.of = console.who
           missed == console.missed \/ ~comes
           posts == console.posts \ {p}
           messages == [console.messages EXCEPT !.n = @ + 1]
<1>0. p.stage = "done" /\ news' = news /\ uses' = uses
  BY DEF MessageSent, Goes
<1>1. console' = [console EXCEPT !.posts = posts, !.box = FALSE, !.messages = messages, !.missed = missed]
  BY ConsoleFields DEF MessageSent, Watches, ConsoleType
<1>2. comes \in BOOLEAN /\ missed \in BOOLEAN /\ (~missed => ~console.missed /\ comes)
  BY ConsoleFields
<1>3. messages \in [of : Actor \cup {Nothing}, n : Nat]
  BY ConsoleFields
<1>4. messages.of = console.messages.of /\ messages.n = console.messages.n + 1
  BY ConsoleFields
<1>5. posts \subseteq Post /\ IsFiniteSet(posts)
  BY ConsoleFields, FS_RemoveElement
<1>6. {o \in posts : o.stage # "done"} = Undone
  BY <1>0 DEF Undone
<1>7. comes => MessagesCome(Nat)
  <2>1. \A r \in console.loads : r.n \in Nat
    BY ConsoleFields, PanelAssumption DEF ConsoleLoad
  <2> QED
    BY <2>1 DEF MessagesCome
<1> HIDE DEF comes, missed, posts, messages
<1>8. console' \in ConsoleType
  BY <1>1, <1>2, <1>3, <1>5, ConsoleFields DEF ConsoleType
<1>9. /\ console'.who = console.who /\ console'.loads = console.loads /\ console'.mail = console.mail
      /\ console'.messages = messages /\ console'.info = console.info
      /\ console'.missed = missed /\ console'.posts = posts /\ console'.untold = console.untold
  BY <1>1, ConsoleFields DEF ConsoleType
<1>10. MailFits'
  <2>1. Undone' = Undone
    BY <1>6, <1>9 DEF Undone
  <2> QED
    BY <1>0, <1>5, <1>9, <2>1 DEF ConsoleFit, MailFits
<1>11. ConsoleLoadsFit'
  BY <1>9 DEF ConsoleFit, ConsoleLoadsFit, NotServed
<1>12. InfoComes => InfoComes'
  BY <1>9 DEF InfoComes
<1>13. ASSUME ~missed, console.who # Nothing, MessagesComeOrAre
       PROVE  MessagesComeOrAre'
  <2> DEFINE m == console.mail[console.who]
             n == console.messages.n
  <2>0. \A N : MessagesCome(N) => MessagesCome(N)'
    BY <1>9 DEF MessagesCome
  <2>1. m \in Nat /\ n \in Nat /\ messages.n = n + 1
    BY <1>4, <1>13, ConsoleFields
  <2>2. CASE MessagesCome({m, NotServed})
    BY <1>9, <2>0, <2>2 DEF MessagesComeOrAre, NotServed
  <2>3. ASSUME console.messages.of = console.who, n >= m
        PROVE  MessagesComeOrAre'
    <3>1. messages.of = console.who /\ messages.n > m
      BY <1>4, <2>1, <2>3
    <3>2. MessagesCome(Nat)'
      BY <1>2, <1>7, <1>13, <2>0
    <3> QED
      BY <1>9, <3>1, <3>2 DEF MessagesComeOrAre
  <2>4. CASE console.messages = [of |-> console.who, n |-> m]
    BY <2>1, <2>3, <2>4
  <2>5. CASE console.messages.of = console.who /\ n > m
    BY <2>1, <2>3, <2>5
  <2> QED
    BY <1>13, <2>2, <2>4, <2>5 DEF MessagesComeOrAre
<1>14. ShownFits'
  BY <1>2, <1>9, <1>12, <1>13 DEF ConsoleFit, ShownFits
<1> QED
  BY <1>8, <1>10, <1>11, <1>14 DEF ConsoleFit

LEMMA ConsoleStep ==
  ASSUME BoundsFit, ConsoleFit, ConsoleNext
  PROVE  BoundsFit' /\ ConsoleFit' /\ kind = "console" /\ kind' = kind /\ UNCHANGED <<questions, notes, activity>>
<1>1. UNCHANGED <<questions, notes, activity>>
  BY DEF ConsoleNext, Watches, CloseConsole, ConsolePolls, ConsoleFails, TypeMessage, SendMessage, OpenConsole,
         AgentWrites, ConsoleServed, ConsoleLoaded, Posted, MessageSent
<1>2. CASE ConsoleFails
  BY <1>1, <1>2, ConsoleFailsFits DEF ConsoleFails
<1>3. CASE ConsoleNext /\ ~ConsoleFails
  <2>1. Use("console") \/ Goes("console") \/ News("console")
    BY <1>3 DEF ConsoleNext, CloseConsole, ConsolePolls, TypeMessage, SendMessage, OpenConsole,
         AgentWrites, ConsoleServed, ConsoleLoaded, Posted, MessageSent
  <2>2. BoundsFit' /\ kind = "console" /\ kind' = kind /\ news <= news' /\ uses <= uses'
    BY <2>1, CountsStep
  <2> QED
    BY <1>1, <1>3, <2>2, CloseConsoleFits, ConsolePollsFits, TypeMessageFits, SendMessageFits, OpenConsoleFits,
       AgentWritesFits, ConsoleServedFits, InfoLoadedFits, MessagesLoadedFits, PostedFits, MessageSentFits
       DEF ConsoleNext
<1> QED
  BY <1>2, <1>3

-----------------------------------------------------------------------------
(* The panels together.                                                    *)
LEMMA PanelsInitFits == PanelsInit => PanelsFit
<1> SUFFICES ASSUME PanelsInit
             PROVE  PanelsFit
  OBVIOUS
<1>1. BoundsFit
  BY PanelAssumption DEF PanelsInit, BoundsFit
<1>2. QuestionsFit
  <2>1. questions = [status |-> [i \in Question |-> "pending"], text |-> [i \in Question |-> Nothing],
                     seen |-> [i \in Question |-> "pending"], answering |-> Nothing,
                     draft |-> Nothing, submit |-> Nothing, dismissing |-> {}]
    BY DEF PanelsInit
  <2>2. questions \in QuestionsType
    BY <2>1 DEF QuestionsType, Status
  <2>3. questions.draft = Nothing /\ questions.submit = Nothing /\ AnswersMatch
    BY <2>1 DEF AnswersMatch
  <2> QED
    BY <2>2, <2>3 DEF QuestionsFit
<1>3. NotesFit
  <2>1. PICK n \in Note :
          notes = [content |-> [s \in Note |-> IF s = n THEN n ELSE Nothing], exists |-> {n}, seen |-> {n},
                   active |-> n, editing |-> FALSE, edit |-> Nothing, save |-> Nothing, creating |-> {}]
    BY PanelAssumption DEF PanelsInit
  <2>2. notes \in NotesType
    BY <2>1 DEF NotesType
  <2>3. notes.active = n /\ ~notes.editing /\ notes.save = Nothing /\ NotesMatch
    BY <2>1 DEF NotesMatch
  <2> QED
    BY <2>2, <2>3, PanelAssumption DEF NotesFit
<1>4. ActivityFit
  <2>1. activity = [of |-> AnActor, loads |-> {Asked(AnActor)}, shown |-> [of |-> AnActor, n |-> 0], missed |-> FALSE]
        /\ news = 0
    BY DEF PanelsInit
  <2>2. AnActor \in Actor
    BY PanelAssumption DEF AnActor
  <2>3. Asked(AnActor) \in ActivityLoad /\ Asked(AnActor).of = AnActor /\ Asked(AnActor).n = NotYet
    BY <2>2, AskedLoad
  <2>4. activity \in ActivityType
    BY <2>1, <2>2, <2>3, PanelAssumption DEF ActivityType
  <2>5. activity.of = AnActor /\ activity.loads = {Asked(AnActor)} /\ activity.shown.n = 0
    BY <2>1
  <2> QED
    BY <2>1, <2>3, <2>4, <2>5 DEF ActivityFit
<1>5. ConsoleFit
  <2>1. console = Closed([a \in Actor |-> 0]) /\ news = 0 /\ uses = 0
    BY DEF PanelsInit
  <2>2. console \in ConsoleType
    BY <2>1 DEF Closed, ConsoleType
  <2>3. /\ console.who = Nothing /\ console.loads = {} /\ console.posts = {}
        /\ console.mail = [a \in Actor |-> 0]
    BY <2>1 DEF Closed
  <2>4. Undone = {}
    BY <2>3 DEF Undone
  <2>5. MailFits
    BY <2>1, <2>3, <2>4, FS_EmptySet DEF MailFits
  <2> QED
    BY <2>2, <2>3, <2>5 DEF ConsoleFit, ConsoleLoadsFit, ShownFits
<1> QED
  BY <1>1, <1>2, <1>3, <1>4, <1>5 DEF PanelsFit

(* Steps of one panel that leave another alone.                            *)
LEMMA OthersAlone ==
  ASSUME PanelsFit, BoundsFit', news <= news', uses <= uses', kind' = kind
  PROVE  /\ UNCHANGED questions => QuestionsFit'
         /\ UNCHANGED notes => NotesFit'
         /\ UNCHANGED activity /\ kind \notin {"feed", "view"} => ActivityFit'
         /\ UNCHANGED console => ConsoleFit'
<1>1. UNCHANGED questions => QuestionsFit'
  BY DEF PanelsFit, QuestionsFit, AnswersMatch
<1>2. UNCHANGED notes => NotesFit'
  BY DEF PanelsFit, NotesFit, NotesMatch
<1>3. UNCHANGED activity /\ kind \notin {"feed", "view"} => ActivityFit'
  BY DEF PanelsFit, ActivityFit
<1>4. UNCHANGED console => ConsoleFit'
  BY MailKept, ShownSame DEF PanelsFit, ConsoleFit
<1> QED
  BY <1>1, <1>2, <1>3, <1>4

LEMMA PanelsNextFits ==
  ASSUME PanelsFit, PanelsNext
  PROVE  PanelsFit'
<1>0. BoundsFit /\ QuestionsFit /\ NotesFit /\ ActivityFit /\ ConsoleFit
  BY DEF PanelsFit
<1>1. CASE QuestionsNext
  <2>1. Use("questions") \/ Goes("questions") \/ News("questions")
    BY <1>1 DEF QuestionsNext, AskQuestions, LoadQuestions, SetFilterOfQuestions, TypeAnswer, CancelAnswering,
         SubmitAnswer, AnswerReads, AnswerWrites, AnswerTaken, AnswerRefused, StartAnswering, DismissQuestion,
         Dismissed, OthersDecide
  <2>2. BoundsFit' /\ kind = "questions" /\ kind' = kind /\ news <= news' /\ uses <= uses'
    BY <1>0, <2>1, CountsStep
  <2> QED
    BY <1>0, <1>1, <2>2, QuestionsStep, OthersAlone DEF PanelsFit
<1>2. CASE NotesNext
  <2>1. Use("notes") \/ Goes("notes") \/ News("notes")
    BY <1>2 DEF NotesNext, LoadNotes, StartEditing, CancelEditing, SaveNote, Stored, NoteSaved, CreateNote, TypeNote,
         OthersCreate, SelectNote, NoteCreated
  <2>2. BoundsFit' /\ kind = "notes" /\ kind' = kind /\ news <= news' /\ uses <= uses'
    BY <1>0, <2>1, CountsStep
  <2> QED
    BY <1>0, <1>2, <2>2, NotesStep, OthersAlone DEF PanelsFit
<1>3. CASE ActivityNext
  <2>1. kind' = kind
    BY <1>3 DEF ActivityNext, ActivityHappens, LinkChanges, FeedPolls, FilterActor, ActivityServed, ActivityLoaded,
         ActivityFails, Use, Goes, News
  <2> QED
    BY <1>0, <1>3, <2>1, ActivityStep, OthersAlone DEF PanelsFit
<1>4. CASE ConsoleNext
  <2>1. BoundsFit' /\ ConsoleFit' /\ kind = "console" /\ kind' = kind /\ UNCHANGED <<questions, notes, activity>>
    BY <1>0, <1>4, ConsoleStep
  <2>2. QuestionsFit' /\ NotesFit' /\ ActivityFit'
    BY <1>0, <2>1 DEF QuestionsFit, AnswersMatch, NotesFit, NotesMatch, ActivityFit
  <2> QED
    BY <2>1, <2>2 DEF PanelsFit
<1> QED
  BY <1>1, <1>2, <1>3, <1>4 DEF PanelsNext

LEMMA PanelsStutterFits ==
  ASSUME PanelsFit, UNCHANGED panelVars
  PROVE  PanelsFit'
<1>1. BoundsFit' /\ UNCHANGED <<kind, questions, notes, activity, console, news, uses>>
  BY DEF panelVars, PanelsFit, BoundsFit
<1>2. news \in Nat /\ uses \in Nat
  BY PanelAssumption DEF PanelsFit, BoundsFit
<1>3. ActivityFit'
  BY <1>1 DEF PanelsFit, ActivityFit
<1> QED
  BY <1>1, <1>2, <1>3, OthersAlone DEF PanelsFit

LEMMA PanelsAlwaysFit == PanelsSpec => []PanelsFit
BY PanelsInitFits, PanelsNextFits, PanelsStutterFits, PTL DEF PanelsSpec

(* The variables of the panels hold what they are said to hold; so a list  *)
(* of messages is never longer than what the bounds allow.                 *)
THEOREM PanelsTyped == PanelsSpec => []PanelsTypeOK
<1>1. PanelsFit => PanelsTypeOK
  BY PanelAssumption DEF PanelsFit, BoundsFit, QuestionsFit, NotesFit, ActivityFit, ConsoleFit, PanelsTypeOK,
     QuestionsType, NotesType, ActivityType, ActivityLoad, ConsoleType
<1> QED
  BY <1>1, PanelsAlwaysFit, PTL

(* What was written for one question or note reaches no other; at rest the *)
(* view of activity and the console show all there is of what is selected, *)
(* unless a notice was lost, a load failed or an answer came late.         *)
THEOREM PanelsMatch == PanelsSpec => []EntriesMatch
<1>1. PanelsFit => EntriesMatch
  <2> SUFFICES ASSUME PanelsFit
               PROVE  EntriesMatch
    OBVIOUS
  <2>1. AnswersMatch /\ NotesMatch
    BY DEF PanelsFit, QuestionsFit, NotesFit
  <2>2. ViewCurrent
    BY DEF PanelsFit, ActivityFit, ViewCurrent
  <2>3. ConsoleCurrent
    <3> SUFFICES ASSUME console.who # Nothing, console.loads = {}, ~console.missed, ~console.untold
                 PROVE  /\ console.messages = [of |-> console.who, n |-> console.mail[console.who]]
                        /\ console.info = console.who
      BY DEF ConsoleCurrent
    <3> QED
      BY DEF PanelsFit, ConsoleFit, ShownFits, InfoComes, MessagesComeOrAre, MessagesCome
  <2> QED
    BY <2>1, <2>2, <2>3 DEF EntriesMatch
<1> QED
  BY <1>1, PanelsAlwaysFit, PTL
-----------------------------------------------------------------------------
(* Signing in.                                                             *)
DocumentType == [at : InTab \cup {"none", "hydra"}, address : Path \cup {Root}, leaving : BOOLEAN,
                 next : {"login", "consent", "callback"}, strayed : BOOLEAN]
AuthType     == [on : BOOLEAN, loading : BOOLEAN, error : BOOLEAN, step : {"idle", "init", "callback"}]
ShellType    == [view : Views, ready : BOOLEAN, live : BOOLEAN]
FormType     == [step : {"idle", "hydra", "flow", "whoami", "accept", "post"}, challenge : BOOLEAN,
                 flow : BOOLEAN, loading : BOOLEAN, submitting : BOOLEAN, error : BOOLEAN]
ConsentType  == [step : {"idle", "asking", "accepting", "rejecting"}, challenge : BOOLEAN, client : Client,
                 auto : BOOLEAN, loading : BOOLEAN, processing : BOOLEAN, ticked : SUBSET Scope,
                 grant : SUBSET Scope, approved : BOOLEAN, granted : BOOLEAN, decisions : 0 .. 2]

(* What the shell shows, for a document and what the store says.           *)
ShellFits(d, a, sh) ==
  /\ sh \in ShellType
  /\ d.at \in {"login", "consent", "error"} => sh.view = "outlet"
  /\ d.at = "app" /\ sh.ready /\ ~d.strayed => sh.view = "layout" /\ sh.live /\ a.on /\ ~a.loading
  /\ sh.view \in {"layout", "outlet"} => sh.live \/ d.strayed

AuthFits(a) ==
  a \in AuthType /\ (a.loading => a.step \in {"init", "callback"}) /\ (a.on => a.step = "idle")

(* Where the user returns to: the storage keeps it, or the address has it. *)
ReturnFits ==
  /\ back \in Path \cup {Root} /\ due \in Path \cup {Root}
  /\ auth.step # "callback" => back = due
  /\ auth.step = "callback" =>
       /\ document.at = "app" /\ shell.view = "loading" /\ ~document.leaving /\ profiles = 0 /\ ~renewing
       /\ back = Root /\ document.address = due

StoreFits ==
  /\ document \in DocumentType /\ kept \in {"none", "valid", "expired"}
  /\ profiles \in Nat /\ renewing \in BOOLEAN /\ (profiles > 0 => document.at \in InTab)
  /\ AuthFits(auth) /\ ShellFits(document, auth, shell) /\ ReturnFits

(* The login page waits for what it has asked.                             *)
FormFits ==
  /\ loginForm \in FormType
  /\ loginForm.loading => loginForm.step \in {"hydra", "flow", "whoami", "accept"}
  /\ loginForm.submitting => loginForm.step \in {"post", "accept"}

(* The consent page: one decision, which is what was asked for and allowed.*)
ConsentFits ==
  /\ consent \in ConsentType
  /\ consent.ticked \subseteq consent.client.scopes /\ consent.grant \subseteq consent.client.scopes
  /\ consent.loading <=> consent.step = "asking"
  /\ consent.processing \/ consent.auto => consent.step \in {"accepting", "rejecting"} \/ consent.decisions > 0
  /\ consent.step = "asking" =>
       /\ consent.ticked = {} /\ consent.grant = {} /\ ~consent.granted
       /\ ~consent.processing /\ ~consent.auto /\ consent.decisions = 0
  /\ consent.step \in {"accepting", "rejecting"} => consent.processing
  /\ consent.step = "rejecting" => ~consent.auto
  /\ consent.step = "accepting" \/ consent.granted =>
       consent.approved \/ consent.client.first \/ consent.client.skip
  /\ consent.decisions > 0 => consent.decisions = 1 /\ consent.processing /\ consent.step = "idle"

CountsFit == documents \in 0 .. MaxLoads /\ deeds \in 0 .. MaxDeeds /\ troubles \in 0 .. MaxTroubles

(* The steps, by what they are about.                                      *)
Arrivals ==
  \/ \E a \in Path \cup {Root} : Visit(a)
  \/ VisitLogin(TRUE) \/ VisitLogin(FALSE) \/ VisitConsent \/ VisitError \/ VisitCallback
StoreSteps ==
  \/ InitAnswered \/ CallbackAnswered \/ CallbackFails \/ ProfileAnswered
  \/ RenewStarts \/ RenewAnswered \/ RenewFails \/ TokenExpires \/ Logout \/ Login \/ LoginFails
FormSteps ==
  \/ HydraAnswered \/ HydraFails \/ FlowAnswered \/ SessionFound \/ FlowFails
  \/ WhoamiAnswered \/ WhoamiFails
  \/ HandleSubmit \/ PostAnswered \/ PostRefused \/ AcceptAnswered \/ AcceptFails \/ BackToLogin
ConsentSteps ==
  \/ \E k \in Client : ConsentAsked(k)
  \/ ConsentAskFails \/ Approve \/ Deny \/ AcceptConsentFails \/ DenyFails
  \/ \E s \in Scope : ToggleScope(s)
  \/ \E n \in {"login", "callback"} : DecisionAnswered(n)

LEMMA SignInSteps == SignInNext => Arrivals \/ StoreSteps \/ FormSteps \/ ConsentSteps \/ Leave
BY DEF SignInNext, Arrivals, StoreSteps, FormSteps, ConsentSteps

(* The pages leave the store alone; what they do to the document is to     *)
(* leave, to go home, or to come back from the page of an error.           *)
PageMoves ==
  \/ document' = document
  \/ document.at = "login" /\ document' = Home
  \/ document.at = "error" /\ document' = [document EXCEPT !.at = "login"]
  \/ \E n \in {"login", "consent", "callback"} :
       document.at \in {"login", "consent"} /\ document' = [document EXCEPT !.leaving = TRUE, !.next = n]

LEMMA FormStepsLeave ==
  FormSteps => PageMoves /\ UNCHANGED <<back, kept, due, auth, profiles, renewing, shell, consent>>
BY DEF FormSteps, PageMoves, FormStays, Form, FormOnly, HydraAnswered, HydraFails, FlowAnswered, SessionFound,
       FlowFails, WhoamiAnswered, WhoamiFails, HandleSubmit, PostAnswered, PostRefused, AcceptAnswered,
       AcceptFails, BackToLogin

LEMMA ConsentStepsLeave ==
  ConsentSteps => PageMoves /\ UNCHANGED <<back, kept, due, auth, profiles, renewing, shell, loginForm>>
<1>1. ASSUME NEW k \in Client, ConsentAsked(k)
      PROVE  PageMoves /\ UNCHANGED <<back, kept, due, auth, profiles, renewing, shell, loginForm>>
  BY <1>1 DEF PageMoves, ConsentAsked, ConsentStays, Consent, ConsentOnly
<1>2. ASSUME NEW s \in Scope, ToggleScope(s)
      PROVE  PageMoves /\ UNCHANGED <<back, kept, due, auth, profiles, renewing, shell, loginForm>>
  BY <1>2 DEF PageMoves, ToggleScope, ConsentStays, Consent, ConsentOnly
<1>3. ASSUME NEW n \in {"login", "callback"}, DecisionAnswered(n)
      PROVE  PageMoves /\ UNCHANGED <<back, kept, due, auth, profiles, renewing, shell, loginForm>>
  BY <1>3 DEF PageMoves, DecisionAnswered, Consent, ConsentOnly
<1>4. ASSUME ConsentAskFails \/ Approve \/ Deny \/ AcceptConsentFails \/ DenyFails
      PROVE  PageMoves /\ UNCHANGED <<back, kept, due, auth, profiles, renewing, shell, loginForm>>
  BY <1>4 DEF PageMoves, ConsentAskFails, Approve, Deny, AcceptConsentFails, DenyFails, ConsentStays, Consent,
              ConsentOnly
<1> QED
  BY <1>1, <1>2, <1>3, <1>4 DEF ConsentSteps

LEMMA StoreStepsLeave == StoreSteps => UNCHANGED <<loginForm, consent>>
BY DEF StoreSteps, StoreOnly, InitAnswered, CallbackAnswered, CallbackFails, ProfileAnswered, RenewStarts,
       RenewAnswered, RenewFails, TokenExpires, Logout, Login, LoginFails

(* What a new document brings for the two pages.                           *)
LEMMA ArrivalsBring ==
  ASSUME Arrivals
  PROVE  /\ \/ loginForm' = NoForm
            \/ loginForm' = [step |-> "hydra", challenge |-> TRUE, flow |-> FALSE, loading |-> TRUE,
                             submitting |-> FALSE, error |-> FALSE]
            \/ loginForm' = [step |-> "flow", challenge |-> FALSE, flow |-> FALSE, loading |-> TRUE,
                             submitting |-> FALSE, error |-> FALSE]
         /\ \/ consent' = NoConsent
            \/ consent' = [step |-> "asking", challenge |-> TRUE, client |-> NoClient, auto |-> FALSE,
                           loading |-> TRUE, processing |-> FALSE, ticked |-> {}, grant |-> {},
                           approved |-> FALSE, granted |-> FALSE, decisions |-> 0]
<1>1. ASSUME NEW a \in Path \cup {Root}, Visit(a)
      PROVE  loginForm' = NoForm /\ consent' = NoConsent
  BY <1>1 DEF Visit
<1>2. VisitError \/ VisitCallback => loginForm' = NoForm /\ consent' = NoConsent
  BY DEF VisitError, VisitCallback
<1>3. ASSUME VisitConsent
      PROVE  /\ loginForm' = NoForm
             /\ consent' = [step |-> "asking", challenge |-> TRUE, client |-> NoClient, auto |-> FALSE,
                            loading |-> TRUE, processing |-> FALSE, ticked |-> {}, grant |-> {},
                            approved |-> FALSE, granted |-> FALSE, decisions |-> 0]
  BY <1>3, Zenon DEF VisitConsent, NoConsent
<1>4. ASSUME VisitLogin(TRUE)
      PROVE  /\ consent' = NoConsent
             /\ loginForm' = [step |-> "hydra", challenge |-> TRUE, flow |-> FALSE, loading |-> TRUE,
                              submitting |-> FALSE, error |-> FALSE]
  BY <1>4, Zenon DEF VisitLogin, NoForm
<1>5. ASSUME VisitLogin(FALSE)
      PROVE  /\ consent' = NoConsent
             /\ loginForm' = [step |-> "flow", challenge |-> FALSE, flow |-> FALSE, loading |-> TRUE,
                              submitting |-> FALSE, error |-> FALSE]
  BY <1>5, Zenon DEF VisitLogin, NoForm
<1> QED
  BY <1>1, <1>2, <1>3, <1>4, <1>5 DEF Arrivals

LEMMA FormStepKeepsFit ==
  ASSUME FormFits, FormSteps
  PROVE  FormFits'
<1>1. ASSUME HydraAnswered
      PROVE  FormFits'
  BY <1>1 DEF HydraAnswered, FormFits, FormType, FormStays, Form, NoForm
<1>2. ASSUME HydraFails
      PROVE  FormFits'
  BY <1>2 DEF HydraFails, FormFits, FormType, FormStays, Form, NoForm
<1>3. ASSUME FlowAnswered
      PROVE  FormFits'
  BY <1>3 DEF FlowAnswered, FormFits, FormType, FormStays, Form, NoForm
<1>4. ASSUME SessionFound
      PROVE  FormFits'
  BY <1>4 DEF SessionFound, FormFits, FormType, FormStays, Form, NoForm
<1>5. ASSUME FlowFails
      PROVE  FormFits'
  BY <1>5 DEF FlowFails, FormFits, FormType, FormStays, Form, NoForm
<1>6. ASSUME WhoamiAnswered
      PROVE  FormFits'
  BY <1>6 DEF WhoamiAnswered, FormFits, FormType, FormStays, Form, NoForm
<1>7. ASSUME WhoamiFails
      PROVE  FormFits'
  BY <1>7 DEF WhoamiFails, FormFits, FormType, FormStays, Form, NoForm
<1>8. ASSUME HandleSubmit
      PROVE  FormFits'
  BY <1>8 DEF HandleSubmit, FormFits, FormType, FormStays, Form, NoForm
<1>9. ASSUME PostAnswered
      PROVE  FormFits'
  <2>1. loginForm' = [loginForm EXCEPT !.step = "accept"] \/ loginForm' = NoForm
    BY <1>9 DEF PostAnswered, FormStays, Form
  <2>2. loginForm.step = "post"
    BY <1>9 DEF PostAnswered
  <2>3. CASE loginForm' = NoForm
    BY <2>3 DEF FormFits, FormType, NoForm
  <2>4. CASE loginForm' = [loginForm EXCEPT !.step = "accept"]
    BY <2>2, <2>4 DEF FormFits, FormType
  <2> QED
    BY <2>1, <2>3, <2>4
<1>10. ASSUME PostRefused
      PROVE  FormFits'
  BY <1>10 DEF PostRefused, FormFits, FormType, FormStays, Form, NoForm
<1>11. ASSUME AcceptAnswered
      PROVE  FormFits'
  BY <1>11 DEF AcceptAnswered, FormFits, FormType, FormStays, Form, NoForm
<1>12. ASSUME AcceptFails
      PROVE  FormFits'
  BY <1>12 DEF AcceptFails, FormFits, FormType, FormStays, Form, NoForm
<1>13. ASSUME BackToLogin
      PROVE  FormFits'
  BY <1>13 DEF BackToLogin, FormFits, FormType, FormStays, Form, NoForm
<1> QED
  BY <1>1, <1>2, <1>3, <1>4, <1>5, <1>6, <1>7, <1>8, <1>9, <1>10, <1>11, <1>12, <1>13 DEF FormSteps

LEMMA FormKeepsFit ==
  ASSUME FormFits, SignInNext \/ UNCHANGED signVars
  PROVE  FormFits'
<1>1. ASSUME UNCHANGED loginForm
      PROVE  FormFits'
  BY <1>1 DEF FormFits
<1>2. ASSUME loginForm' = NoForm
      PROVE  FormFits'
  BY <1>2 DEF FormFits, FormType, NoForm
<1>3. ASSUME Arrivals
      PROVE  FormFits'
  <2>1. ASSUME loginForm' = [step |-> "hydra", challenge |-> TRUE, flow |-> FALSE, loading |-> TRUE,
                             submitting |-> FALSE, error |-> FALSE]
        PROVE  FormFits'
    BY <2>1 DEF FormFits, FormType
  <2>2. ASSUME loginForm' = [step |-> "flow", challenge |-> FALSE, flow |-> FALSE, loading |-> TRUE,
                             submitting |-> FALSE, error |-> FALSE]
        PROVE  FormFits'
    BY <2>2 DEF FormFits, FormType
  <2> QED
    BY <1>2, <1>3, <2>1, <2>2, ArrivalsBring
<1>4. Leave => FormFits'
  BY <1>2 DEF Leave
<1> QED
  BY <1>1, <1>3, <1>4, SignInSteps, FormStepKeepsFit, ConsentStepsLeave, StoreStepsLeave DEF signVars
LEMMA ConsentStepKeepsFit ==
  ASSUME ConsentFits, ConsentSteps
  PROVE  ConsentFits'
<1>1. ASSUME NEW k \in Client, ConsentAsked(k)
      PROVE  ConsentFits'
  BY <1>1 DEF ConsentAsked, Client, ConsentFits, ConsentType, ConsentStays, Consent, ConsentOffered
<1>2. ASSUME ConsentAskFails
      PROVE  ConsentFits'
  BY <1>2 DEF ConsentAskFails, ConsentFits, ConsentType, ConsentStays, Consent, ConsentOffered
<1>3. ASSUME Approve
      PROVE  ConsentFits'
  BY <1>3 DEF Approve, ConsentFits, ConsentType, ConsentStays, Consent, ConsentOffered
<1>4. ASSUME Deny
      PROVE  ConsentFits'
  BY <1>4 DEF Deny, ConsentFits, ConsentType, ConsentStays, Consent, ConsentOffered
<1>5. ASSUME AcceptConsentFails
      PROVE  ConsentFits'
  BY <1>5 DEF AcceptConsentFails, ConsentFits, ConsentType, ConsentStays, Consent, ConsentOffered
<1>6. ASSUME DenyFails
      PROVE  ConsentFits'
  BY <1>6 DEF DenyFails, ConsentFits, ConsentType, ConsentStays, Consent, ConsentOffered
<1>7. ASSUME NEW s \in Scope, ToggleScope(s)
      PROVE  ConsentFits'
  <2>1. PICK t \in SUBSET Scope :
          t \subseteq consent.client.scopes /\ consent' = [consent EXCEPT !.ticked = t]
    <3>1. consent \in ConsentType /\ consent.client.scopes \subseteq Scope /\ s \in consent.client.scopes
      BY <1>7 DEF ConsentFits, ConsentType, Client, ToggleScope
    <3>2. consent.ticked \subseteq consent.client.scopes
      BY DEF ConsentFits
    <3>3. CASE s \in consent.ticked
      <4>1. consent' = [consent EXCEPT !.ticked = consent.ticked \ {s}]
        BY <1>7, <3>3 DEF ToggleScope, ConsentStays, Consent
      <4> QED
        BY <3>1, <3>2, <4>1
    <3>4. CASE s \notin consent.ticked
      <4>1. consent' = [consent EXCEPT !.ticked = consent.ticked \cup {s}]
        BY <1>7, <3>4 DEF ToggleScope, ConsentStays, Consent
      <4> QED
        BY <3>1, <3>2, <4>1
    <3> QED
      BY <3>3, <3>4
  <2>2. ~consent.loading /\ ~consent.auto
    BY <1>7 DEF ToggleScope, ConsentOffered
  <2> QED
    BY <2>1, <2>2 DEF ConsentFits, ConsentType
<1>8. ASSUME NEW n \in {"login", "callback"}, DecisionAnswered(n)
      PROVE  ConsentFits'
  <2>1. consent.step \in {"accepting", "rejecting"} /\ consent.decisions = 0
    BY <1>8 DEF DecisionAnswered, ConsentFits, ConsentType
  <2>2. PICK g \in BOOLEAN :
          /\ g => consent.step = "accepting"
          /\ consent' = [consent EXCEPT !.step = "idle", !.granted = g, !.decisions = 1]
    <3>1. consent' = [consent EXCEPT !.step = "idle", !.granted = consent.step = "accepting", !.decisions = 0 + 1]
      BY <1>8, <2>1, Zenon DEF DecisionAnswered, Consent
    <3>2. 0 + 1 = 1
      OBVIOUS
    <3> QED
      BY <3>1, <3>2, Zenon
  <2> QED
    <3>1. consent' \in ConsentType
      <4>1. 1 \in 0 .. 2 /\ consent \in ConsentType
        BY DEF ConsentFits
      <4>2. [consent EXCEPT !.step = "idle"] \in ConsentType
        BY <4>1 DEF ConsentType
      <4> QED
        BY <2>2, <4>1, <4>2 DEF ConsentType
    <3>2. /\ consent'.step = "idle" /\ consent'.granted = g /\ consent'.decisions = 1
          /\ \A f \in {"ticked", "grant", "client", "loading", "processing", "auto", "approved"} :
               consent'[f] = consent[f]
      <4>1. DOMAIN consent = {"step", "challenge", "client", "auto", "loading", "processing", "ticked", "grant",
                              "approved", "granted", "decisions"}
        BY DEF ConsentFits, ConsentType
      <4> HIDE DEF ConsentFits
      <4> QED
        BY <2>2, <4>1
    <3>3. consent.processing /\ ~consent.loading
      BY <2>1 DEF ConsentFits
    <3> QED
      BY <2>1, <2>2, <3>1, <3>2, <3>3 DEF ConsentFits
<1> QED
  BY <1>1, <1>2, <1>3, <1>4, <1>5, <1>6, <1>7, <1>8 DEF ConsentSteps

LEMMA ConsentKeepsFit ==
  ASSUME ConsentFits, SignInNext \/ UNCHANGED signVars
  PROVE  ConsentFits'
<1>1. ASSUME UNCHANGED consent
      PROVE  ConsentFits'
  BY <1>1 DEF ConsentFits
<1>2. NoClient \in Client
  BY DEF NoClient, Client
<1>3. ASSUME consent' = NoConsent
      PROVE  ConsentFits'
  BY <1>2, <1>3 DEF ConsentFits, ConsentType, NoConsent
<1>4. ASSUME consent' = [step |-> "asking", challenge |-> TRUE, client |-> NoClient, auto |-> FALSE,
                         loading |-> TRUE, processing |-> FALSE, ticked |-> {}, grant |-> {},
                         approved |-> FALSE, granted |-> FALSE, decisions |-> 0]
      PROVE  ConsentFits'
  BY <1>2, <1>4 DEF ConsentFits, ConsentType
<1>5. Leave => ConsentFits'
  BY <1>3 DEF Leave
<1> QED
  BY <1>1, <1>3, <1>4, <1>5, SignInSteps, ArrivalsBring, FormStepsLeave, ConsentStepKeepsFit, StoreStepsLeave
     DEF signVars

LEMMA StoredUsersFit ==
  /\ AuthFits(SetUser) /\ AuthFits(ClearUser) /\ AuthFits(Waiting("init")) /\ AuthFits(Waiting("callback"))
  /\ Blank \in ShellType /\ AuthView \in ShellType
BY DEF AuthFits, AuthType, SetUser, ClearUser, Waiting, Blank, AuthView, ShellType, Views

(* The shell renders again, for a document in the same place.              *)
LEMMA RenderedFits ==
  ASSUME StoreFits, NEW d \in DocumentType, NEW a \in AuthType,
         d.at = document.at, d.at \in InTab, document.strayed => d.strayed,
         d.at = "app" /\ shell.ready /\ ~d.strayed => a.on /\ ~a.loading
  PROVE  ShellFits(d, a, ShellRendered(d, a))
<1> DEFINE v == ViewOf(d.at, a)
           starts == a.on /\ ~shell.ready /\ v \in {"layout", "outlet"}
           r == ShellRendered(d, a)
<1>1. /\ shell \in ShellType /\ shell.ready \in BOOLEAN /\ shell.live \in BOOLEAN /\ d.strayed \in BOOLEAN
      /\ a.on \in BOOLEAN /\ a.loading \in BOOLEAN
  BY DEF StoreFits, ShellFits, ShellType, DocumentType, AuthType
<1>2. v \in Views
  BY DEF ViewOf, Views
<1>3. r = [view |-> v, ready |-> shell.ready \/ starts, live |-> starts \/ (shell.live /\ v = shell.view)]
  BY DEF ShellRendered
<1> HIDE DEF r
<1>4. /\ r.view = v /\ (r.ready <=> shell.ready \/ starts)
      /\ (r.live <=> starts \/ (shell.live /\ v = shell.view))
  BY <1>3
<1>5. r \in ShellType
  <2>1. (shell.ready \/ starts) \in BOOLEAN /\ (starts \/ (shell.live /\ v = shell.view)) \in BOOLEAN
    OBVIOUS
  <2> HIDE DEF v, starts
  <2> QED
    BY <1>2, <1>3, <2>1 DEF ShellType
<1>6. /\ d.at \in {"login", "consent", "error"} => v = "outlet" /\ shell.view = "outlet"
      /\ d.at = "app" => v = IF a.loading THEN "loading" ELSE IF a.on THEN "layout" ELSE "signin"
  BY DEF ViewOf, StoreFits, ShellFits
<1>7. /\ d.at = "app" /\ shell.ready /\ ~d.strayed => shell.view = "layout" /\ shell.live
      /\ shell.view \in {"layout", "outlet"} => shell.live \/ d.strayed
  BY <1>1 DEF StoreFits, ShellFits
<1>8. d.at \in {"app", "login", "consent", "error"}
  BY DEF InTab
<1>9. d.at = "app" /\ r.ready /\ ~d.strayed => r.view = "layout" /\ r.live /\ a.on /\ ~a.loading
  <2> SUFFICES ASSUME d.at = "app", r.ready, ~d.strayed
               PROVE  r.view = "layout" /\ r.live /\ a.on /\ ~a.loading
    OBVIOUS
  <2>1. CASE shell.ready
    BY <1>4, <1>6, <1>7, <2>1
  <2>2. CASE ~shell.ready
    <3>1. a.on /\ v \in {"layout", "outlet"}
      BY <1>4, <2>2
    <3> QED
      BY <1>4, <1>6, <2>2, <3>1
  <2> QED
    BY <2>1, <2>2
<1>10. r.view \in {"layout", "outlet"} => r.live \/ d.strayed
  <2> SUFFICES ASSUME v \in {"layout", "outlet"}, ~d.strayed
               PROVE  r.live
    BY <1>4
  <2>1. CASE d.at = "app"
    <3>1. v = "layout" /\ a.on
      BY <1>6, <2>1
    <3> QED
      BY <1>4, <1>7, <2>1, <3>1
  <2>2. CASE d.at # "app"
    BY <1>4, <1>6, <1>7, <1>8, <2>2
  <2> QED
    BY <2>1, <2>2
<1>11. d.at \in {"login", "consent", "error"} => r.view = "outlet"
  BY <1>4, <1>6
<1>12. ShellFits(d, a, r)
  <2> HIDE DEF v, starts
  <2> QED
    BY <1>5, <1>9, <1>10, <1>11 DEF ShellFits
<1> QED
  BY <1>12 DEF r

LEMMA PageMovesFit ==
  ASSUME StoreFits, PageMoves, UNCHANGED <<back, kept, due, auth, profiles, renewing, shell>>
  PROVE  StoreFits'
<1>1. /\ document' \in DocumentType /\ (document.at \in InTab => document'.at \in InTab)
      /\ document'.at \in {"login", "consent", "error"} => document.at \in {"login", "consent", "error"}
      /\ document'.at = "app" /\ ~document'.strayed => document.at = "app" /\ ~document.strayed
      /\ document.strayed => document'.strayed
  <2>1. ASSUME document' = document
        PROVE  <1>1!:
    BY <2>1 DEF StoreFits
  <2>2. ASSUME document.at = "login", document' = Home
        PROVE  <1>1!:
    <3>1. document' \in DocumentType
      BY <2>2 DEF StoreFits, DocumentType, Home, InTab
    <3>2. document'.at = "app" /\ document'.strayed
      BY <2>2 DEF StoreFits, DocumentType, Home
    <3> QED
      BY <3>1, <3>2 DEF InTab
  <2>3. ASSUME document.at = "error", document' = [document EXCEPT !.at = "login"]
        PROVE  <1>1!:
    BY <2>3 DEF StoreFits, DocumentType, InTab
  <2>4. ASSUME NEW n \in {"login", "consent", "callback"}, document.at \in {"login", "consent"},
               document' = [document EXCEPT !.leaving = TRUE, !.next = n]
        PROVE  <1>1!:
    <3>1. document' \in DocumentType
      BY <2>4 DEF StoreFits, DocumentType
    <3>2. document'.at = document.at /\ document'.strayed = document.strayed
      BY <2>4 DEF StoreFits, DocumentType
    <3> QED
      BY <3>1, <3>2
  <2> QED
    BY <2>1, <2>2, <2>3, <2>4 DEF PageMoves
<1>2. ShellFits(document, auth, shell)'
  BY <1>1 DEF StoreFits, ShellFits
<1>3. ReturnFits'
  <2>1. CASE document' = document
    BY <2>1 DEF StoreFits, ReturnFits
  <2>2. CASE document.at # "app"
    BY <2>2 DEF StoreFits, ReturnFits
  <2> QED
    BY <2>1, <2>2 DEF PageMoves
<1> QED
  BY <1>1, <1>2, <1>3 DEF StoreFits

(* A new document: nothing of the store is there but what the storage has. *)
LEMMA NewDocumentFits ==
  ASSUME StoreFits, NEW p \in {"app", "login", "consent", "error"}, NEW a \in Path \cup {Root},
         NewDocument(p, a), UNCHANGED kept,
         \/ p = "app" /\ shell' = Blank /\ back' = back /\ auth' = Waiting("init")
         \/ p # "app" /\ shell' = AuthView /\ back' = back /\ auth' = Waiting("init")
         \/ /\ p = "app" /\ shell' = Blank /\ back' = Root /\ auth' = Waiting("callback") /\ a = back
            /\ document.at = "hydra"
  PROVE  StoreFits'
<1>1. document' \in DocumentType
  BY DEF NewDocument, StoreFits, DocumentType, InTab
<1>2. document'.at = p /\ document'.address = a /\ ~document'.leaving /\ ~document'.strayed
  BY DEF NewDocument, StoreFits, DocumentType
<1>3. AuthFits(auth)'
  BY StoredUsersFit
<1>4. ShellFits(document, auth, shell)'
  <2>1. CASE shell' = Blank /\ p = "app"
    BY <1>2, <2>1, StoredUsersFit DEF ShellFits, Blank
  <2>2. CASE shell' = AuthView /\ p # "app"
    BY <1>2, <2>2, StoredUsersFit DEF ShellFits, AuthView
  <2> QED
    BY <2>1, <2>2
<1>5. profiles' = 0 /\ renewing' = FALSE /\ due' = (IF auth.step = "callback" THEN Root ELSE due)
  BY DEF NewDocument
<1>6. back \in Path \cup {Root} /\ due \in Path \cup {Root}
  BY DEF StoreFits, ReturnFits
<1>7. ReturnFits'
  <2>1. CASE back' = back /\ auth' = Waiting("init")
    <3>1. auth'.step = "init"
      BY <2>1 DEF Waiting
    <3> QED
      BY <1>5, <1>6, <2>1, <3>1 DEF StoreFits, ReturnFits
  <2>2. CASE /\ p = "app" /\ shell' = Blank /\ back' = Root /\ auth' = Waiting("callback") /\ a = back
             /\ document.at = "hydra"
    <3>1. auth'.step = "callback" /\ shell'.view = "loading"
      BY <2>2 DEF Waiting, Blank
    <3>2. auth.step # "callback" /\ back = due
      BY <2>2 DEF StoreFits, ReturnFits
    <3> QED
      BY <1>2, <1>5, <1>6, <2>2, <3>1, <3>2 DEF ReturnFits
  <2> QED
    BY <2>1, <2>2
<1> QED
  <2>1. profiles' \in Nat /\ ~ (profiles' > 0)
    <3>1. profiles' = 0
      BY <1>5
    <3> QED
      BY <3>1
  <2>0. renewing' \in BOOLEAN
    <3>1. renewing' = FALSE
      BY <1>5
    <3> QED
      BY <3>1
  <2>2. kept' \in {"none", "valid", "expired"}
    BY DEF StoreFits
  <2> QED
    BY <1>1, <1>3, <1>4, <1>7, <2>0, <2>1, <2>2 DEF StoreFits

LEMMA ArrivalsFit ==
  ASSUME StoreFits, Arrivals
  PROVE  StoreFits'
<1>1. ASSUME NEW a \in Path \cup {Root}, Visit(a)
      PROVE  StoreFits'
  BY <1>1, NewDocumentFits DEF Visit
<1>2. ASSUME NEW b \in BOOLEAN, VisitLogin(b)
      PROVE  StoreFits'
  BY <1>2, NewDocumentFits DEF VisitLogin
<1>3. VisitConsent => StoreFits'
  BY NewDocumentFits DEF VisitConsent
<1>4. VisitError => StoreFits'
  BY NewDocumentFits DEF VisitError
<1>5. VisitCallback => StoreFits'
  <2>1. back \in Path \cup {Root}
    BY DEF StoreFits, ReturnFits
  <2> QED
    BY <2>1, NewDocumentFits DEF VisitCallback
<1> QED
  BY <1>1, <1>2, <1>3, <1>4, <1>5 DEF Arrivals

(* The store has something to tell, and the shell renders.                 *)
LEMMA UsersFit ==
  ASSUME StoreFits, NEW d \in DocumentType, NEW a, AuthFits(a), a.step # "callback",
         d.at = document.at, d.at \in InTab, document.strayed => d.strayed,
         d.at = "app" /\ shell.ready /\ ~d.strayed => a.on /\ ~a.loading,
         Users(a, d), UNCHANGED back, due' = (IF auth.step = "callback" THEN Root ELSE due),
         kept' \in {"none", "valid", "expired"}, profiles' \in Nat, renewing' \in BOOLEAN
  PROVE  StoreFits'
<1>1. a \in AuthType
  BY DEF AuthFits
<1>2. ShellFits(d, a, ShellRendered(d, a))
  BY <1>1, RenderedFits
<1>3. auth' = a /\ document' = d /\ shell' = ShellRendered(d, a)
  BY DEF Users
<1>4. ShellFits(document', auth', shell')
  BY <1>2, <1>3
<1>5. AuthFits(auth')
  BY <1>3
<1>6. back \in Path \cup {Root} /\ due \in Path \cup {Root}
  BY DEF StoreFits, ReturnFits
<1>7. ReturnFits'
  <2>1. auth'.step # "callback"
    BY <1>3
  <2>2. back' = due'
    BY DEF StoreFits, ReturnFits
  <2> QED
    BY <1>6, <2>1, <2>2 DEF ReturnFits
<1>8. document' \in DocumentType /\ (profiles' > 0 => document'.at \in InTab)
  BY <1>3
<1> QED
  BY <1>4, <1>5, <1>7, <1>8 DEF StoreFits

(* What the steps of the store use of what fits.                           *)
LEMMA StoreFacts ==
  ASSUME StoreFits
  PROVE  /\ document \in DocumentType /\ document.strayed \in BOOLEAN /\ kept \in {"none", "valid", "expired"}
         /\ profiles \in Nat /\ renewing \in BOOLEAN /\ AuthFits(auth)
         /\ auth.on => auth.step = "idle"
         /\ auth.step = "callback" =>
              document.at = "app" /\ shell.view = "loading" /\ ~document.leaving /\ profiles = 0 /\ ~renewing
         /\ document.at = "app" /\ shell.ready /\ ~document.strayed => auth.on /\ ~auth.loading
         /\ profiles > 0 => document.at \in InTab
         /\ SetUser.step = "idle" /\ ClearUser.step = "idle" /\ SetUser.on /\ ~SetUser.loading
<1>1. document \in DocumentType /\ document.strayed \in BOOLEAN /\ kept \in {"none", "valid", "expired"}
  BY DEF StoreFits, DocumentType
<1>2. profiles \in Nat /\ renewing \in BOOLEAN /\ AuthFits(auth) /\ (profiles > 0 => document.at \in InTab)
  BY DEF StoreFits
<1>3. auth.on => auth.step = "idle"
  BY <1>2 DEF AuthFits
<1>4. auth.step = "callback" =>
        document.at = "app" /\ shell.view = "loading" /\ ~document.leaving /\ profiles = 0 /\ ~renewing
  BY DEF StoreFits, ReturnFits
<1>5. document.at = "app" /\ shell.ready /\ ~document.strayed => auth.on /\ ~auth.loading
  BY DEF StoreFits, ShellFits
<1>6. SetUser.step = "idle" /\ ClearUser.step = "idle" /\ SetUser.on /\ ~SetUser.loading
  BY DEF SetUser, ClearUser
<1> QED
  BY <1>1, <1>2, <1>3, <1>4, <1>5, <1>6

LEMMA LostStrays ==
  ASSUME StoreFits
  PROVE  /\ Lost \in DocumentType /\ Lost.at = document.at
         /\ document.strayed => Lost.strayed
         /\ shell.ready => Lost.strayed
<1>1. document \in DocumentType /\ shell.ready \in BOOLEAN
  BY DEF StoreFits, ShellFits, ShellType
<1>2. (document.strayed \/ shell.ready) \in BOOLEAN
  BY <1>1 DEF DocumentType
<1>3. Lost.at = document.at /\ Lost.strayed = (document.strayed \/ shell.ready)
  BY <1>1 DEF Lost, DocumentType
<1>4. Lost \in DocumentType
  <2> DEFINE s == document.strayed \/ shell.ready
  <2>1. s \in BOOLEAN /\ Lost = [document EXCEPT !.strayed = s]
    BY <1>2 DEF Lost
  <2> HIDE DEF s
  <2> QED
    BY <1>1, <2>1 DEF DocumentType
<1> QED
  BY <1>3, <1>4

LEMMA StoreStepsFit ==
  ASSUME StoreFits, StoreSteps
  PROVE  StoreFits'
<1> USE StoreFacts
<1>1. ASSUME InitAnswered
      PROVE  StoreFits'
  <2>1. /\ auth.step = "init" /\ document.at \in InTab /\ UNCHANGED <<back, kept, due, renewing>>
        /\ \/ Users(SetUser, document) /\ profiles' = profiles + 1
           \/ Users(ClearUser, document) /\ profiles' = profiles
    BY <1>1 DEF InitAnswered, Here
  <2>2. profiles' \in Nat
    BY <2>1
  <2>3. ~ (document.at = "app" /\ shell.ready /\ ~document.strayed)
    BY <2>1
  <2>4. CASE Users(SetUser, document)
    BY <2>1, <2>2, <2>3, <2>4, StoredUsersFit, UsersFit
  <2>5. CASE Users(ClearUser, document)
    BY <2>1, <2>2, <2>3, <2>5, StoredUsersFit, UsersFit
  <2> QED
    BY <2>1, <2>4, <2>5
<1>2. ASSUME CallbackAnswered
      PROVE  StoreFits'
  <2>1. /\ auth.step = "callback" /\ document.at = "app" /\ UNCHANGED <<back, renewing>> /\ kept' = "valid"
        /\ profiles' = profiles + 2 /\ due' = Root /\ Users(SetUser, document)
    BY <1>2 DEF CallbackAnswered, Here
  <2>2. profiles' \in Nat /\ document.at \in InTab
    BY <2>1 DEF InTab
  <2> QED
    BY <2>1, <2>2, StoredUsersFit, UsersFit
<1>3. ASSUME CallbackFails
      PROVE  StoreFits'
  <2> DEFINE d == [document EXCEPT !.address = Root]
  <2>1. /\ auth.step = "callback" /\ document.at = "app" /\ UNCHANGED <<back, renewing, profiles>>
        /\ kept' = "none" /\ due' = Root /\ Users(ClearUser, d)
    BY <1>3 DEF CallbackFails
  <2>2. d \in DocumentType /\ d.at = document.at /\ d.strayed = document.strayed
    BY DEF DocumentType
  <2>3. document.at \in InTab
    BY <2>1 DEF InTab
  <2>4. ~ (document.at = "app" /\ shell.ready /\ ~document.strayed)
    BY <2>1
  <2> HIDE DEF d
  <2> QED
    BY <2>1, <2>2, <2>3, <2>4, StoredUsersFit, UsersFit
<1>4. ASSUME ProfileAnswered
      PROVE  StoreFits'
  <2>1. /\ profiles > 0 /\ profiles' = profiles - 1 /\ UNCHANGED <<back, kept, due, renewing>>
        /\ Users(auth, document) \/ UNCHANGED <<auth, document, shell>>
    BY <1>4 DEF ProfileAnswered, Here
  <2>2. profiles' \in Nat /\ document.at \in InTab /\ auth.step # "callback"
    BY <2>1
  <2>3. CASE Users(auth, document)
    BY <2>1, <2>2, <2>3, UsersFit
  <2>4. CASE UNCHANGED <<auth, document, shell>>
    <3>1. ReturnFits'
      BY <2>1, <2>2, <2>4 DEF StoreFits, ReturnFits
    <3> QED
      BY <2>1, <2>2, <2>4, <3>1 DEF StoreFits, ShellFits, AuthFits
  <2> QED
    BY <2>1, <2>3, <2>4
<1>5. ASSUME RenewStarts
      PROVE  StoreFits'
  <2>1. /\ auth.on /\ renewing' = TRUE
        /\ UNCHANGED <<back, due, document, kept, auth, profiles, shell>>
    BY <1>5 DEF RenewStarts, StoreOnly
  <2>2. ReturnFits'
    BY <2>1 DEF StoreFits, ReturnFits
  <2> QED
    BY <2>1, <2>2 DEF StoreFits, ShellFits, AuthFits
<1>6. ASSUME RenewAnswered
      PROVE  StoreFits'
  <2>1. /\ document.at \in InTab /\ UNCHANGED <<back, due>> /\ renewing /\ renewing' = FALSE /\ kept' = "valid"
        /\ profiles' = profiles + 1 /\ Users(SetUser, document)
    BY <1>6 DEF RenewAnswered, StoreOnly, Here, Reply
  <2>2. profiles' \in Nat /\ auth.step # "callback"
    BY <2>1
  <2> QED
    BY <2>1, <2>2, StoredUsersFit, UsersFit
<1>7. ASSUME RenewFails
      PROVE  StoreFits'
  <2>1. /\ document.at \in InTab /\ UNCHANGED <<back, due, kept, profiles>> /\ renewing /\ renewing' = FALSE
        /\ Users(ClearUser, Lost)
    BY <1>7 DEF RenewFails, StoreOnly, Trouble
  <2>2. auth.step # "callback"
    BY <2>1
  <2> QED
    BY <2>1, <2>2, LostStrays, StoredUsersFit, UsersFit
<1>8. ASSUME TokenExpires \/ Logout
      PROVE  StoreFits'
  <2>1. /\ document.at \in InTab /\ UNCHANGED <<back, due, profiles, renewing>> /\ kept' \in {"none", "expired"}
        /\ auth.on \/ shell.view = "layout"
        /\ Users(ClearUser, Lost)
    BY <1>8 DEF TokenExpires, Logout, StoreOnly, Deed
  <2>2. auth.step # "callback"
    BY <2>1
  <2> QED
    BY <2>1, <2>2, LostStrays, StoredUsersFit, UsersFit
<1>9. ASSUME Login
      PROVE  StoreFits'
  <2>1. /\ shell.view = "signin" /\ document' = [document EXCEPT !.leaving = TRUE, !.next = "login"]
        /\ back' = (IF document.address \in Path THEN document.address ELSE back)
        /\ due' = (IF document.address = Root THEN due ELSE document.address)
        /\ UNCHANGED <<kept, auth, profiles, renewing, shell>>
    BY <1>9 DEF Login
  <2>2. document' \in DocumentType
    BY <2>1 DEF DocumentType
  <2>3. document'.at = document.at /\ document'.strayed = document.strayed
    BY <2>1 DEF DocumentType
  <2>4. auth.step # "callback" /\ document.address \in Path \cup {Root}
    BY <2>1 DEF DocumentType
  <2>5. back = due /\ back \in Path \cup {Root} /\ Root \notin Path
    BY <2>4, SignInAssumption DEF StoreFits, ReturnFits
  <2>6. ReturnFits'
    BY <2>1, <2>4, <2>5 DEF ReturnFits
  <2>7. ShellFits(document, auth, shell)'
    BY <2>1, <2>3 DEF StoreFits, ShellFits
  <2> QED
    BY <2>1, <2>2, <2>3, <2>6, <2>7 DEF StoreFits
<1>10. ASSUME LoginFails
       PROVE  StoreFits'
  <2> DEFINE d == [document EXCEPT !.leaving = FALSE]
             a == [auth EXCEPT !.error = TRUE, !.loading = FALSE]
  <2>1. /\ document.at \in InTab /\ document.leaving /\ Users(a, d)
        /\ UNCHANGED <<back, kept, due, profiles, renewing>>
    BY <1>10 DEF LoginFails, Trouble
  <2>2. d \in DocumentType /\ d.at = document.at /\ d.strayed = document.strayed
    BY DEF DocumentType
  <2>3. a \in AuthType
    BY DEF AuthFits, AuthType
  <2>4. a.step = auth.step /\ a.on = auth.on /\ a.loading = FALSE
    BY DEF AuthFits, AuthType
  <2>5. AuthFits(a) /\ auth.step # "callback"
    BY <2>1, <2>3, <2>4 DEF AuthFits
  <2> HIDE DEF d, a
  <2> QED
    BY <2>1, <2>2, <2>4, <2>5, UsersFit
<1> QED
  BY <1>1, <1>2, <1>3, <1>4, <1>5, <1>6, <1>7, <1>8, <1>9, <1>10 DEF StoreSteps

LEMMA LeaveFits ==
  ASSUME StoreFits, Leave
  PROVE  StoreFits'
<1>1. /\ document.leaving /\ document' = [document EXCEPT !.at = "hydra", !.leaving = FALSE, !.strayed = FALSE]
      /\ auth' = Waiting("init") /\ profiles' = 0 /\ renewing' = FALSE /\ shell' = Blank
      /\ UNCHANGED <<back, kept, due>>
  BY DEF Leave
<1>2. document' \in DocumentType
  BY <1>1 DEF StoreFits, DocumentType, InTab
<1>3. document'.at = "hydra"
  BY <1>1 DEF StoreFits, DocumentType
<1>4. back = due /\ back \in Path \cup {Root}
  BY <1>1 DEF StoreFits, ReturnFits
<1>5. auth'.step = "init"
  BY <1>1 DEF Waiting
<1>6. ReturnFits'
  BY <1>1, <1>4, <1>5 DEF ReturnFits
<1>7. ShellFits(document, auth, shell)'
  BY <1>1, <1>3, StoredUsersFit DEF ShellFits, Blank
<1>8. AuthFits(auth)'
  BY <1>1, StoredUsersFit
<1>9. profiles' \in Nat /\ ~ (profiles' > 0)
  BY <1>1
<1>10. renewing' \in BOOLEAN /\ kept' \in {"none", "valid", "expired"}
  BY <1>1 DEF StoreFits
<1> QED
  BY <1>2, <1>6, <1>7, <1>8, <1>9, <1>10 DEF StoreFits

LEMMA StoreKeepsFit ==
  ASSUME StoreFits, SignInNext \/ UNCHANGED signVars
  PROVE  StoreFits'
<1>1. ASSUME UNCHANGED signVars
      PROVE  StoreFits'
  BY <1>1 DEF StoreFits, AuthFits, ShellFits, ReturnFits, signVars
<1> QED
  BY <1>1, SignInSteps, ArrivalsFit, StoreStepsFit, LeaveFits, PageMovesFit, FormStepsLeave, ConsentStepsLeave

LEMMA CountsKeepFit ==
  ASSUME CountsFit, SignInNext \/ UNCHANGED signVars
  PROVE  CountsFit'
<1>1. /\ documents \in 0 .. MaxLoads /\ deeds \in 0 .. MaxDeeds /\ troubles \in 0 .. MaxTroubles
      /\ MaxLoads \in Nat /\ MaxDeeds \in Nat /\ MaxTroubles \in Nat
  BY SignInAssumption DEF CountsFit
<1>2. UNCHANGED <<documents, deeds, troubles>> => CountsFit'
  BY DEF CountsFit
<1>3. documents < MaxLoads /\ documents' = documents + 1 /\ UNCHANGED <<deeds, troubles>> => CountsFit'
  BY <1>1 DEF CountsFit
<1>4. Deed => CountsFit'
  BY <1>1 DEF Deed, CountsFit
<1>5. Trouble => CountsFit'
  BY <1>1 DEF Trouble, CountsFit
<1>6. Reply => CountsFit'
  BY <1>2 DEF Reply
<1>7. Arrivals => CountsFit'
  <2>1. ASSUME NEW p, NEW a, NewDocument(p, a)
        PROVE  CountsFit'
    BY <1>3, <2>1 DEF NewDocument
  <2> QED
    BY <2>1 DEF Arrivals, Visit, VisitLogin, VisitConsent, VisitError, VisitCallback
<1>8. StoreSteps => CountsFit'
  BY <1>2, <1>4, <1>5, <1>6
     DEF StoreSteps, InitAnswered, CallbackAnswered, CallbackFails, ProfileAnswered, RenewStarts,
         RenewAnswered, RenewFails, TokenExpires, Logout, Login, LoginFails
<1>9. FormSteps => CountsFit'
  BY <1>4, <1>5, <1>6
     DEF FormSteps, HydraAnswered, HydraFails, FlowAnswered, SessionFound, FlowFails, WhoamiAnswered,
         WhoamiFails, HandleSubmit, PostAnswered, PostRefused, AcceptAnswered, AcceptFails, BackToLogin
<1>10. ConsentSteps => CountsFit'
  BY <1>4, <1>5, <1>6
     DEF ConsentSteps, ConsentAsked, ConsentAskFails, Approve, Deny, AcceptConsentFails, DenyFails,
         ToggleScope, DecisionAnswered
<1>11. Leave => CountsFit'
  BY <1>6 DEF Leave
<1> QED
  BY <1>2, <1>7, <1>8, <1>9, <1>10, <1>11, SignInSteps DEF signVars

SignInFits == StoreFits /\ FormFits /\ ConsentFits /\ CountsFit

LEMMA SignInInitFits == SignInInit => SignInFits
<1> SUFFICES ASSUME SignInInit
             PROVE  SignInFits
  OBVIOUS
<1>1. FormFits
  BY DEF SignInInit, FormFits, FormType, NoForm
<1>2. ConsentFits
  <2>1. NoClient \in Client
    BY DEF NoClient, Client
  <2> QED
    BY <2>1 DEF SignInInit, ConsentFits, ConsentType, NoConsent
<1>3. CountsFit
  BY SignInAssumption DEF SignInInit, CountsFit
<1>4. StoreFits
  <2>1. PICK p \in {"app", "none"} :
          document = [at |-> p, address |-> Root, leaving |-> FALSE, next |-> "login", strayed |-> FALSE]
    BY DEF SignInInit
  <2>2. document \in DocumentType
    BY <2>1 DEF DocumentType, InTab
  <2>3. /\ auth = Waiting("init") /\ shell = Blank /\ back = Root /\ due = Root
        /\ profiles = 0 /\ renewing = FALSE /\ kept \in {"none", "valid"}
    BY DEF SignInInit
  <2>4. ShellFits(document, auth, shell)
    BY <2>1, <2>3, StoredUsersFit DEF ShellFits, Blank
  <2>5. auth.step = "init"
    BY <2>3 DEF Waiting
  <2>6. ReturnFits
    BY <2>3, <2>5 DEF ReturnFits
  <2>7. profiles \in Nat /\ ~ (profiles > 0)
    BY <2>3
  <2> QED
    BY <2>2, <2>3, <2>4, <2>6, <2>7, StoredUsersFit DEF StoreFits
<1> QED
  BY <1>1, <1>2, <1>3, <1>4 DEF SignInFits

LEMMA SignInAlwaysFits == SignInSpec => []SignInFits
<1>1. SignInFits /\ [SignInNext]_signVars => SignInFits'
  BY StoreKeepsFit, FormKeepsFit, ConsentKeepsFit, CountsKeepFit DEF SignInFits
<1> QED
  BY <1>1, SignInInitFits, PTL DEF SignInSpec

(* The store, the shell and the two pages of signing in keep their types.  *)
THEOREM SignInTyped == SignInSpec => []SignInTypeOK
<1>1. SignInFits => SignInTypeOK
  <2> SUFFICES ASSUME SignInFits
               PROVE  SignInTypeOK
    OBVIOUS
  <2>1. /\ document \in [at : InTab \cup {"none", "hydra"}, address : Path \cup {Root, Callback},
                         leaving : BOOLEAN, next : {"login", "consent", "callback"}, strayed : BOOLEAN]
        /\ kept \in {"none", "valid", "expired"} /\ profiles \in Nat /\ renewing \in BOOLEAN
    BY DEF SignInFits, StoreFits, DocumentType
  <2>2. back \in Path \cup {Root} /\ due \in Path \cup {Root}
    BY DEF SignInFits, StoreFits, ReturnFits
  <2>3. auth \in AuthType /\ shell \in ShellType /\ loginForm \in FormType /\ consent \in ConsentType
    BY DEF SignInFits, StoreFits, AuthFits, ShellFits, FormFits, ConsentFits
  <2>4. CountsFit
    BY DEF SignInFits
  <2> QED
    BY <2>1, <2>2, <2>3, <2>4 DEF SignInTypeOK, AuthType, ShellType, FormType, ConsentType, CountsFit
<1> QED
  BY <1>1, SignInAlwaysFits, PTL

(* Whoever signs in gets to where he was going: no spinner or locked button *)
(* is left behind, the router never sees the callback's address and what it *)
(* renders is on the screen, the path of the user is there while the code   *)
(* is exchanged, and at most one decision is sent, the one that was made.   *)
THEOREM SignInArrives == SignInSpec => []SignInFollows
<1>1. SignInFits => SignInFollows
  <2> SUFFICES ASSUME SignInFits
               PROVE  SignInFollows
    OBVIOUS
  <2>1. WaitsForAnswer
    BY DEF SignInFits, StoreFits, AuthFits, FormFits, ConsentFits, WaitsForAnswer
  <2>2. RouterSeesAPage
    BY SignInAssumption DEF SignInFits, StoreFits, DocumentType, RouterSeesAPage
  <2>3. OutletIsRouters
    BY DEF SignInFits, StoreFits, ShellFits, OutletIsRouters
  <2>4. ReturnsWhereLeft
    BY DEF SignInFits, StoreFits, ReturnFits, ReturnsWhereLeft
  <2>5. DecisionIsMeant
    <3>1. consent.decisions \in 0 .. 2 /\ (consent.decisions > 0 => consent.decisions = 1)
      BY DEF SignInFits, ConsentFits, ConsentType
    <3>2. consent.decisions <= 1
      BY <3>1
    <3> QED
      BY <3>2 DEF SignInFits, ConsentFits, DecisionIsMeant
  <2> QED
    BY <2>1, <2>2, <2>3, <2>4, <2>5 DEF SignInFollows
<1> QED
  BY <1>1, SignInAlwaysFits, PTL
=============================================================================
