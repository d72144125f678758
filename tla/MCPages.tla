------------------------------ MODULE MCPages ------------------------------
(***************************************************************************)
(* One run for the pages and panels that ask the server and show what it   *)
(* answers.  They share no state, so that in a behaviour only one of them  *)
(* moves: the one whose selector is not "none".  The run looks at the sum  *)
(* of their states and not at the product.                                 *)
(***************************************************************************)
EXTENDS SessionPanels, WatchPages, RecordDetail, RecordLists, InvokeDialog, ProjectPages, SettingsPages,
        DependencyGraph, SignIn, MentionBell

VARIABLE machine

vars == <<machine, panelVars, watchVars, detailVars, listVars, dialogVars, siteVars, settingsVars, graphVars, signVars,
          bellVars>>

(* The dialog is opened on a page of every kind: a task's calls            *)
(* showWithPrompt, a project's showContinue, the list of requests always   *)
(* gives a prompt.  The other pages differ from them in their menus only.  *)
DialogPlace == {"task", "project", "requests"}

Moves(m, selector) == machine = m <=> selector # "none"

Init ==
  /\ machine \in {"panels", "watch", "record", "lists", "dialog", "site", "settings", "graph", "signin",
                 "bell"}
  /\ PanelsInit /\ Moves("panels", kind)
  /\ WatchInit /\ Moves("watch", watch)
  /\ DetailInit /\ Moves("record", sort)
  /\ ListsInit /\ Moves("lists", list)
  /\ DialogInit /\ Moves("dialog", place) /\ place \in DialogPlace \cup {"none"}
  /\ SiteInit /\ Moves("site", site)
  /\ SettingsInit /\ Moves("settings", section)
  /\ GraphInit /\ Moves("graph", stage)
  /\ SignInInit /\ Moves("signin", document.at)
  /\ BellInit /\ Moves("bell", frame)

Next ==
  /\ UNCHANGED machine
  /\ \/ /\ machine = "panels" /\ PanelsNext
        /\ UNCHANGED <<watchVars, detailVars, listVars, dialogVars, siteVars,
                        settingsVars, graphVars, signVars, bellVars>>
     \/ /\ machine = "watch" /\ WatchNext
        /\ UNCHANGED <<panelVars, detailVars, listVars, dialogVars, siteVars,
                        settingsVars, graphVars, signVars, bellVars>>
     \/ /\ machine = "record" /\ DetailNext
        /\ UNCHANGED <<panelVars, watchVars, listVars, dialogVars, siteVars,
                        settingsVars, graphVars, signVars, bellVars>>
     \/ /\ machine = "lists" /\ ListsNext
        /\ UNCHANGED <<panelVars, watchVars, detailVars, dialogVars, siteVars,
                        settingsVars, graphVars, signVars, bellVars>>
     \/ /\ machine = "dialog" /\ DialogNext
        /\ UNCHANGED <<panelVars, watchVars, detailVars, listVars, siteVars,
                        settingsVars, graphVars, signVars, bellVars>>
     \/ /\ machine = "site" /\ SiteNext
        /\ UNCHANGED <<panelVars, watchVars, detailVars, listVars, dialogVars,
                        settingsVars, graphVars, signVars, bellVars>>
     \/ /\ machine = "settings" /\ SettingsNext
        /\ UNCHANGED <<panelVars, watchVars, detailVars, listVars, dialogVars,
                        siteVars, graphVars, signVars, bellVars>>
     \/ /\ machine = "graph" /\ GraphNext
        /\ UNCHANGED <<panelVars, watchVars, detailVars, listVars, dialogVars,
                        siteVars, settingsVars, signVars, bellVars>>
     \/ /\ machine = "signin" /\ SignInNext
        /\ UNCHANGED <<panelVars, watchVars, detailVars, listVars, dialogVars,
                        siteVars, settingsVars, graphVars, bellVars>>
     \/ /\ machine = "bell" /\ BellNext
        /\ UNCHANGED <<panelVars, watchVars, detailVars, listVars, dialogVars,
                        siteVars, settingsVars, graphVars, signVars>>

Spec == Init /\ [][Next]_vars

(* The types of all the parts.                                             *)
PagesTypeOK ==
  /\ PanelsTypeOK /\ WatchTypeOK /\ DetailTypeOK /\ ListsTypeOK /\ DialogTypeOK /\ SiteTypeOK /\ SettingsTypeOK
  /\ GraphTypeOK /\ SignInTypeOK /\ BellTypeOK

(* The pages of records, each alone and in a list, show what there is, once*)
(* they have asked for it.                                                 *)
RecordsFollow == RecordFollows /\ ListsFollow

(* Answers, notes and messages of a session's panels reach what they were  *)
(* written for, and the dialog starts an invocation with what its opening  *)
(* was for and with nothing that another was started with.                 *)
EntriesReachTheirs == EntriesMatch /\ StartsWhatIsShown
=============================================================================
