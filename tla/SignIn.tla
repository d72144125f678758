-------------------------------- MODULE SignIn --------------------------------
(***************************************************************************)
(* Signing in: the store of who is signed in (auth-state.ts), the shell    *)
(* that starts the router once somebody is (app-shell.ts), and the pages   *)
(* that Ory sends the browser to (login-page.ts, consent-page.ts,          *)
(* error-page.ts).  A document is what the browser has loaded: a redirect  *)
(* loads another one, and all but the tab's storage starts anew.           *)
(*                                                                         *)
(* Hydra and Kratos are outside: Hydra leads from one page to the next in  *)
(* its order, whatever was answered.  Names, texts and tokens are left out.*)
(***************************************************************************)
EXTENDS Naturals, FiniteSets

CONSTANTS
  Path,          \* addresses of the application other than Root
  Root, Callback,
  Scope,         \* what a client can ask to be allowed
  MaxLoads,      \* bound on documents
  MaxDeeds,      \* bound on what the user and the clock do besides
  MaxTroubles    \* bound on requests that fail

ASSUME SignInAssumption ==
  /\ Root \notin Path /\ Callback \notin Path \cup {Root}
  /\ MaxLoads \in Nat /\ MaxDeeds \in Nat /\ MaxTroubles \in Nat

VARIABLES
  document,      \* the page, its address, where it is going, and what is true of its past
  back, kept,    \* the tab's storage: the path to return to, and the signed-in user
  due,           \* the path that the user expects to return to
  auth,          \* the store
  profiles,      \* requests for the profile under way
  renewing,      \* a silent renewal is under way
  shell,         \* what the shell shows, and whether its outlet is the router's
  loginForm,     \* the login page
  consent,       \* the consent page
  documents, deeds, troubles

signVars ==
  <<document, back, kept, due, auth, profiles, renewing, shell, loginForm, consent, documents, deeds, troubles>>

InTab == {"app", "login", "consent", "error"}
Views == {"loading", "signin", "layout", "outlet"}
Client == [first : BOOLEAN, skip : BOOLEAN, scopes : SUBSET Scope]
NoClient == [first |-> FALSE, skip |-> FALSE, scopes |-> {}]

SignInTypeOK ==
  /\ document \in [at : InTab \cup {"none", "hydra"}, address : Path \cup {Root, Callback}, leaving : BOOLEAN,
                   next : {"login", "consent", "callback"}, strayed : BOOLEAN]
  /\ back \in Path \cup {Root} /\ kept \in {"none", "valid", "expired"} /\ due \in Path \cup {Root}
  /\ auth \in [on : BOOLEAN, loading : BOOLEAN, error : BOOLEAN, step : {"idle", "init", "callback"}]
  /\ profiles \in Nat /\ renewing \in BOOLEAN
  /\ shell \in [view : Views, ready : BOOLEAN, live : BOOLEAN]
  /\ loginForm \in [step : {"idle", "hydra", "flow", "whoami", "accept", "post"}, challenge : BOOLEAN,
                    flow : BOOLEAN, loading : BOOLEAN, submitting : BOOLEAN, error : BOOLEAN]
  /\ consent \in [step : {"idle", "asking", "accepting", "rejecting"}, challenge : BOOLEAN, client : Client,
                  auto : BOOLEAN, loading : BOOLEAN, processing : BOOLEAN, ticked : SUBSET Scope,
                  grant : SUBSET Scope, approved : BOOLEAN, granted : BOOLEAN, decisions : 0 .. 2]
  /\ documents \in 0 .. MaxLoads /\ deeds \in 0 .. MaxDeeds /\ troubles \in 0 .. MaxTroubles

NoForm    == [step |-> "idle", challenge |-> FALSE, flow |-> FALSE, loading |-> FALSE, submitting |-> FALSE,
              error |-> FALSE]
NoConsent == [step |-> "idle", challenge |-> FALSE, client |-> NoClient, auto |-> FALSE, loading |-> FALSE,
              processing |-> FALSE, ticked |-> {}, grant |-> {}, approved |-> FALSE, granted |-> FALSE,
              decisions |-> 0]
Waiting(step) == [on |-> FALSE, loading |-> TRUE, error |-> FALSE, step |-> step]

(* A document of the application waits for the store; on the pages under   *)
(* /auth the shell starts the router at once.                              *)
Blank    == [view |-> "loading", ready |-> FALSE, live |-> FALSE]
AuthView == [view |-> "outlet", ready |-> TRUE, live |-> TRUE]

SignInInit ==
  /\ \E p \in {"app", "none"} :
       document = [at |-> p, address |-> Root, leaving |-> FALSE, next |-> "login", strayed |-> FALSE]
  /\ back = Root /\ due = Root /\ kept \in IF document.at = "none" THEN {"none"} ELSE {"none", "valid"}
  /\ auth = Waiting("init") /\ profiles = 0 /\ renewing = FALSE /\ shell = Blank
  /\ loginForm = NoForm /\ consent = NoConsent /\ documents = 0 /\ deeds = 0 /\ troubles = 0

-----------------------------------------------------------------------------
(* connectedCallback of the shell, in a new document.                      *)
NewDocument(p, a) ==
  /\ documents < MaxLoads /\ documents' = documents + 1
  /\ document' = [document EXCEPT !.at = p, !.address = a, !.leaving = FALSE, !.strayed = FALSE]
  /\ due' = (IF auth.step = "callback" THEN Root ELSE due)
  /\ profiles' = 0 /\ renewing' = FALSE /\ UNCHANGED <<deeds, troubles>>

Visit(a) ==
  /\ document.at \in InTab \cup {"hydra"} /\ NewDocument("app", a)
  /\ auth' = Waiting("init") /\ shell' = Blank /\ loginForm' = NoForm /\ consent' = NoConsent
  /\ UNCHANGED <<back, kept>>

(* The login page comes from Hydra with a challenge, or is visited without.*)
VisitLogin(challenge) ==
  /\ IF challenge THEN document.at = "hydra" /\ document.next = "login" ELSE document.at \in InTab
  /\ NewDocument("login", Root) /\ auth' = Waiting("init") /\ shell' = AuthView /\ consent' = NoConsent
  /\ loginForm' = [NoForm EXCEPT !.challenge = challenge, !.loading = TRUE,
                                !.step = IF challenge THEN "hydra" ELSE "flow"]
  /\ UNCHANGED <<back, kept>>

VisitConsent ==
  /\ document.at = "hydra" /\ document.next = "consent" /\ NewDocument("consent", Root)
  /\ auth' = Waiting("init") /\ shell' = AuthView /\ loginForm' = NoForm
  /\ consent' = [NoConsent EXCEPT !.challenge = TRUE, !.loading = TRUE, !.step = "asking"]
  /\ UNCHANGED <<back, kept>>

VisitError ==
  /\ document.at = "hydra" /\ NewDocument("error", Root)
  /\ auth' = Waiting("init") /\ shell' = AuthView /\ loginForm' = NoForm /\ consent' = NoConsent
  /\ UNCHANGED <<back, kept>>

(* Mutant: the address is left for the exchange of the code to replace.     *)
VisitCallbackLate ==
  /\ document.at = "hydra" /\ document.next = "callback" /\ NewDocument("app", Callback)
  /\ auth' = Waiting("callback") /\ shell' = Blank /\ loginForm' = NoForm /\ consent' = NoConsent
  /\ back' = Root /\ UNCHANGED kept

(* handleCallback takes the path out of the storage and replaces the       *)
(* address before it does anything else.                                   *)
VisitCallback ==
  /\ document.at = "hydra" /\ document.next = "callback" /\ NewDocument("app", back)
  /\ auth' = Waiting("callback") /\ shell' = Blank /\ loginForm' = NoForm /\ consent' = NoConsent
  /\ back' = Root /\ UNCHANGED kept

-----------------------------------------------------------------------------
(* The shell renders when the store says that something changed.  Another  *)
(* view has another outlet; once somebody is signed in the router is       *)
(* started, but only once.                                                 *)
ViewOf(at, a) ==
  IF at # "app" THEN "outlet" ELSE IF a.loading THEN "loading" ELSE IF a.on THEN "layout" ELSE "signin"

ShellRendered(d, a) ==
  LET v == ViewOf(d.at, a)
      starts == a.on /\ ~shell.ready /\ v \in {"layout", "outlet"} IN
  [view |-> v, ready |-> shell.ready \/ starts, live |-> starts \/ (shell.live /\ v = shell.view)]

Users(a, d) == auth' = a /\ document' = d /\ shell' = ShellRendered(d, a)
Here(a) == Users(a, document)

SetUser   == [on |-> TRUE, loading |-> FALSE, error |-> FALSE, step |-> "idle"]
ClearUser == [on |-> FALSE, loading |-> FALSE, error |-> FALSE, step |-> "idle"]

(* Somebody who was signed in and is not any more, in one document.        *)
Lost == [document EXCEPT !.strayed = @ \/ shell.ready]

InitAnswered ==
  /\ auth.step = "init" /\ document.at \in InTab
  /\ IF kept = "valid" THEN Here(SetUser) /\ profiles' = profiles + 1 ELSE Here(ClearUser) /\ UNCHANGED profiles
  /\ UNCHANGED <<back, kept, due, renewing, loginForm, consent, documents, deeds, troubles>>

(* The library tells the store of the user, and then the store sets it.    *)
CallbackAnswered ==
  /\ auth.step = "callback" /\ document.at = "app" /\ kept' = "valid" /\ profiles' = profiles + 2
  /\ due' = Root /\ Here(SetUser)
  /\ UNCHANGED <<back, renewing, loginForm, consent, documents, deeds, troubles>>

CallbackFails ==
  /\ auth.step = "callback" /\ document.at = "app" /\ kept' = "none" /\ due' = Root
  /\ Users(ClearUser, [document EXCEPT !.address = Root])
  /\ UNCHANGED <<back, profiles, renewing, loginForm, consent, documents, deeds, troubles>>

(* The profile is set, and told, whether or not its user is still there; a *)
(* failure is not told.                                                    *)
ProfileAnswered ==
  /\ profiles > 0 /\ profiles' = profiles - 1
  /\ Here(auth) \/ UNCHANGED <<auth, document, shell>>
  /\ UNCHANGED <<back, kept, due, renewing, loginForm, consent, documents, deeds, troubles>>

-----------------------------------------------------------------------------
Reply   == document.at \in InTab /\ UNCHANGED <<documents, deeds, troubles>>
Deed    == document.at \in InTab /\ deeds < MaxDeeds /\ deeds' = deeds + 1 /\ UNCHANGED <<documents, troubles>>
Trouble ==
  document.at \in InTab /\ troubles < MaxTroubles /\ troubles' = troubles + 1 /\ UNCHANGED <<documents, deeds>>
StoreOnly == UNCHANGED <<back, due, loginForm, consent>>

RenewStarts ==
  /\ Deed /\ StoreOnly /\ auth.on /\ ~renewing /\ renewing' = TRUE
  /\ UNCHANGED <<document, kept, auth, profiles, shell>>

RenewAnswered ==
  /\ Reply /\ StoreOnly /\ renewing /\ renewing' = FALSE /\ kept' = "valid" /\ profiles' = profiles + 1
  /\ Here(SetUser)

RenewFails ==
  /\ Trouble /\ StoreOnly /\ renewing /\ renewing' = FALSE /\ Users(ClearUser, Lost)
  /\ UNCHANGED <<kept, profiles>>

TokenExpires ==
  /\ Deed /\ StoreOnly /\ auth.on /\ kept' = "expired" /\ Users(ClearUser, Lost)
  /\ UNCHANGED <<profiles, renewing>>

Logout ==
  /\ Deed /\ StoreOnly /\ shell.view = "layout" /\ kept' = "none" /\ Users(ClearUser, Lost)
  /\ UNCHANGED <<profiles, renewing>>

(* login: the root and the callback are not worth returning to.            *)
Login ==
  /\ Deed /\ shell.view = "signin" /\ ~document.leaving
  /\ document' = [document EXCEPT !.leaving = TRUE, !.next = "login"]
  /\ back' = (IF document.address \in Path THEN document.address ELSE back)
  /\ due' = (IF document.address = Root THEN due ELSE document.address)
  /\ UNCHANGED <<kept, auth, profiles, renewing, shell, loginForm, consent>>

LoginFails ==
  /\ Trouble /\ document.at = "app" /\ document.leaving
  /\ Users([auth EXCEPT !.error = TRUE, !.loading = FALSE], [document EXCEPT !.leaving = FALSE])
  /\ UNCHANGED <<back, kept, due, profiles, renewing, loginForm, consent>>

-----------------------------------------------------------------------------
(* The login page.                                                         *)
FormOnly == UNCHANGED <<back, kept, due, auth, profiles, renewing, shell, consent>>
Form(f) == document.at = "login" /\ FormOnly /\ loginForm' = f
FormStays(f) == Form(f) /\ UNCHANGED document

(* The server accepts the challenge of a user whom Hydra remembers and     *)
(* passes on Hydra's answer, which has no "skip": the page goes on to ask  *)
(* for a password all the same.                                            *)
HydraAnswered == Reply /\ loginForm.step = "hydra" /\ FormStays([loginForm EXCEPT !.step = "flow"])

HydraFails ==
  /\ Trouble /\ loginForm.step = "hydra"
  /\ FormStays([loginForm EXCEPT !.step = "idle", !.error = TRUE, !.loading = FALSE])

FlowAnswered ==
  /\ Reply /\ loginForm.step = "flow"
  /\ FormStays([loginForm EXCEPT !.step = "idle", !.flow = TRUE, !.loading = FALSE])

(* A session that is there already is used for the challenge, if any.      *)
SessionFound ==
  /\ Reply /\ loginForm.step = "flow" /\ loginForm.challenge
  /\ FormStays([loginForm EXCEPT !.step = "whoami"])

FlowFails ==
  /\ Trouble /\ loginForm.step = "flow"
  /\ FormStays([loginForm EXCEPT !.step = "idle", !.error = TRUE, !.loading = FALSE])

WhoamiAnswered == Reply /\ loginForm.step = "whoami" /\ FormStays([loginForm EXCEPT !.step = "accept"])
WhoamiFails ==
  /\ Trouble /\ loginForm.step = "whoami"
  /\ FormStays([loginForm EXCEPT !.step = "idle", !.error = TRUE, !.loading = FALSE])

HandleSubmit ==
  /\ Deed /\ loginForm.flow /\ ~loginForm.loading /\ ~loginForm.submitting
  /\ FormStays([loginForm EXCEPT !.step = "post", !.submitting = TRUE, !.error = FALSE])

(* The router's way home: the address changes, and the shell notices when  *)
(* the store has something to tell.                                        *)
Home == [document EXCEPT !.at = "app", !.address = Root, !.strayed = TRUE]

PostAnswered ==
  /\ Reply /\ loginForm.step = "post"
  /\ IF loginForm.challenge THEN FormStays([loginForm EXCEPT !.step = "accept"])
     ELSE Form(NoForm) /\ document' = Home

PostRefused ==
  /\ Trouble /\ loginForm.step = "post"
  /\ FormStays([loginForm EXCEPT !.step = "idle", !.error = TRUE, !.submitting = FALSE])

AcceptAnswered ==
  /\ Reply /\ loginForm.step = "accept"
  /\ Form([loginForm EXCEPT !.step = "idle", !.loading = FALSE, !.submitting = FALSE])
  /\ document' = [document EXCEPT !.leaving = TRUE, !.next = "consent"]

AcceptFails ==
  /\ Trouble /\ loginForm.step = "accept"
  /\ FormStays([loginForm EXCEPT !.step = "idle", !.error = TRUE, !.loading = FALSE, !.submitting = FALSE])

(* The page of an error leads back to the login page, in the same document.*)
BackToLogin ==
  /\ Deed /\ document.at = "error" /\ document' = [document EXCEPT !.at = "login"]
  /\ loginForm' = [NoForm EXCEPT !.loading = TRUE, !.step = "flow"] /\ FormOnly

-----------------------------------------------------------------------------
(* The consent page.                                                       *)
ConsentOnly == UNCHANGED <<back, kept, due, auth, profiles, renewing, shell, loginForm>>
Consent(c) == document.at = "consent" /\ ConsentOnly /\ consent' = c
ConsentStays(c) == Consent(c) /\ UNCHANGED document

(* A client of our own, or one that Hydra says to skip, is accepted        *)
(* without asking.                                                         *)
ConsentAsked(k) ==
  /\ Reply /\ consent.step = "asking"
  /\ ConsentStays(IF k.first \/ k.skip
                  THEN [consent EXCEPT !.step = "accepting", !.client = k, !.loading = FALSE, !.auto = TRUE,
                                   !.processing = TRUE, !.grant = k.scopes]
                  ELSE [consent EXCEPT !.step = "idle", !.client = k, !.loading = FALSE, !.ticked = k.scopes])

ConsentAskFails ==
  /\ Trouble /\ consent.step = "asking"
  /\ ConsentStays([consent EXCEPT !.step = "idle", !.loading = FALSE])

ConsentOffered == ~consent.loading /\ ~consent.auto

ToggleScope(s) ==
  /\ Deed /\ ConsentOffered /\ s \in consent.client.scopes
  /\ ConsentStays([consent EXCEPT !.ticked = IF s \in @ THEN @ \ {s} ELSE @ \cup {s}])

Approve ==
  /\ Deed /\ ConsentOffered /\ ~consent.processing /\ consent.challenge
  /\ ConsentStays([consent EXCEPT !.step = "accepting", !.processing = TRUE, !.grant = consent.ticked,
                                  !.approved = TRUE])

Deny ==
  /\ Deed /\ ConsentOffered /\ ~consent.processing /\ consent.challenge
  /\ ConsentStays([consent EXCEPT !.step = "rejecting", !.processing = TRUE])

(* Nothing is reset: the browser is about to leave, for the callback of    *)
(* the client, which is this application or another.                       *)
DecisionAnswered(next) ==
  /\ Reply /\ consent.step \in {"accepting", "rejecting"}
  /\ Consent([consent EXCEPT !.step = "idle", !.granted = consent.step = "accepting", !.decisions = @ + 1])
  /\ document' = [document EXCEPT !.leaving = TRUE, !.next = next]

AcceptConsentFails ==
  /\ Trouble /\ consent.step = "accepting"
  /\ ConsentStays([consent EXCEPT !.step = "idle", !.processing = FALSE, !.auto = FALSE, !.loading = FALSE])

DenyFails ==
  /\ Trouble /\ consent.step = "rejecting" /\ ConsentStays([consent EXCEPT !.step = "idle", !.processing = FALSE])

(* The browser leaves for Hydra; until then the page is there.             *)
Leave ==
  /\ Reply /\ document.leaving
  /\ document' = [document EXCEPT !.at = "hydra", !.leaving = FALSE, !.strayed = FALSE]
  /\ auth' = Waiting("init") /\ profiles' = 0 /\ renewing' = FALSE
  /\ shell' = Blank /\ loginForm' = NoForm /\ consent' = NoConsent /\ UNCHANGED <<back, kept, due>>

SignInNext ==
  \/ \E a \in Path \cup {Root} : Visit(a)
  \/ VisitLogin(TRUE) \/ VisitLogin(FALSE) \/ VisitConsent \/ VisitError \/ VisitCallback
  \/ InitAnswered \/ CallbackAnswered \/ CallbackFails \/ ProfileAnswered
  \/ RenewStarts \/ RenewAnswered \/ RenewFails \/ TokenExpires \/ Logout \/ Login \/ LoginFails
  \/ HydraAnswered \/ HydraFails \/ FlowAnswered \/ SessionFound \/ FlowFails
  \/ WhoamiAnswered \/ WhoamiFails
  \/ HandleSubmit \/ PostAnswered \/ PostRefused \/ AcceptAnswered \/ AcceptFails \/ BackToLogin
  \/ \E k \in Client : ConsentAsked(k)
  \/ ConsentAskFails \/ Approve \/ Deny \/ AcceptConsentFails \/ DenyFails \/ Leave
  \/ \E s \in Scope : ToggleScope(s)
  \/ \E n \in {"login", "callback"} : DecisionAnswered(n)

SignInSpec == SignInInit /\ [][SignInNext]_signVars

-----------------------------------------------------------------------------
(* Whatever waits has something to wait for: no early return and no error  *)
(* leaves a spinner or a locked button behind.                             *)
WaitsForAnswer ==
  /\ auth.loading => auth.step \in {"init", "callback"}
  /\ loginForm.loading => loginForm.step \in {"hydra", "flow", "whoami", "accept"}
  /\ loginForm.submitting => loginForm.step \in {"post", "accept"}
  /\ consent.loading => consent.step = "asking"
  /\ consent.processing \/ consent.auto => consent.step \in {"accepting", "rejecting"} \/ consent.decisions > 0

(* "The router must not see /auth/callback in the URL or it throws".       *)
RouterSeesAPage == shell.ready => document.address # Callback

(* What the router renders is on the screen, unless the user was lost in   *)
(* this document or had come home from the login page: then the shell has  *)
(* another outlet, and the router keeps the old one.                       *)
OutletIsRouters == shell.view \in {"layout", "outlet"} => shell.live \/ document.strayed

(* While the code is exchanged the address is the one that the user left,  *)
(* as soon as the sign-in is over it is forgotten.                         *)
ReturnsWhereLeft == auth.step = "callback" => document.address = due

(* One decision leaves the page, and it is what the user saw: a client of  *)
(* others is granted nothing but what it asked for, and was approved.      *)
DecisionIsMeant ==
  /\ consent.decisions <= 1 /\ consent.grant \subseteq consent.client.scopes
  /\ consent.granted => consent.approved \/ consent.client.first \/ consent.client.skip

(* Who signs in gets where he was going, and is never left waiting.        *)
SignInFollows ==
  WaitsForAnswer /\ RouterSeesAPage /\ OutletIsRouters /\ ReturnsWhereLeft /\ DecisionIsMeant
=============================================================================
