----------------------------- MODULE MetaSources -----------------------------
(* Connecting a Facebook page as a source of leads: the wizard of the page of     *)
(* lead sources, whose requests are not cancelled when it is closed; the window   *)
(* in which access is granted, and the two ways it tells the page; and the API,   *)
(* which keeps one token of the tenant and one in each source.  A page has one    *)
(* form, named as the page is.                                                   *)
EXTENDS Integers, FiniteSets

CONSTANTS FbPages,          \* pages of the Facebook account
          EveryForm,        \* a source that takes all the forms of its page
          NoPage,
          MaxWizardMoves,   \* bound: what users do
          MaxWizardFaults   \* bound: failures and lost messages

ASSUME WizardAssumption ==
  {EveryForm, NoPage, "pages"} \cap FbPages = {} /\ EveryForm # NoPage /\ MaxWizardMoves \in Nat /\ MaxWizardFaults \in Nat

VARIABLES
  metaToken,     \* what the tenant has: 0, or the number of a grant
  grants,        \* grants made
  metaSources,   \* <<page, form>> -> the source: [token, enabled], or NoSource
  subscribed,    \* pages whose leads Facebook sends us
  knows,         \* what the page shows: the tenant is connected
  wizard,        \* [open, step, page, form, forms, loading]: forms are those of a page
  granting,      \* the window: "none", "open", "granted", "refused" (told to the page), "heard"
  fetches,       \* requests of the wizard under way: {"pages"} and pages whose forms are fetched
  connecting,    \* the request that connects: [step, page, form, token]
  strayed,       \* the wizard was opened again, or heard of a grant, while a request of it was under way
  unsubscribed,  \* pages whose subscription failed, the last time it was asked for
  wizardMoves, wizardFaults

metaVars == <<metaToken, grants, metaSources, subscribed, knows, wizard, granting, fetches, connecting, strayed, unsubscribed,
              wizardMoves, wizardFaults>>
wizardLimits == <<wizardMoves, wizardFaults>>
tenantVars == <<metaToken, grants, metaSources, subscribed, unsubscribed>>

-----------------------------------------------------------------------------

NoSource == [token |-> 0, enabled |-> FALSE]
SourceKeys == {<<p, f>> : p \in FbPages, f \in FbPages \cup {EveryForm}}
Fresh(open, step) == [open |-> open, step |-> step, page |-> NoPage, form |-> NoPage, forms |-> NoPage, loading |-> FALSE]
NoConnect == [step |-> "none", page |-> NoPage, form |-> NoPage, token |-> 0]

MetaInit ==
  /\ metaToken = 0 /\ grants = 0 /\ metaSources = [k \in SourceKeys |-> NoSource] /\ subscribed = {}
  /\ knows = FALSE /\ wizard = Fresh(FALSE, "idle") /\ granting = "none" /\ fetches = {} /\ connecting = NoConnect
  /\ strayed = FALSE /\ unsubscribed = {} /\ wizardMoves = 0 /\ wizardFaults = 0

WizardMove == wizardMoves < MaxWizardMoves /\ wizardMoves' = wizardMoves + 1 /\ UNCHANGED wizardFaults
WizardFault == wizardFaults < MaxWizardFaults /\ wizardFaults' = wizardFaults + 1 /\ UNCHANGED wizardMoves

Waiting == fetches # {} \/ connecting # NoConnect

-----------------------------------------------------------------------------
(* Opening, closing, and the window of Facebook.                                *)

\* the wizard is reset; what it asked for before still arrives
OpenWizard ==
  /\ WizardMove /\ ~wizard.open /\ strayed' = (strayed \/ Waiting)
  /\ IF knows
     THEN wizard' = [Fresh(TRUE, "page") EXCEPT !.loading = TRUE] /\ fetches' = fetches \cup {"pages"}
     ELSE wizard' = [Fresh(TRUE, "idle") EXCEPT !.loading = wizard.loading] /\ UNCHANGED fetches
  /\ UNCHANGED <<knows, tenantVars, granting, connecting>>
CloseWizard ==
  /\ WizardMove /\ wizard.open /\ wizard' = [Fresh(FALSE, "idle") EXCEPT !.loading = wizard.loading]
  /\ UNCHANGED <<knows, tenantVars, granting, fetches, connecting, strayed>>

StartOAuth ==
  /\ WizardMove /\ wizard.open /\ wizard.step = "idle" /\ granting = "none" /\ granting' = "open"
  /\ wizard' = [wizard EXCEPT !.step = "granting"] /\ UNCHANGED <<knows, tenantVars, fetches, connecting, strayed>>
\* the code is exchanged twice and the token stored, or refused by the user, by Facebook or for its age
HandleCallback(granted) ==
  /\ granting = "open"
  /\ IF granted THEN /\ UNCHANGED wizardLimits /\ grants' = grants + 1 /\ metaToken' = grants + 1 /\ granting' = "granted"
                ELSE WizardFault /\ granting' = "refused" /\ UNCHANGED <<grants, metaToken>>
  /\ UNCHANGED <<knows, metaSources, subscribed, unsubscribed, wizard, fetches, connecting, strayed>>
\* a message, or what is left in the storage, is heard once
Hear ==
  /\ granting \in {"granted", "refused"} /\ granting' = IF granting = "granted" THEN "heard" ELSE "open"
  /\ knows' = (knows \/ granting = "granted") /\ strayed' = (strayed \/ (granting = "granted" /\ Waiting))
  /\ IF granting = "granted"
     THEN wizard' = [wizard EXCEPT !.step = "page", !.loading = TRUE] /\ fetches' = fetches \cup {"pages"}
     ELSE wizard' = [wizard EXCEPT !.step = "idle"] /\ UNCHANGED fetches
  /\ UNCHANGED <<tenantVars, connecting, wizardLimits>>
\* the window closes by itself or by its user; unless a grant was heard the wizard starts over
WindowCloses ==
  /\ granting # "none" /\ (granting \in {"granted", "refused"} => wizardFaults < MaxWizardFaults)
  /\ wizardFaults' = IF granting \in {"granted", "refused"} THEN wizardFaults + 1 ELSE wizardFaults
  /\ wizard' = IF granting = "heard" THEN wizard ELSE [wizard EXCEPT !.step = "idle"]
  /\ granting' = "none" /\ UNCHANGED <<knows, tenantVars, fetches, connecting, strayed, wizardMoves>>

-----------------------------------------------------------------------------
(* Choosing a page and a form.  What arrives is shown, whatever was asked since.  *)

PagesArrive(ok) ==
  /\ "pages" \in fetches /\ fetches' = fetches \ {"pages"} /\ wizard' = [wizard EXCEPT !.loading = FALSE]
  /\ IF ok THEN metaToken # 0 /\ UNCHANGED wizardLimits ELSE WizardFault
  /\ UNCHANGED <<knows, tenantVars, granting, connecting, strayed>>
SelectPage(p) ==
  /\ WizardMove /\ wizard.open /\ wizard.step = "page" /\ ~wizard.loading
  /\ wizard' = [wizard EXCEPT !.step = "form", !.page = p, !.loading = TRUE] /\ fetches' = fetches \cup {p}
  /\ UNCHANGED <<knows, tenantVars, granting, connecting, strayed>>
FormsArrive(p, ok) ==
  /\ p \in fetches /\ fetches' = fetches \ {p}
  /\ IF ok THEN metaToken # 0 /\ wizard' = [wizard EXCEPT !.forms = p, !.loading = FALSE] /\ UNCHANGED wizardLimits
           ELSE WizardFault /\ wizard' = [wizard EXCEPT !.step = "page", !.loading = FALSE]
  /\ UNCHANGED <<knows, tenantVars, granting, connecting, strayed>>
ChangePage_Loading(w) == [w EXCEPT !.step = "page", !.page = NoPage, !.loading = FALSE]
ChangePage(w) == [w EXCEPT !.step = "page", !.page = NoPage]
GoBack ==
  /\ WizardMove /\ wizard.open
  /\ wizard' = CASE wizard.step = "form" -> ChangePage(wizard)
                 [] wizard.step = "confirm" -> [wizard EXCEPT !.step = "form"] [] OTHER -> wizard
  /\ wizard' # wizard /\ UNCHANGED <<knows, tenantVars, granting, fetches, connecting, strayed>>
SelectForm ==
  /\ wizard.open /\ wizard.step = "form" /\ ~wizard.loading
  /\ \E f \in {EveryForm, wizard.forms} \ {NoPage} : wizard' = [wizard EXCEPT !.step = "confirm", !.form = f]
  /\ UNCHANGED <<knows, tenantVars, granting, fetches, connecting, strayed, wizardLimits>>

-----------------------------------------------------------------------------
(* The request that connects, and what else is done to sources.                  *)

Confirm ==
  /\ WizardMove /\ wizard.open /\ wizard.step = "confirm" /\ wizard.page # NoPage /\ ~wizard.loading
  /\ connecting = NoConnect /\ wizard' = [wizard EXCEPT !.loading = TRUE]
  /\ connecting' = [step |-> "sent", page |-> wizard.page, form |-> wizard.form, token |-> 0]
  /\ UNCHANGED <<knows, tenantVars, granting, fetches, strayed>>
\* the token is read and the pages are listed; refused without a token, and when Facebook
\* answers with an error or without the page
ConnectReads(ok) ==
  /\ connecting.step = "sent"
  /\ connecting' = [connecting EXCEPT !.step = IF ok /\ metaToken # 0 THEN "read" ELSE "refused", !.token = metaToken]
  /\ IF ok THEN UNCHANGED wizardLimits ELSE WizardFault
  /\ UNCHANGED <<knows, tenantVars, wizard, granting, fetches, strayed>>
\* a failed subscription is no error: it can be made by hand
Subscribe(ok) ==
  /\ connecting.step = "read" /\ connecting' = [connecting EXCEPT !.step = "subscribed"]
  /\ IF ok THEN UNCHANGED wizardLimits /\ subscribed' = subscribed \cup {connecting.page}
                /\ unsubscribed' = unsubscribed \ {connecting.page}
           ELSE WizardFault /\ unsubscribed' = unsubscribed \cup {connecting.page} /\ UNCHANGED subscribed
  /\ UNCHANGED <<knows, metaToken, grants, metaSources, wizard, granting, fetches, strayed>>
Connected(old, token) == [token |-> token, enabled |-> TRUE]
\* the source is updated, or created and then logged; a failed log leaves it and refuses the request
ConnectWrites ==
  /\ connecting.step = "subscribed" /\ connecting' = [connecting EXCEPT !.step = "written"]
  /\ metaSources' = [metaSources EXCEPT ![<<connecting.page, connecting.form>>] = Connected(@, connecting.token)]
  /\ UNCHANGED <<knows, metaToken, grants, subscribed, unsubscribed, wizard, granting, fetches, strayed, wizardLimits>>
ConnectBreaks ==
  LET k == <<connecting.page, connecting.form>>
  IN /\ connecting.step = "subscribed" /\ WizardFault /\ connecting' = [connecting EXCEPT !.step = "refused"]
     /\ \/ UNCHANGED metaSources
        \/ metaSources[k] = NoSource /\ metaSources' = [metaSources EXCEPT ![k] = Connected(@, connecting.token)]
     /\ UNCHANGED <<knows, metaToken, grants, subscribed, unsubscribed, wizard, granting, fetches, strayed>>
\* the answer closes the wizard there is, also one that was opened since
ConnectAnswered ==
  /\ connecting.step \in {"written", "refused"} /\ connecting' = NoConnect
  /\ knows' = IF connecting.step = "written" THEN metaToken # 0 ELSE knows
  /\ wizard' = IF connecting.step = "written" THEN Fresh(FALSE, "idle") ELSE [wizard EXCEPT !.loading = FALSE]
  /\ UNCHANGED <<tenantVars, granting, fetches, strayed, wizardLimits>>

\* sources keep their tokens
DisconnectPage ==
  /\ WizardMove /\ metaToken # 0 /\ metaToken' = 0 /\ knows' \in {knows, FALSE}     \* another tab, or this one
  /\ UNCHANGED <<grants, metaSources, subscribed, unsubscribed, wizard, granting, fetches, connecting, strayed>>
ChangeSource(k) ==
  /\ WizardMove /\ metaSources[k] # NoSource
  /\ metaSources' \in {[metaSources EXCEPT ![k] = NoSource], [metaSources EXCEPT ![k].enabled = ~@]}
  /\ UNCHANGED <<knows, metaToken, grants, subscribed, unsubscribed, wizard, granting, fetches, connecting, strayed>>

MetaNext ==
  \/ OpenWizard \/ CloseWizard \/ StartOAuth \/ Hear \/ WindowCloses \/ GoBack \/ SelectForm
  \/ Confirm \/ ConnectWrites \/ ConnectBreaks \/ ConnectAnswered \/ DisconnectPage
  \/ \E ok \in BOOLEAN : HandleCallback(ok) \/ PagesArrive(ok) \/ ConnectReads(ok) \/ Subscribe(ok)
  \/ \E p \in FbPages : SelectPage(p) \/ \E ok \in BOOLEAN : FormsArrive(p, ok)
  \/ \E k \in SourceKeys : ChangeSource(k)

-----------------------------------------------------------------------------
(* Properties.                                                                  *)

MetaTypeOK ==
  /\ wizard.step \in {"idle", "granting", "page", "form", "confirm"} /\ metaToken \in 0..grants
  /\ wizard.step \in {"form", "confirm"} => wizard.page \in FbPages
  /\ \A k \in SourceKeys : metaSources[k].token \in 0..grants

\* A source names a form of its page, unless the wizard was opened again or heard of a grant while
\* it waited for an answer (lead-sources/page.tsx:281 shows what arrives); its page is subscribed unless that failed,
\* and its token is no older than any its page was connected with (meta-oauth.service.ts:307).
SourcesAreWired ==
  \A k \in SourceKeys : metaSources[k] # NoSource =>
    /\ k[2] \in {k[1], EveryForm} \/ strayed
    /\ k[1] \in subscribed \cup unsubscribed
    /\ connecting.step = "written" /\ k = <<connecting.page, connecting.form>>
       => metaSources[k].token = connecting.token
=============================================================================
