------------------------------- MODULE Portal -------------------------------
(***************************************************************************)
(* A browser tab with the web client, over the server of Intake: signing   *)
(* in, moving between the pages, the three forms, and answers that come    *)
(* late, come to a page that has gone, or get lost (App.tsx, RoleGuard.tsx, *)
(* AuthContext.tsx, api.ts and the pages).                                 *)
(*                                                                         *)
(* A React component keeps its state as long as it stays mounted, and a    *)
(* request outlives the component that sent it: its handler then runs on a *)
(* state nobody sees, but toasts and navigation still work.  There is no   *)
(* way to abort a request but to reload.                                   *)
(*                                                                         *)
(* Definitions marked "variant" are plausible mistakes and are used by no  *)
(* specification.                                                          *)
(***************************************************************************)
EXTENDS Intake

CONSTANT MaxPosts   \* bound: forms sent in a behaviour

ASSUME ClientTypes == "TRAINING" \in Types

VARIABLES
    user,       \* role of the user signed in, or None; kept in localStorage
    page,       \* address: which page, and its opportunity if it has one
    view,       \* state of the mounted page component
    toast,      \* the latest success on screen: the call it tells of
    from,       \* who waits for each request: the page on screen, a page that
                \* has gone, or nobody
    posts       \* forms sent

portalVars == <<user, page, view, toast, from, posts>>
vars == <<intakeVars, portalVars>>

Users == Roles \cup {None}
Addresses ==
    [at : {"portal", "onboarding", "build"}, opp : {None}]
        \cup [at : {"detail", "apply"}, opp : Opps]
Onboarding == [at |-> "onboarding", opp |-> None]

\* toast when there is none.
NoToast == Call(None, None)

\* RoleGuard: pages for everybody, and those some roles may open.
Volunteering == {"VOLUNTEER", "COORDINATOR", "SYSTEM_ADMIN"}
Managing == {"EVENT_MANAGER", "SYSTEM_ADMIN"}
Mounted(p, u) ==
    \/ p.at \in {"portal", "detail"}
    \/ p.at \in {"apply", "onboarding"} /\ u \in Volunteering
    \/ p.at = "build" /\ u \in Managing

\* What the checklist shows without a credential on record.
DEMO_DATA == {<<"TRAINING", "NOT_STARTED">>, <<"BACKGROUND_CHECK", "PENDING">>,
              <<"TRAINING", "APPROVED">>}
Items == Rows \cup DEMO_DATA

\* loading, sending: the page's spinners; items, demo: of the checklist.
View == [loading : BOOLEAN, sending : BOOLEAN, items : SUBSET Items, demo : BOOLEAN]

\* The pages that send a query when they are mounted.
Query(p) == IF p.at = "onboarding" THEN Call("list", None) ELSE Call("browse", None)
Queries(p, u) == Mounted(p, u) /\ p.at \in {"portal", "detail", "onboarding"}
Fresh(p, u) == [loading |-> Queries(p, u), sending |-> FALSE, items |-> {}, demo |-> FALSE]

\* The component on screen is also that of address p for user u, and stays.
Kept(p, u) == p.at = page.at /\ Mounted(page, user) /\ Mounted(p, u)
\* Its effect runs again when what it depends on changes.
Fetches(p, u) ==
    /\ Queries(p, u)
    /\ \/ ~Kept(p, u)
       \/ p.at = "detail" /\ p # page
       \/ p.at = "onboarding" /\ u # user

-----------------------------------------------------------------------------
\* The tab is opened at a page that sends nothing; Reload opens the others.
Init ==
    /\ IntakeInit
    /\ user \in Users
    /\ page = [at |-> "build", opp |-> None]
    /\ view = Fresh(page, user)
    /\ toast = NoToast
    /\ from = [r \in Requests |-> "nobody"]
    /\ posts = 0

Show(p, u) ==
    /\ UNCHANGED posts
    /\ page' = p
    /\ user' = u
    /\ view' = IF Kept(p, u) THEN view ELSE Fresh(p, u)

\* Who waits once address p is shown to user u.
Waiting(p, u) ==
    [r \in Requests |-> IF from[r] = "page" /\ ~Kept(p, u) THEN "gone" ELSE from[r]]

Open(p, u, r) ==
    /\ Show(p, u)
    /\ IF Fetches(p, u)
       THEN /\ job[r].at = "idle"
            /\ Request(r, Query(p), u)
            /\ from' = [Waiting(p, u) EXCEPT ![r] = "page"]
       ELSE /\ UNCHANGED intakeVars
            /\ from' = Waiting(p, u)

\* A link, or the history: any page is there once it was visited.
Navigate(p, r) == p # page /\ Open(p, user, r) /\ UNCHANGED toast

\* "Dev Sign In" makes a volunteer, the switcher any other role.
SwitchRole(role, r) ==
    /\ role # user
    /\ user = None => role = "VOLUNTEER"
    /\ Open(page, role, r)
    /\ UNCHANGED toast
Logout(r) == user # None /\ Open(page, None, r) /\ UNCHANGED toast

\* Another document: nobody waits for what was sent, and the toasts have gone.
Reload(p, r) ==
    /\ job[r].at = "idle"
    /\ page' = p
    /\ view' = Fresh(p, user)
    /\ toast' = NoToast
    /\ from' = [q \in Requests |-> IF q = r /\ Queries(p, user) THEN "page" ELSE "nobody"]
    /\ IF Queries(p, user) THEN Request(r, Query(p), user) ELSE UNCHANGED intakeVars
    /\ UNCHANGED <<user, posts>>

\* The page sends a form, with the button disabled until the answer.
Post(r, call) ==
    /\ ~view.sending
    /\ posts < MaxPosts
    /\ posts' = posts + 1
    /\ job[r].at = "idle"
    /\ Request(r, call, user)
    /\ view' = [view EXCEPT !.sending = TRUE]
    /\ from' = [from EXCEPT ![r] = "page"]
    /\ UNCHANGED <<user, page, toast>>

\* ApplicationForm, handleSubmit.
Apply(r) ==
    /\ page.at = "apply" /\ Mounted(page, user)
    /\ Post(r, Call("apply", page.opp))
\* OnboardingChecklist, handleUpload: only what is NOT_STARTED has a button,
\* and only the demo data has such a thing.
Upload(r) ==
    /\ page.at = "onboarding" /\ ~view.loading
    /\ <<"TRAINING", "NOT_STARTED">> \in view.items
    /\ Post(r, Call("submit", "TRAINING"))
\* EventBuilder, handleSave, with dates in order.
Save(r) ==
    /\ page.at = "build" /\ Mounted(page, user)
    /\ Post(r, Call("event", None))

\* variant: the row becomes PENDING
UploadedPending(items) ==
    IF <<"TRAINING", "NOT_STARTED">> \in items
    THEN (items \ {<<"TRAINING", "NOT_STARTED">>}) \cup {<<"TRAINING", "PENDING">>}
    ELSE items
\* setCredentials after an upload: of the demo row, if it is still shown.
Uploaded(items) ==
    IF <<"TRAINING", "NOT_STARTED">> \in items
    THEN (items \ {<<"TRAINING", "NOT_STARTED">>}) \cup {<<"TRAINING", "SUBMITTED">>}
    ELSE items

\* variant: the demo data shown after an error is not marked
ListedSilently(ok, rows) ==
    [view EXCEPT !.loading = FALSE, !.items = IF ok /\ rows # {} THEN rows ELSE DEMO_DATA,
                 !.demo = @ \/ (ok /\ rows = {})]
\* The checklist's then, catch and finally.
Listed(ok, rows) ==
    [view EXCEPT !.loading = FALSE, !.items = IF ok /\ rows # {} THEN rows ELSE DEMO_DATA,
                 !.demo = @ \/ ~ok \/ rows = {}]

\* variant: an error leaves the button disabled
SettledNoFinally(ok, items) ==
    IF ok THEN [view EXCEPT !.sending = FALSE, !.items = items] ELSE view
\* finally of a form
Settled(ok, items) == [view EXCEPT !.sending = FALSE, !.items = IF ok THEN items ELSE @]

\* What the page that has sent r makes of the answer.
Handled(r, ok, rows) ==
    CASE job[r].call.kind = "browse" -> [view EXCEPT !.loading = FALSE]
      [] job[r].call.kind = "list" -> Listed(ok, rows)
      [] job[r].call.kind = "submit" -> Settled(ok, Uploaded(view.items))
      [] OTHER -> Settled(ok, view.items)

\* An answer reaches a tab that waits; a page that has gone changes no more.
Received(r, ok, rows) ==
    /\ view' = IF from[r] = "page" THEN Handled(r, ok, rows) ELSE view
    /\ toast' = IF ok /\ job[r].call.kind \in {"apply", "submit", "event"}
                THEN job[r].call ELSE toast
    /\ from' = [from EXCEPT ![r] = "nobody"]
    /\ UNCHANGED <<user, page, posts>>

\* variant: api.ts does not look at res.ok
DeliverUnchecked(r) ==
    /\ from[r] # "nobody" /\ Ended(r)
    /\ Received(r, TRUE, job[r].rows)
    /\ Close(r)
\* api.ts makes an answer that is not ok an error.
Deliver(r) ==
    /\ from[r] # "nobody" /\ Ended(r)
    /\ ~At(r, "apply", "done")
    /\ Received(r, job[r].at = "done", job[r].rows)
    /\ Close(r)

\* An application has been accepted: on to the checklist, wherever the user
\* has gone in the meantime.
DeliverApplied(r) ==
    /\ from[r] # "nobody" /\ At(r, "apply", "done")
    /\ toast' = job[r].call
    /\ Show(Onboarding, user)
    /\ from' = [Waiting(Onboarding, user) EXCEPT
                    ![r] = IF Fetches(Onboarding, user) THEN "page" ELSE "nobody"]
    /\ IF Fetches(Onboarding, user) THEN Request(r, Query(Onboarding), user) ELSE Close(r)

\* The connection fails: an error for the tab, while the server goes on.
NetFail(r) ==
    /\ from[r] # "nobody"
    /\ Received(r, FALSE, {})
    /\ UNCHANGED intakeVars
Forget(r) == from[r] = "nobody" /\ Close(r) /\ UNCHANGED portalVars

\* After four seconds, or by a click.
Dismiss ==
    /\ toast # NoToast
    /\ toast' = NoToast
    /\ UNCHANGED <<intakeVars, user, page, view, from, posts>>

Tab(r) ==
    \/ \E p \in Addresses : Navigate(p, r) \/ Reload(p, r)
    \/ \E role \in Roles : SwitchRole(role, r)
    \/ Logout(r)
    \/ Apply(r) \/ Upload(r) \/ Save(r)
    \/ NetFail(r)

Work(r) == Serve(r) /\ UNCHANGED portalVars
Answered(r) == Deliver(r) \/ DeliverApplied(r) \/ Forget(r)

Next ==
    \/ \E r \in Requests : Tab(r) \/ Answered(r) \/ Work(r)
    \/ Staff /\ UNCHANGED portalVars
    \/ Dismiss

Spec == Init /\ [][Next]_vars

\* Handlers go on, and answers arrive or the connection fails; the user and
\* staff need not do anything.
FairSpec ==
    /\ Spec
    /\ \A r \in Requests : WF_vars(Work(r)) /\ WF_vars(Answered(r))

-----------------------------------------------------------------------------
TypeOK ==
    /\ IntakeTypeOK
    /\ user \in Users
    /\ page \in Addresses
    /\ view \in View
    /\ toast \in Calls \cup {NoToast}
    /\ from \in [Requests -> {"page", "gone", "nobody"}]
    /\ posts \in Nat

Happened(call) ==
    CASE call.kind = "apply" -> apps[call.subject] # <<>>
      [] call.kind = "submit" -> OnRecord(call.subject)
      [] call.kind = "event" -> created
      [] OTHER -> TRUE

\* A success on screen is one in the database, whichever page asked for it
\* and whatever became of that page, the connection or the session meanwhile.
NoFalseSuccess == toast # NoToast => Happened(toast)

\* What the checklist shows is of a type on record, or the banner says that it
\* is demo data: after errors, uploads, and answers that overtake each other.
ChecklistHonest ==
    \A item \in view.items :
        view.demo \/ (item[1] \in Types /\ OnRecord(item[1]))

\* Strengthening of NoFalseSuccess and ChecklistHonest: what answers say.
AnswersTrue ==
    \A r \in Requests :
        /\ job[r].at = "done" => Happened(job[r].call)
        /\ \A row \in job[r].rows : OnRecord(row[1])

\* What a page on screen waits for: queries, and forms.
Pending(kinds) == {r \in Requests : from[r] = "page" /\ job[r].call.kind \in kinds}

\* A spinner always has a request whose answer, or failure, will stop it, and a
\* page on screen has at most one form under way, with its button disabled:
\* whatever links, role changes, late answers and lost connections come between.
SpinnersAwaitAnswers ==
    /\ view.loading => Pending({"browse", "list"}) # {}
    /\ view.sending <=> Pending({"apply", "submit", "event"}) # {}
    /\ \A q, r \in Pending({"apply", "submit", "event"}) : q = r

\* Spinners stop, unless the user goes on leaving the page before they do.
SpinnersStop ==
    \/ []<>~(view.loading \/ view.sending)
    \/ []<><<page' # page \/ user' # user \/ \E r \in Requests : Reload(page, r)>>_vars
=============================================================================
