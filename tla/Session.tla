------------------------------ MODULE Session ------------------------------
(***************************************************************************)
(* Who is signed in, and for which organization: the session rows and the  *)
(* memberships on the server, the routes that read and change them, and    *)
(* one browser tab with its copy of GET /api/me, its gates between the     *)
(* login page and the app, and the page in the app that loads the jobs and *)
(* the leads of the organization it was mounted for.                       *)
(*                                                                         *)
(* A route runs its statements one by one, interleaved with those of other *)
(* calls.  The user of the model has one account; memberships are revoked  *)
(* outside the program, and none is granted.  A session that has expired   *)
(* is one that no query finds, as after a logout.                          *)
(***************************************************************************)
EXTENDS Naturals, FiniteSets

CONSTANTS
    Orgs,       \* the organizations the user may be a member of
    Sids,       \* session tokens, each of them that of the row with its hash
    Lanes,      \* bound: the session calls that may be in flight at once
    MayLose,    \* kinds of calls whose answer may be lost, or never come
    Null        \* an absent value

ASSUME LanesAssumption == Lanes # {} /\ Lanes \cap {"jobs", "leads"} = {}

VARIABLES
    members,   \* organizations the user is a member of
    rows,      \* sessions: [live, org]
    calls,     \* the calls in flight
    cookie,    \* the token in the browser
    status,    \* of the SessionProvider
    me,        \* the answer it has adopted: [org, orgs]
    route,     \* the page of the tab
    form,      \* the form on the login page: Null, "error", or the call it waits for
    view,      \* the page in the app: what it was mounted for and what it has loaded
    crossed    \* history: a call that changes the session overlapped another, or was lost

vars == <<members, rows, calls, cookie, status, me, route, form, view, crossed>>

Tenant == {"jobs", "leads"}   \* GET /api/jobs and GET /api/leads, the two calls of a load

Reading == {"hydrate", "refresh"}
Changing == {"login", "switch", "logout"}

Idle == [kind |-> "none", at |-> "idle", token |-> Null, org |-> Null, orgs |-> {},
         heard |-> FALSE, excused |-> FALSE]

Steps == {"idle", "login", "insert", "resolve", "member", "update", "list", "query", "delete",
          "ok", "denied"}

NoRow == [live |-> FALSE, org |-> Null]
NoMe == [org |-> Null, orgs |-> {}]
NoView == [org |-> Null, phase |-> "none", jobs |-> Null, leads |-> Null]

Call(kind, token, o) ==
    [Idle EXCEPT !.kind = kind, !.token = token, !.org = o, !.heard = TRUE,
        !.at = CASE kind = "login" -> "login"
                 [] kind = "logout" -> "delete"
                 [] OTHER -> "resolve"]

Init ==
    /\ members = Orgs
    /\ rows = [s \in Sids |-> NoRow]
    /\ \E l \in Lanes :
        calls = [c \in Lanes \cup Tenant |->
                    IF c = l THEN Call("hydrate", Null, Null) ELSE Idle]
    /\ cookie = Null
    /\ status = "loading"
    /\ me = NoMe
    /\ route = "app"
    /\ form = Null
    /\ view = NoView
    /\ crossed = FALSE

-----------------------------------------------------------------------------
(* The routes.  401 and 404 are "denied".                                  *)

browser == <<cookie, status, me, route, form, view, crossed>>

Goto(c, step) == calls' = [calls EXCEPT ![c].at = step]

\* resolveSession, in requireSessionInfo; requireContext also wants an active organization.
ResolveSession(c) ==
    LET call == calls[c]
        row == IF call.token = Null THEN NoRow ELSE rows[call.token]
        org == IF call.kind = "switch" THEN call.org ELSE row.org
        found == row.live /\ (c \in Tenant => org # Null)
    IN  /\ call.at = "resolve"
        /\ calls' = [calls EXCEPT
                ![c].at = IF ~found THEN "denied"
                          ELSE IF call.kind \in Reading THEN "list" ELSE "member",
                ![c].org = IF found THEN org ELSE Null]
        /\ UNCHANGED <<members, rows, browser>>

\* Mutant of MemberCheck: the session's organization is taken on trust.
TrustSession(c) == c \in Tenant \/ calls[c].org \in members

\* isMember, before a tenant query and before a switch.
MemberCheck(c) == calls[c].org \in members

IsMember(c) ==
    /\ calls[c].at = "member"
    /\ Goto(c, IF ~MemberCheck(c) THEN "denied" ELSE IF c \in Tenant THEN "query" ELSE "update")
    /\ UNCHANGED <<members, rows, browser>>

\* listJobsByOrg, listLeadsByOrg: what is answered belongs to the organization of the context.
Query(c) ==
    /\ calls[c].at = "query"
    /\ Goto(c, "ok")
    /\ UNCHANGED <<members, rows, browser>>

\* Mutant of WithOrg: the row is written whether it is still there or not.
UpsertedOrg(s, o) == [live |-> TRUE, org |-> o]

\* setSessionActiveOrg: an UPDATE, which leaves a row that is gone as it is.
WithOrg(s, o) == IF rows[s].live THEN [rows[s] EXCEPT !.org = o] ELSE rows[s]

SetSessionActiveOrg(c) ==
    LET s == calls[c].token
    IN  /\ calls[c].at = "update"
        /\ rows' = [rows EXCEPT ![s] = WithOrg(s, calls[c].org)]
        /\ Goto(c, "list")
        /\ UNCHANGED <<members, browser>>

\* The active organization that buildMe advertises.
EffectiveActiveOrgId(o) == IF o \in members THEN o ELSE Null

\* buildMe: the memberships of the user, and the active organization if it is among them.
BuildMe(c) ==
    /\ calls[c].at = "list"
    /\ calls' = [calls EXCEPT ![c].at = "ok", ![c].orgs = members,
                              ![c].org = EffectiveActiveOrgId(@)]
    /\ UNCHANGED <<members, rows, browser>>

\* loginUser: the user of the address, if there is one, and an only organization at once.
LoginUser(c) ==
    /\ calls[c].at = "login"
    /\ \/ Goto(c, "denied")
       \/ calls' = [calls EXCEPT ![c].at = "insert",
                    ![c].org = IF Cardinality(members) = 1 THEN CHOOSE o \in members : TRUE
                               ELSE Null]
    /\ UNCHANGED <<members, rows, browser>>

\* A token that nobody has: random, so never one in use.
Unused(s) == s # cookie /\ \A c \in Lanes \cup Tenant : calls[c].token # s

CreateSession(c) ==
    /\ calls[c].at = "insert"
    /\ \E s \in Sids :
        /\ Unused(s)
        /\ rows' = [rows EXCEPT ![s] = [live |-> TRUE, org |-> calls[c].org]]
        /\ calls' = [calls EXCEPT ![c].at = "list", ![c].token = s]
    /\ UNCHANGED <<members, browser>>

DestroySession(c) ==
    LET s == calls[c].token
    IN  /\ calls[c].at = "delete"
        /\ rows' = IF s = Null THEN rows ELSE [rows EXCEPT ![s] = NoRow]
        /\ Goto(c, "ok")
        /\ UNCHANGED <<members, browser>>

\* A call nobody waits for has answered, or has failed on the way.
Unheard(c) ==
    /\ calls[c].at # "idle"
    /\ ~calls[c].heard
    /\ calls' = [calls EXCEPT ![c] = Idle]
    /\ UNCHANGED <<members, rows, browser>>

Serve(c) ==
    \/ ResolveSession(c) \/ IsMember(c) \/ Query(c) \/ SetSessionActiveOrg(c) \/ BuildMe(c)
    \/ LoginUser(c) \/ CreateSession(c) \/ DestroySession(c)

\* The seven days of a session are over.
Expire(s) ==
    /\ rows[s].live
    /\ rows' = [rows EXCEPT ![s] = NoRow]
    /\ UNCHANGED <<members, calls, browser>>

\* A membership is revoked; the calls on their way may have passed their check.
Revoke(o) ==
    /\ o \in members
    /\ members' = members \ {o}
    /\ calls' = [c \in DOMAIN calls |->
                    [calls[c] EXCEPT !.excused = @ \/ (c \in Tenant /\ calls[c].at # "idle")]]
    /\ UNCHANGED <<rows, browser>>

-----------------------------------------------------------------------------
(* The tab: what it shows follows from the session and the route.          *)

\* The organization below whose OrgScope a page of the app is mounted, if any.
Scope(st, m, r) == IF st = "authed" /\ r = "app" THEN m.org ELSE Null

Screen(st, m, r) ==
    CASE Scope(st, m, r) # Null -> "app"
      [] r = "login" /\ st = "anon" -> "signin"
      [] r = "login" /\ st = "authed" /\ m.org = Null -> "picker"
      [] OTHER -> "loader"

CurrentScreen == Screen(status, me, route)

Loading(o) == [NoView EXCEPT !.org = o, !.phase = "loading"]

\* The call as the browser leaves it behind: one that changes the session may go on.
LeftBehind(c) ==
    IF calls[c].kind \in Changing /\ calls[c].at \notin {"ok", "denied"}
    THEN [calls[c] EXCEPT !.heard = FALSE] ELSE Idle

\* Mutant of SameScope: a page that is mounted stays mounted.
AnyScope(o) == o = view.org \/ (o # Null /\ view.org # Null)

\* OrgScope keeps what is mounted below it as long as its key is the same.
SameScope(o) == o = view.org

\* The tab shows session (st, m) on route r, with this cookie: where the scope changes, the page is mounted
\* anew and loads, and where the screen changes, so does the form.  `ends` maps the calls
\* that end with this to what is left of them.
Render(st, m, r, token, ends) ==
    LET o == Scope(st, m, r)
        left == [c \in DOMAIN calls |-> IF c \in DOMAIN ends THEN ends[c] ELSE calls[c]]
    IN  /\ status' = st
        /\ me' = m
        /\ route' = r
        /\ cookie' = token
        /\ IF SameScope(o)
           THEN view' = view /\ calls' = left
           ELSE /\ view' = IF o = Null THEN NoView ELSE Loading(o)
                /\ calls' = [c \in DOMAIN calls |->
                                IF c \notin Tenant THEN left[c]
                                ELSE IF o = Null THEN Idle ELSE Call(c, token, Null)]

\* Mutant of ErrorShown: the form is left waiting.
StillPending(c) == form

\* The form that waited for the call c shows that it failed.
ErrorShown(c) == IF form = c THEN "error" ELSE form

\* The form after the call c ended in an error, or not.
FormAfter(c, failed, st, m, r) ==
    IF Screen(st, m, r) # CurrentScreen THEN Null
    ELSE IF failed THEN ErrorShown(c) ELSE form

\* The call c ends in the tab, which adopts an answer, turns anonymous, or stays as it is.
Adopt(c, token) ==
    LET m == [org |-> calls[c].org, orgs |-> calls[c].orgs]
    IN  /\ Render("authed", m, route, token, [d \in {c} |-> Idle])
        /\ form' = FormAfter(c, FALSE, "authed", m, route)

\* Mutant of AnonMe: only the status is set.
KeptMe == me

\* setMe(null).
AnonMe == NoMe

TurnAnon(c, token) ==
    /\ Render("anon", AnonMe, route, token, [d \in {c} |-> LeftBehind(c)])
    /\ form' = FormAfter(c, FALSE, "anon", AnonMe, route)

StayAs(c) ==
    /\ Render(status, me, route, cookie, [d \in {c} |-> LeftBehind(c)])
    /\ form' = FormAfter(c, TRUE, status, me, route)

-----------------------------------------------------------------------------
(* The SessionProvider and its users: a call is sent, and its answer used. *)

server == <<members, rows>>

Busy(c) == calls[c].at # "idle"

\* The call c of this kind is sent.
Send(c, kind, o) ==
    /\ ~Busy(c)
    /\ calls' = [calls EXCEPT ![c] = Call(kind, cookie, o)]
    /\ crossed' = \/ crossed
                  \/ \E d \in Lanes : Busy(d) /\ {kind, calls[d].kind} \cap Changing # {}
    /\ UNCHANGED <<server, cookie, status, me, route, view>>

\* submit of the sign-in form.
SignIn(c) ==
    /\ CurrentScreen = "signin" /\ form \in {Null, "error"}
    /\ Send(c, "login", Null)
    /\ form' = c

\* submit of the organization picker, "Continue".
Pick(c, o) ==
    /\ CurrentScreen = "picker" /\ form \in {Null, "error"}
    /\ o \in me.orgs
    /\ Send(c, "switch", o)
    /\ form' = c

\* selectOrg of the sidebar, whose menu is there for several organizations.
SelectOrg(c, o) ==
    /\ CurrentScreen = "app"
    /\ Cardinality(me.orgs) > 1 /\ o \in me.orgs \ {me.org}
    /\ Send(c, "switch", o)
    /\ UNCHANGED form

\* handleSignOut.
SignOut(c) ==
    /\ CurrentScreen = "app"
    /\ Send(c, "logout", Null)
    /\ UNCHANGED form

\* refreshMe, which the search page calls.
RefreshMe(c) ==
    /\ CurrentScreen = "app"
    /\ Send(c, "refresh", Null)
    /\ UNCHANGED form

Ended(c, kind, step) == calls[c].heard /\ calls[c].kind = kind /\ calls[c].at = step

\* The answer of a call the tab waits for is lost, or the call itself, in whatever step.
Lost(c, kind) == calls[c].heard /\ calls[c].kind = kind /\ kind \in MayLose

\* Hydration that fails, in any way, is taken for a user who is not signed in.
HydrateFailed(c) == TurnAnon(c, cookie)

Hydrated(c) ==
    /\ \/ Ended(c, "hydrate", "ok") /\ Adopt(c, cookie)
       \/ (Ended(c, "hydrate", "denied") \/ Lost(c, "hydrate")) /\ HydrateFailed(c)
    /\ UNCHANGED <<server, crossed>>

\* refreshMe: a 401 signs out, another failure is thrown at the caller, which ignores it.
Refreshed(c) ==
    /\ \/ Ended(c, "refresh", "ok") /\ Adopt(c, cookie)
       \/ Ended(c, "refresh", "denied") /\ TurnAnon(c, cookie)
       \/ Lost(c, "refresh") /\ StayAs(c)
    /\ UNCHANGED <<server, crossed>>

\* signIn: the answer brings the cookie.
SignedIn(c) ==
    /\ \/ Ended(c, "login", "ok") /\ Adopt(c, calls[c].token)
       \/ Ended(c, "login", "denied") /\ StayAs(c)
       \/ Lost(c, "login") /\ StayAs(c)
    /\ crossed' = (crossed \/ calls[c].at \notin {"ok", "denied"})
    /\ UNCHANGED server

\* chooseOrg.
Switched(c) ==
    /\ \/ Ended(c, "switch", "ok") /\ Adopt(c, cookie) /\ UNCHANGED crossed
       \/ Ended(c, "switch", "denied") /\ StayAs(c) /\ UNCHANGED crossed
       \/ Lost(c, "switch") /\ StayAs(c) /\ crossed' = TRUE
    /\ UNCHANGED server

\* signOut: anonymous, whether the logout was heard or not; only its answer deletes the cookie.
SignedOut(c) ==
    /\ \/ Ended(c, "logout", "ok") /\ TurnAnon(c, Null) /\ UNCHANGED crossed
       \/ Lost(c, "logout") /\ TurnAnon(c, cookie) /\ crossed' = TRUE
    /\ UNCHANGED server

\* The effects of the two gates: LoginPage sends to the app, AppLayout to the login page.
GateToApp ==
    /\ route = "login" /\ status = "authed" /\ me.org # Null
    /\ Render(status, me, "app", cookie, <<>>)
    /\ form' = Null
    /\ UNCHANGED <<server, crossed>>

GateToLogin ==
    /\ route = "app" /\ (status = "anon" \/ (status = "authed" /\ me.org = Null))
    /\ Render(status, me, "login", cookie, <<>>)
    /\ form' = Null
    /\ UNCHANGED <<server, crossed>>

\* The tab is loaded anew: all that it kept in memory is gone, and it hydrates.  The user of
\* the model waits for a loader, here and in OpenPage, where leaving early only drops a load.
Reload(l) ==
    /\ CurrentScreen # "loader"
    /\ ~Busy(l) \/ LeftBehind(l) = Idle
    /\ status' = "loading"
    /\ me' = NoMe
    /\ form' = Null
    /\ view' = NoView
    /\ calls' = [c \in DOMAIN calls |->
                    IF c = l THEN Call("hydrate", cookie, Null) ELSE LeftBehind(c)]
    /\ crossed' = (crossed \/ \E c \in Lanes : calls[c].kind \in Changing)
    /\ UNCHANGED <<server, cookie, route>>

-----------------------------------------------------------------------------
(* load of the Overview and of the Inbox: Promise.all over the two lists.  *)

session == <<members, rows, cookie, status, me, route, form, crossed>>

SendLoad ==
    calls' = [c \in DOMAIN calls |-> IF c \in Tenant THEN Call(c, cookie, Null) ELSE calls[c]]

\* The rest of a load is not looked at.
EndLoad == calls' = [c \in DOMAIN calls |-> IF c \in Tenant THEN Idle ELSE calls[c]]

LoadDone ==
    /\ view.phase = "loading"
    /\ \A c \in Tenant : calls[c].at = "ok"
    /\ view' = [view EXCEPT !.phase = "ready", !.jobs = calls["jobs"].org,
                            !.leads = calls["leads"].org]
    /\ EndLoad
    /\ UNCHANGED session

\* One of the two is refused, or lost.
LoadFailed ==
    /\ view.phase = "loading"
    /\ \E c \in Tenant :
        /\ calls[c].at = "denied" \/ c \in MayLose
        /\ view' = [view EXCEPT !.phase = "error"]
    /\ EndLoad
    /\ UNCHANGED session

\* "Retry" of the page that failed, without a signal.
Retry ==
    /\ view.phase = "error"
    /\ view' = Loading(view.org)
    /\ SendLoad
    /\ UNCHANGED session

\* The user goes to the other page: the first is unmounted.
OpenPage ==
    /\ view.phase = "ready" \/ view.phase = "error"
    /\ view' = Loading(view.org)
    /\ SendLoad
    /\ UNCHANGED session

-----------------------------------------------------------------------------

Hear(c) == Hydrated(c) \/ Refreshed(c) \/ SignedIn(c) \/ Switched(c) \/ SignedOut(c)

Next ==
    \/ \E c \in Lanes \cup Tenant : Serve(c)
    \/ \E c \in Lanes :
        \/ Unheard(c) \/ Hear(c)
        \/ SignIn(c) \/ SignOut(c) \/ RefreshMe(c) \/ Reload(c)
        \/ \E o \in Orgs : Pick(c, o) \/ SelectOrg(c, o)
    \/ GateToApp \/ GateToLogin
    \/ LoadDone \/ LoadFailed \/ Retry \/ OpenPage
    \/ \E s \in Sids : Expire(s)
    \/ \E o \in Orgs : Revoke(o)

\* Routes go on with their statements, the tab with the answers, and the gates redirect.
Fairness ==
    /\ \A c \in Lanes : WF_vars(Serve(c)) /\ WF_vars(Hear(c))
    /\ \A c \in Tenant : WF_vars(Serve(c))
    /\ WF_vars(LoadDone \/ LoadFailed)
    /\ WF_vars(GateToApp \/ GateToLogin)

Spec == Init /\ [][Next]_vars /\ Fairness

-----------------------------------------------------------------------------

Answers == Orgs \cup {Null}

TypeOK ==
    /\ members \subseteq Orgs
    /\ rows \in [Sids -> [live : BOOLEAN, org : Answers]]
    /\ DOMAIN calls = Lanes \cup Tenant
    /\ \A c \in DOMAIN calls :
        /\ calls[c].kind \in Reading \cup Changing \cup Tenant \cup {"none"}
        /\ calls[c].at \in Steps
        /\ calls[c].token \in Sids \cup {Null}
        /\ calls[c].org \in Answers /\ calls[c].orgs \subseteq Orgs
        /\ calls[c].heard \in BOOLEAN /\ calls[c].excused \in BOOLEAN
    /\ cookie \in Sids \cup {Null}
    /\ status \in {"loading", "authed", "anon"}
    /\ me \in [org : Answers, orgs : SUBSET Orgs]
    /\ status # "authed" => me = NoMe
    /\ route \in {"app", "login"}
    /\ form \in {Null, "error"} \cup Lanes
    /\ view \in [org : Answers, phase : {"none", "loading", "ready", "error"},
                 jobs : Answers, leads : Answers]
    /\ crossed \in BOOLEAN

\* "A membership revoked mid-session must lose org access immediately": a call that began
\* after the revocation is answered with no data of the organization.
RevokedMeansNoData ==
    \A c \in Tenant : calls[c].at = "ok" => calls[c].org \in members \/ calls[c].excused

\* "Remounts on workspace switch (via OrgScope) so numbers match the active workspace": a page
\* shows the jobs and the leads of the organization that heads it, as long as no
\* switch is on its way and no call that changes the session has crossed another or was lost.
ShownBelongs ==
    view.phase = "ready" /\ ~crossed /\ (\A c \in Lanes : calls[c].kind # "switch")
        => view.jobs = me.org /\ view.leads = me.org

\* Only a login brings a session to life: one that has ended, by a logout or by its time, is
\* not brought back by a switch that had found it still there.
SessionsByLogin ==
    [][\A s \in Sids : ~rows[s].live /\ rows'[s].live => \E c \in Lanes : calls[c].at = "insert"]_vars

\* No loader for ever: hydration ends, the gates open the page the session is for, and a page
\* of the app ends its load, in data or in an error, unless the organization changes.
LoadersEnd ==
    /\ CurrentScreen = "loader" ~> CurrentScreen # "loader"
    /\ \A o \in Orgs : view.org = o /\ view.phase = "loading" ~>
                          view.org # o \/ view.phase # "loading"

\* A form that waits gets its page changed or its error, as long as no membership is revoked.
FormsEnd == form \in Lanes /\ members = Orgs ~> form \notin Lanes \/ members # Orgs

\* The tab never waits for ever: its loaders and its forms end
\* (SessionProvider.tsx:55-63, layout.tsx:17-33, page.tsx:23-34, login/page.tsx:87-109).
NothingHangs == LoadersEnd /\ FormsEnd

=============================================================================
