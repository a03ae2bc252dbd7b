----------------------------- MODULE AppSession -----------------------------
(***************************************************************************)
(* Who is signed in (App, AuthPage, httpClient, BackendStatusMonitor).     *)
(*                                                                         *)
(* The tabs of a browser share one token in localStorage.  Every request   *)
(* reads it when it is sent, a sign-in, too; a 401, whichever request it   *)
(* answers and whatever is stored by then, removes it and loads the page   *)
(* of that tab anew.  Whether a tab draws the dashboard is a state of its  *)
(* own that only signing in and out in that tab, or loading its page,      *)
(* changes.                                                                *)
(***************************************************************************)
EXTENDS Integers, FiniteSets

CONSTANTS
    Tab,      \* tabs of one browser
    User,     \* people who sign in there
    None,     \* no token, nobody
    MaxSeen,  \* bound on the tokens given out, and on the dashboards a tab mounts
    MaxCalls  \* bound on the requests under way

Token == 1..MaxSeen

VARIABLES
    owner,   \* whom the server has given each token to
    valid,   \* the tokens it accepts
    store,   \* localStorage
    tabs,    \* the tabs
    calls    \* requests under way, with the token they were sent with

vars == <<owner, valid, store, tabs, calls>>

\* mount: how many dashboards the tab has mounted; data: whose data the one it shows
\* has; down: the overlay "Backend Connection Lost".  Not in the code: user is whom the
\* dashboard was mounted for, crossed that another tab has changed the token since.
TabState == [page : {"auth", "dashboard", "loading"}, mount : 0..MaxSeen, data : SUBSET User,
             down : BOOLEAN, user : User \cup {None}, crossed : BOOLEAN]
\* user: who wants to sign in; None for a request of a dashboard.
Calls == [tab : Tab, mount : 0..MaxSeen, as : Token \cup {None}, user : User \cup {None}]

TypeOK ==
    /\ owner \in [Token -> User \cup {None}] /\ valid \subseteq Token /\ store \in Token \cup {None}
    /\ tabs \in [Tab -> TabState] /\ calls \subseteq Calls

Auth(n) == [page |-> "auth", mount |-> n, data |-> {}, down |-> FALSE, user |-> None, crossed |-> FALSE]

Init ==
    /\ owner = [k \in Token |-> None] /\ valid = {} /\ store = None
    /\ tabs = [t \in Tab |-> Auth(0)] /\ calls = {}

\* Mutant: the dashboard of the last session stays mounted behind the form.
DashboardKept(t) ==
    [tabs[t] EXCEPT !.page = "dashboard", !.user = owner'[store']]

\* A dashboard is mounted and loads its data.
Dashboard(t) ==
    [Auth(tabs[t].mount + 1) EXCEPT !.page = "dashboard", !.user = owner'[store']]

\* The tab t becomes new; if that changes the token, the dashboards of the others notice nothing.
Becomes(t, new) ==
    tabs' = [o \in Tab |-> IF o = t THEN new
                           ELSE [tabs[o] EXCEPT !.crossed = @ \/ (store' # store /\ tabs[o].page = "dashboard")]]

-----------------------------------------------------------------------------
\* Any request goes with the token there is now, which another tab may have stored.
Send(t, u) ==
    /\ Cardinality(calls) < MaxCalls
    /\ calls' = calls \cup {[tab |-> t, mount |-> tabs[t].mount, as |-> store, user |-> u]}
    /\ UNCHANGED <<owner, valid, store, tabs>>

\* handleLogin and handleRegister of the form; its buttons wait for the answer.
HandleLogin(t, u) ==
    tabs[t].page = "auth" /\ (\A c \in calls : c.tab = t => c.user = None) /\ Send(t, u)

\* The right password: onLogin.
LoggedIn(c) ==
    /\ c.user # None /\ tabs[c.tab].mount < MaxSeen /\ calls' = calls \ {c}
    /\ \E k \in Token :
        /\ owner[k] = None /\ \A j \in 1..(k - 1) : owner[j] # None
        /\ owner' = [owner EXCEPT ![k] = c.user] /\ valid' = valid \cup {k} /\ store' = k
    /\ Becomes(c.tab, Dashboard(c.tab))

\* handleLogout, of the menu or of the overlay: the page is not loaded anew, and what
\* was asked for is still under way.
HandleLogout(t) ==
    /\ tabs[t].page = "dashboard" /\ store' = None
    /\ Becomes(t, Auth(tabs[t].mount)) /\ UNCHANGED <<owner, valid, calls>>

\* The page is loaded: useState(!!getAuthToken()).
Load(t) ==
    /\ tabs[t].page = "loading" /\ UNCHANGED <<owner, valid, store, calls>>
    /\ IF store = None THEN Becomes(t, Auth(tabs[t].mount))
       ELSE tabs[t].mount < MaxSeen /\ Becomes(t, Dashboard(t))

\* The user, the logo or a 401 unloads a page, and with it all it had asked for.
Unloads(t) ==
    /\ calls' = {c \in calls : c.tab # t}
    /\ Becomes(t, [Auth(tabs[t].mount) EXCEPT !.page = "loading"])
Reload(t) == tabs[t].page # "loading" /\ UNCHANGED <<owner, valid, store>> /\ Unloads(t)

-----------------------------------------------------------------------------
Request(t) == tabs[t].page = "dashboard" /\ Send(t, None)

Accepted(c) == c.as \in valid

\* Data that comes for a dashboard that is not there any more is dropped.
Answered(c) ==
    /\ c.user = None /\ Accepted(c) /\ calls' = calls \ {c}
    /\ tabs' = IF tabs[c.tab].page = "dashboard" /\ tabs[c.tab].mount = c.mount
               THEN [tabs EXCEPT ![c.tab].data = @ \cup {owner[c.as]}] ELSE tabs
    /\ UNCHANGED <<owner, valid, store>>

\* Any other error, or no answer.
Failed(c) == calls' = calls \ {c} /\ UNCHANGED <<owner, valid, store, tabs>>

\* 401: to a dashboard for the token it sent, to a sign-in for a wrong name or password,
\* whatever token went with it.
Refused(c) ==
    /\ c.user = None => ~Accepted(c)
    /\ store' = None /\ Unloads(c.tab) /\ UNCHANGED <<owner, valid>>

\* A token is good for 24 hours.
Expire(k) == k \in valid /\ valid' = valid \ {k} /\ UNCHANGED <<owner, store, tabs, calls>>

\* checkBackendHealth, every 30 seconds and by the button; checks may overlap.
CheckBackendHealth(t, ok) ==
    /\ tabs[t].page = "dashboard" /\ tabs[t].down = ok
    /\ tabs' = [tabs EXCEPT ![t].down = (~ok)] /\ UNCHANGED <<owner, valid, store, calls>>

Next ==
    \/ \E t \in Tab :
        \/ HandleLogout(t) \/ Load(t) \/ Reload(t) \/ Request(t)
        \/ \E u \in User : HandleLogin(t, u)
        \/ \E ok \in BOOLEAN : CheckBackendHealth(t, ok)
    \/ \E c \in calls : LoggedIn(c) \/ Answered(c) \/ Failed(c) \/ Refused(c)
    \/ \E k \in Token : Expire(k)

Spec == Init /\ [][Next]_vars

-----------------------------------------------------------------------------
\* A dashboard has the data of the one it was mounted for and of nobody else,
\* unless the token was changed by another tab.
OneUsersData ==
    \A t \in Tab : tabs[t].page = "dashboard" /\ ~tabs[t].crossed => tabs[t].data \subseteq {tabs[t].user}

\* A token that the server accepts leaves the browser when the user logs out, for the
\* refusal of a request that was not sent with it, or when a sign-in fails in a tab that
\* still draws the form: that one goes with the token another tab has stored, and takes
\* it away.  A request that a dashboard sent with the token never does.
KeptWhileValid ==
    store \in valid /\ store' = None =>
        \/ \E t \in Tab : tabs[t].page = "dashboard" /\ tabs'[t].page = "auth"
        \/ \E c \in calls \ calls' :
            IF c.user = None THEN c.as # store /\ c.as \notin valid ELSE tabs[c.tab].page = "auth"

SessionsApart == [][OneUsersData' /\ KeptWhileValid]_vars
=============================================================================
