------------------------------ MODULE Browser ------------------------------
(***************************************************************************)
(* The API client in the tabs of one browser (packages/api-client, the     *)
(* auth context of the apps) against AuthService.  Each tab keeps an       *)
(* access token in its memory, which is good or has run out, as it may be, *)
(* and all of them share the cookie with the refresh token.  A tab whose   *)
(* access token has run out exchanges the cookie, and is signed out when   *)
(* that is refused.                                                        *)
(*                                                                         *)
(* A caller of AuthSessions is a request of a tab to /auth here.           *)
(***************************************************************************)
EXTENDS AuthSessions

CONSTANT Tabs

ASSUME BrowserAssumption == None \notin Sessions

VARIABLES
    cookie,     \* the refresh token the browser holds: the session it is of
    tabs,       \* what each tab takes its user for
    requests,   \* the requests to /auth that are under way
    spoilt      \* history: the families whose token may have been lost or ended

browserVars == <<cookie, tabs, requests, spoilt>>

NoRequest == [kind |-> "none", tab |-> None, token |-> None, got |-> None]

BrowserInit ==
    /\ cookie = None
    /\ tabs = [t \in Tabs |-> "anonymous"]
    /\ requests = [c \in Callers |-> NoRequest]
    /\ spoilt = {}

Free(c) == requests[c] = NoRequest /\ At(c, "idle")
FamilyOf(token) == {sessions[s].family : s \in {token} \ {None}}

\* A form is not sent twice: its button waits for the answer.
Quiet(t) == \A c \in Callers : requests[c].tab # t

\* Bound: one end of a login is followed up, not one upon another.
FirstEnd == spoilt = {} /\ \A c \in Callers : requests[c].kind \notin {"password", "link"}

Send(c, kind, t) ==
    requests' = [requests EXCEPT ![c] = [kind |-> kind, tab |-> t, token |-> cookie,
                                         got |-> None]]

-----------------------------------------------------------------------------
(* What the tabs send.                                                     *)
LoginPage(t, c, u) ==
    /\ tabs[t] = "anonymous" /\ Free(c) /\ Quiet(t)
    /\ Login(c, u) /\ Send(c, "login", t)
    /\ UNCHANGED <<cookie, tabs, spoilt>>

\* A second exchange of one cookie that is sent before the answer to the first
\* is a replay.
Overlapped(token) ==
    {f \in FamilyOf(token) : \E c \in Callers : requests[c].kind = "refresh"
                                               /\ requests[c].token = token}

Refresh(t, c) ==
    /\ Free(c) /\ cookie # None
    /\ PresentToken(c, cookie) /\ Send(c, "refresh", t)
    /\ spoilt' = spoilt \cup Overlapped(cookie)

\* A page asks the API for something with a token that has run out.  (With one
\* that is good it is answered, whatever has become of the session.)
Query(t, c) ==
    /\ tabs[t] = "authenticated"
    /\ Refresh(t, c)
    /\ UNCHANGED <<cookie, tabs>>

\* The app is loaded in the tab, and starts with an exchange.  What the tab had
\* under way is over first.
Load(t, c) ==
    /\ Quiet(t)
    /\ \/ /\ cookie # None
          /\ Refresh(t, c)
          /\ tabs' = [tabs EXCEPT ![t] = "loading"]
       \/ /\ cookie = None
          /\ tabs' = [tabs EXCEPT ![t] = "anonymous"]
          /\ UNCHANGED <<accountsVars, requests, spoilt>>
    /\ UNCHANGED cookie

LogoutButton(t, c) ==
    /\ tabs[t] = "authenticated" /\ Free(c) /\ cookie # None /\ FirstEnd
    /\ Logout(c, cookie) /\ Send(c, "logout", t)
    /\ spoilt' = spoilt \cup FamilyOf(cookie)
    /\ UNCHANGED <<cookie, tabs>>

ChangePasswordCard(t, c) ==
    /\ tabs[t] = "authenticated" /\ Free(c) /\ Quiet(t) /\ FirstEnd
    /\ \E u \in Users : ChangePassword(c, u)
    /\ Send(c, "password", t)
    /\ UNCHANGED <<cookie, tabs, spoilt>>

\* The current password is wrong, or the access token has run out: either is a
\* 401 of an /auth path, for which the client knows the session to be lost.
PasswordRefused(t) ==
    /\ tabs[t] = "authenticated" /\ FirstEnd
    /\ tabs' = [tabs EXCEPT ![t] = "anonymous"]
    /\ UNCHANGED <<accountsVars, cookie, requests, spoilt>>

\* The pages of the links that are mailed: nothing they send is of a session.
\* Bound: one link.
ForgotPasswordPage(t, c) ==
    /\ Free(c) /\ FirstEnd /\ \A l \in Tokens : tokens[l].state = "unused"
    /\ \E u \in Users : RequestToken(c, "reset", u)
    /\ Send(c, "link", t)
    /\ UNCHANGED <<cookie, tabs, spoilt>>

ResetPasswordPage(t, c) ==
    /\ Free(c) /\ FirstEnd
    /\ \E l \in Tokens : Consume(c, l)
    /\ Send(c, "link", t)
    /\ UNCHANGED <<cookie, tabs, spoilt>>

-----------------------------------------------------------------------------
(* What comes back.                                                        *)
\* The last step of a request that mints a session answers with its token.
Granted(c) ==
    IF At(c, "start") \/ At(c, "mint") THEN [ok |-> TRUE, session |-> FreshSession]
    ELSE [ok |-> requests[c].kind \in {"logout", "link"}, session |-> None]

\* The families a new password ends.
Ended(c) ==
    {sessions[s].family : s \in {s \in SessionsOf(calls[c].user) : At(c, "revokeAll")}}

Serve(c) ==
    /\ requests[c].kind # "none"
    /\ SessionStep(c)
    /\ requests' = IF calls'[c] = Idle THEN [requests EXCEPT ![c].got = Granted(c)] ELSE requests
    /\ spoilt' = spoilt \cup Ended(c)
    /\ UNCHANGED <<cookie, tabs>>

\* A slip to catch: an exchange that nobody waits for any more sets no cookie.
OwnCookie(request) ==
    IF request.kind = "logout" THEN None
    ELSE IF request.got.session # None /\ (request.kind = "login" \/ tabs[request.tab] # "anonymous")
    THEN request.got.session ELSE cookie
CookieAfter(request) ==
    IF request.kind = "logout" THEN None
    ELSE IF request.got.session # None THEN request.got.session ELSE cookie

\* login, refresh, changePassword and logout of the client, and what the auth
\* context makes of them.
TabAfter(tab, request) ==
    IF request.kind = "link" THEN tab
    ELSE IF request.got.session = None THEN "anonymous"
    ELSE IF tab = "loading" \/ request.kind = "login" THEN "authenticated" ELSE tab

Receive(c) ==
    LET request == requests[c]
    IN  /\ request.got # None
        /\ cookie' = CookieAfter(request)
        /\ tabs' = [tabs EXCEPT ![request.tab] = TabAfter(@, request)]
        /\ requests' = [requests EXCEPT ![c] = NoRequest]
        /\ UNCHANGED <<accountsVars, spoilt>>

\* The answer is lost: the browser still holds the old cookie.  A tab that is
\* loading takes that for the end of its session.
Lose(c) ==
    LET request == requests[c]
    IN  /\ request.got # None
        /\ tabs' = [tabs EXCEPT ![request.tab] = IF @ = "loading"
                                                 THEN "anonymous" ELSE @]
        /\ requests' = [requests EXCEPT ![c] = NoRequest]
        /\ spoilt' = spoilt \cup IF request.kind = "refresh" THEN FamilyOf(request.token) ELSE {}
        /\ UNCHANGED <<accountsVars, cookie>>

\* 30 days pass.
SessionExpires ==
    /\ Expire /\ FirstEnd
    /\ cookie # None /\ ~sessions[cookie].expired /\ sessions'[cookie].expired
    /\ spoilt' = spoilt \cup FamilyOf(cookie)
    /\ UNCHANGED <<cookie, tabs, requests>>

BrowserNext ==
    \/ \E c \in Callers : Serve(c) \/ Receive(c) \/ Lose(c)
    \/ \E t \in Tabs, c \in Callers :
          \/ \E u \in Users : LoginPage(t, c, u)
          \/ Load(t, c) \/ Query(t, c) \/ LogoutButton(t, c) \/ ChangePasswordCard(t, c)
          \/ ForgotPasswordPage(t, c) \/ ResetPasswordPage(t, c)
    \/ \E t \in Tabs : PasswordRefused(t)
    \/ SessionExpires

BrowserSpec == AccountsInit /\ BrowserInit /\ [][BrowserNext]_<<accountsVars, browserVars>>

-----------------------------------------------------------------------------
(* Properties.                                                             *)
\* Who is signed in stays signed in: an exchange of the cookie is refused only
\* when the login it goes back to was logged out, has run out or had its password
\* changed, or when the answer to an exchange was lost, or two overlapped.  So
\* the rotation of the token never by itself costs the browser its session, nor
\* do the logins, logouts and new passwords of its other tabs.
StaysSignedIn ==
    \A c \in Callers :
        LET request == requests[c] IN
        (request.kind = "refresh" /\ request.got # None) =>
            request.got.ok \/ FamilyOf(request.token) \subseteq spoilt
=============================================================================
