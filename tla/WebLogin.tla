------------------------------ MODULE WebLogin ------------------------------
(***************************************************************************)
(* The login of the web interface (oidc_web.rs, ui.rs).                    *)
(*                                                                         *)
(* One browser, whose tabs share the cookies, logs in at the identity      *)
(* provider with the authorization code flow.  The server keeps nothing    *)
(* between its two handlers: the state cookie carries the state and the    *)
(* PKCE verifier of a login from login to callback.  A request takes the   *)
(* cookies along that the browser has when it is sent, a response changes  *)
(* them when it arrives, and the tabs interleave in between.               *)
(*                                                                         *)
(* A login stands for its state, its verifier and the account its user     *)
(* signs in with: the random values of two logins differ.                  *)
(***************************************************************************)
EXTENDS Naturals

CONSTANTS
    Login,          \* logins of this browser, one per tab
    None,           \* no cookie
    MaxReloads      \* bound on the callbacks that are loaded again

ASSUME NoneAssumption == None \notin Login
ASSUME ReloadsAssumption == MaxReloads \in Nat

VARIABLES
    state,      \* browser: cloudsync_oidc_state, the login it is of
    session,    \*   cloudsync_user_session, the login it came from
    static,     \*   cloudsync_session: whether the static token was entered
    tab,        \*   where each login is
    sent,       \* the state cookie that went along with each callback
    barPath,    \* logins whose return_to contains "|"
    barName,    \* logins whose account has "|" in its sub or email
    used,       \* provider: codes exchanged
    expired,    \* logins begun more than ten minutes ago
    exchanges,  \* history: codes and the verifiers they were exchanged with
    disturbed,  \* history: logins during which another tab's answer came
    fault,      \* history: logins that met a failing request
    out,        \* history: logged out, and not in again
    reloads

browser == <<state, session, static>>
history == <<exchanges, disturbed, fault, out>>
bars == <<barPath, barName>>
vars == <<browser, tab, sent, bars, used, expired, history, reloads>>

-----------------------------------------------------------------------------

Step == {"none", "login", "provider", "code", "denied", "bare", "again", "callback",
         "refusal", "nothing", "exchange", "validate"}
\* The answers of callback: what it found, in the order in which it looks.
Answer == {"session_expired", "idp_error", "bad_request", "state_mismatch",
           "bad_gateway", "forbidden", "ok"}

At(a, step) == tab[a] = step
Goto(a, step) == tab' = [tab EXCEPT ![a] = step]

\* Logins whose own cookie has come and whose callback has not been sent yet.
Open == {a \in Login : tab[a] \in {"provider", "code", "denied", "bare", "again"}}
Disturb(a) == disturbed' = disturbed \cup (Open \ {a})

Init ==
    /\ state = None
    /\ session = None
    /\ static = FALSE
    /\ tab = [a \in Login |-> "none"]
    /\ sent = [a \in Login |-> None]
    /\ barPath = {}
    /\ barName = {}
    /\ used = {}
    /\ expired = {}
    /\ exchanges = {}
    /\ disturbed = {}
    /\ fault = {}
    /\ out = FALSE
    /\ reloads = 0

-----------------------------------------------------------------------------
(* GET /auth/login *)

\* A tab asks for /auth/login, with or without a return_to of its own, which may
\* be any path: sanitize_return_to lets "|" through.  The server finds the
\* provider's endpoints and answers with a new state cookie and the way to the
\* provider; when discovery fails, nothing has happened.
BeginLogin(a) ==
    /\ At(a, "none")
    /\ barPath' \in {barPath, barPath \cup {a}}
    /\ Goto(a, "login")
    /\ UNCHANGED <<browser, sent, barName, used, expired, history, reloads>>

\* The answer arrives: there is one state cookie for all tabs.
LoginArrives(a) ==
    /\ At(a, "login")
    /\ state' = a
    /\ Disturb(a)
    /\ Goto(a, "provider")
    /\ UNCHANGED <<session, static, sent, bars, used, expired, exchanges, fault, out, reloads>>

-----------------------------------------------------------------------------
(* At the provider *)

SignIn(a) ==
    /\ At(a, "provider")
    /\ barName' \in {barName, barName \cup {a}}
    /\ Goto(a, "code")
    /\ UNCHANGED <<browser, sent, barPath, used, expired, history, reloads>>

\* The user cancels, or the provider refuses: back with error instead of code,
\* or, by a provider that keeps to no rule, with neither of the two.
Deny(a) ==
    /\ At(a, "provider")
    /\ Goto(a, "denied") \/ Goto(a, "bare")
    /\ UNCHANGED <<browser, sent, bars, used, expired, history, reloads>>

\* STATE_COOKIE_MAX_AGE has passed since login a: the browser forgets the
\* cookie, and the server would not take it any more.
ExpireState(a) ==
    /\ tab[a] \notin {"none", "login"}
    /\ a \notin expired
    /\ expired' = expired \cup {a}
    /\ state' = IF state = a THEN None ELSE state
    /\ UNCHANGED <<session, static, tab, sent, bars, used, history, reloads>>

-----------------------------------------------------------------------------
(* GET /auth/callback *)

\* Plausible bug: SameSite=Strict, so that the cookie does not go along when the
\* provider sends the browser back.
SendCallbackStrict(a) ==
    /\ tab[a] \in {"code", "again"}
    /\ Goto(a, "callback")
    /\ sent' = [sent EXCEPT ![a] = None]
    /\ UNCHANGED <<browser, bars, used, expired, history, reloads>>

\* The provider has sent the browser back with a code, or the tab is reloaded.
SendCallback(a) ==
    /\ tab[a] \in {"code", "again"}
    /\ Goto(a, "callback")
    /\ sent' = [sent EXCEPT ![a] = state]
    /\ UNCHANGED <<browser, bars, used, expired, history, reloads>>

\* The same, with an error or with nothing.
SendError(a) ==
    /\ \/ At(a, "denied") /\ Goto(a, "refusal")
       \/ At(a, "bare") /\ Goto(a, "nothing")
    /\ sent' = [sent EXCEPT ![a] = state]
    /\ UNCHANGED <<browser, bars, used, expired, history, reloads>>

\* read_state_cookie.  The fields of a cookie are separated by "|", so that one
\* of them that contains it makes the number after it unreadable.
Readable(cookie) == cookie # None /\ cookie \notin expired \cup barPath

\* Plausible bug: the state parameter is not compared with the cookie.
HandleCallbackAnyState(a) ==
    /\ At(a, "callback")
    /\ Goto(a, IF Readable(sent[a]) THEN "exchange" ELSE "session_expired")
    /\ UNCHANGED <<browser, sent, bars, used, expired, history, reloads>>

\* Plausible bug: a state mismatch ends like an error of the provider, with the
\* cookie cleared.
HandleCallbackClears(a) ==
    /\ At(a, "callback")
    /\ Goto(a, IF ~Readable(sent[a]) THEN "session_expired"
               ELSE IF sent[a] # a THEN "idp_error"
               ELSE "exchange")
    /\ UNCHANGED <<browser, sent, bars, used, expired, history, reloads>>

\* callback: the cookie has to be there, and to be of this login.
HandleCallback(a) ==
    /\ At(a, "callback")
    /\ Goto(a, IF ~Readable(sent[a]) THEN "session_expired"
               ELSE IF sent[a] # a THEN "state_mismatch"
               ELSE "exchange")
    /\ UNCHANGED <<browser, sent, bars, used, expired, history, reloads>>

\* An error is taken before the state is compared.
HandleError(a) ==
    /\ At(a, "refusal")
    /\ Goto(a, IF Readable(sent[a]) THEN "idp_error" ELSE "session_expired")
    /\ UNCHANGED <<browser, sent, bars, used, expired, history, reloads>>

\* Without an error, code and state are needed; the state cookie stays.
HandleNothing(a) ==
    /\ At(a, "nothing")
    /\ Goto(a, IF Readable(sent[a]) THEN "bad_request" ELSE "session_expired")
    /\ UNCHANGED <<browser, sent, bars, used, expired, history, reloads>>

\* exchange_code: the provider takes a code once, with the verifier that belongs
\* to the challenge of its login.
Exchange(a) ==
    /\ At(a, "exchange")
    /\ exchanges' = exchanges \cup {<<a, sent[a]>>}
    /\ \/ /\ a \notin used /\ sent[a] = a
          /\ used' = used \cup {a}
          /\ Goto(a, "validate")
       \/ /\ ~(a \notin used /\ sent[a] = a)
          /\ Goto(a, "bad_gateway")
          /\ UNCHANGED used
    /\ UNCHANGED <<browser, sent, bars, expired, disturbed, fault, out, reloads>>

\* The request to the provider fails, before or after it has taken the code.
ExchangeFails(a) ==
    /\ At(a, "exchange")
    /\ used' \in {used, used \cup {a}}
    /\ Goto(a, "bad_gateway")
    /\ fault' = fault \cup {a}
    /\ UNCHANGED <<browser, sent, bars, expired, exchanges, disturbed, out, reloads>>

\* The validator (TokenValidator) accepts the id_token ...
Validate(a) ==
    /\ At(a, "validate")
    /\ Goto(a, "ok")
    /\ UNCHANGED <<browser, sent, bars, used, expired, history, reloads>>

\* ... or refuses it.
ValidateFails(a) ==
    /\ At(a, "validate")
    /\ Goto(a, "forbidden")
    /\ fault' = fault \cup {a}
    /\ UNCHANGED <<browser, sent, bars, used, expired, exchanges, disturbed, out, reloads>>

\* The session cookie and the end of the state cookie arrive, whichever login
\* the state cookie is of by now.
SessionArrives(a) ==
    /\ At(a, "ok")
    /\ session' = a
    /\ state' = None
    /\ out' = FALSE
    /\ Disturb(a)
    /\ Goto(a, "signed_in")
    /\ UNCHANGED <<static, sent, bars, used, expired, exchanges, fault, reloads>>

\* So it is with the answer to an error.
ErrorArrives(a) ==
    /\ At(a, "idp_error")
    /\ state' = None
    /\ Disturb(a)
    /\ Goto(a, "refused")
    /\ UNCHANGED <<session, static, sent, bars, used, expired, exchanges, fault, out, reloads>>

\* The answer is lost on its way to the browser.
SessionLost(a) ==
    /\ At(a, "ok")
    /\ Goto(a, "lost")
    /\ fault' = fault \cup {a}
    /\ UNCHANGED <<browser, sent, bars, used, expired, exchanges, disturbed, out, reloads>>

\* The user loads the address of the callback, with its code, once more.
Reload(a) ==
    /\ tab[a] \in {"lost", "state_mismatch", "bad_gateway", "forbidden"}
    /\ reloads < MaxReloads
    /\ reloads' = reloads + 1
    /\ Goto(a, "again")
    /\ UNCHANGED <<browser, sent, bars, used, expired, history>>

-----------------------------------------------------------------------------
(* The session *)

\* The exp of the session cookie has passed.
SessionExpires ==
    /\ session # None
    /\ session' = None
    /\ UNCHANGED <<state, static, tab, sent, bars, used, expired, history, reloads>>

\* login_submit, with the right token.
LoginSubmit ==
    /\ static' = TRUE
    /\ out' = FALSE
    /\ UNCHANGED <<state, session, tab, sent, bars, used, expired, exchanges, disturbed,
                   fault, reloads>>

\* Plausible bug: only the cookie that says who the user is is cleared.
LogoutOne ==
    /\ session' = None
    /\ static' = (static /\ session # None)
    /\ out' = TRUE
    /\ UNCHANGED <<state, tab, sent, bars, used, expired, exchanges, disturbed, fault, reloads>>

\* logout clears both session cookies, whichever there are, and with a session
\* of the provider goes on to end that one too.  The state cookie stays.
Logout ==
    /\ session' = None
    /\ static' = FALSE
    /\ out' = TRUE
    /\ UNCHANGED <<state, tab, sent, bars, used, expired, exchanges, disturbed, fault, reloads>>

\* cookie_auth_layer: the account a request of the browser is made for.  With a
\* session cookie that cannot be read it is as if there were none.
Identity ==
    IF session # None /\ session \notin barName THEN session
    ELSE IF static THEN "default"
    ELSE None

-----------------------------------------------------------------------------

Proceed(a) ==
    \/ LoginArrives(a)
    \/ SendCallback(a) \/ SendError(a)
    \/ HandleCallback(a) \/ HandleError(a) \/ HandleNothing(a)
    \/ Exchange(a) \/ Validate(a)
    \/ SessionArrives(a) \/ ErrorArrives(a)

Next ==
    \/ \E a \in Login :
        \/ BeginLogin(a) \/ SignIn(a) \/ Deny(a) \/ ExpireState(a)
        \/ Proceed(a)
        \/ ExchangeFails(a) \/ ValidateFails(a) \/ SessionLost(a) \/ Reload(a)
    \/ SessionExpires \/ LoginSubmit \/ Logout

Spec == Init /\ [][Next]_vars

\* Handlers run on, and requests and answers arrive; what the user does, the
\* user may leave undone.
FairSpec == Spec /\ \A a \in Login : WF_vars(Proceed(a))

-----------------------------------------------------------------------------
(* Properties *)

Rest == {"signed_in", "refused", "lost"}

\* The cookies are of logins that were begun, and an old state cookie is gone.
TypeOK ==
    /\ state \in Login \cup {None}
    /\ session \in Login \cup {None}
    /\ static \in BOOLEAN
    /\ tab \in [Login -> Step \cup Answer \cup Rest]
    /\ sent \in [Login -> Login \cup {None}]
    /\ barPath \subseteq Login
    /\ barName \subseteq Login
    /\ used \subseteq Login
    /\ expired \subseteq Login
    /\ state # None => state \notin expired /\ ~At(state, "none")

\* A code goes to the provider with the verifier of its own login and no other,
\* whatever the tabs do to the one state cookie: a wrong verifier would use up
\* the code of a login that could still succeed.
OwnVerifier == \A x \in exchanges : x[1] = x[2]

\* After the logout no request of the browser has an account, unless a login
\* was completed since: logout leaves neither of the two kinds of session.
LoggedOut == out => Identity = None

\* A login that no other tab disturbs, with its user back from the provider
\* within ten minutes, ends with requests made for its own account, unless a
\* request fails or a "|" makes one of the two cookies unreadable.
LoneLoginSucceeds ==
    \A a \in Login :
        At(a, "code") ~>
            \/ At(a, "signed_in") /\ Identity = a
            \/ a \in disturbed \cup expired \cup fault \cup barPath \cup barName

\* Tabs disturb each other, but they do not block each other: when the users of
\* all of them sign in, one gets its session.
UsersReturn == \A a \in Login : []<>~At(a, "provider")
NoneDenied == \A a \in Login : [](tab[a] \notin {"denied", "bare"})
SomeTabSucceeds ==
    UsersReturn /\ NoneDenied =>
        ((\E a \in Login : At(a, "code")) ~>
            \/ \E a \in Login : At(a, "signed_in")
            \/ expired \cup fault \cup barPath # {})
=============================================================================
