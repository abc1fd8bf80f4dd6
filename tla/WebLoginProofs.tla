--------------------------- MODULE WebLoginProofs ---------------------------
(***************************************************************************)
(* Proofs about WebLogin, for any number of tabs and reloads: the cookies  *)
(* are of logins under way, no code meets the verifier of another login,   *)
(* and a logout leaves no account behind.                                  *)
(***************************************************************************)
EXTENDS WebLogin, TLAPS

Typed ==
    /\ state \in Login \cup {None}
    /\ session \in Login \cup {None}
    /\ static \in BOOLEAN
    /\ tab \in [Login -> Step \cup Answer \cup Rest]
    /\ sent \in [Login -> Login \cup {None}]
    /\ barPath \subseteq Login
    /\ barName \subseteq Login
    /\ used \subseteq Login
    /\ expired \subseteq Login

(* Only a login whose cookie has come has a cookie that is too old. *)
CookieInv ==
    /\ \A a \in Login : tab[a] \in {"none", "login"} => a \notin expired
    /\ state # None => state \notin expired /\ tab[state] # "none"

(* The comparison with the state parameter is what OwnVerifier rests on: a
   callback that has passed it was sent with the cookie of its own login. *)
ExchangeInv ==
    /\ \A a \in Login : tab[a] = "exchange" => sent[a] = a
    /\ \A x \in exchanges : x[1] = x[2]

(* Logged out means that both session cookies are gone, readable or not. *)
OutInv == out => session = None /\ ~static

IInv == CookieInv /\ ExchangeInv /\ OutInv

-----------------------------------------------------------------------------
(* The steps, as far as each conjunct is about them *)

LEMMA InitTyped == Init => Typed
  BY DEF Init, Typed, Step

LEMMA StepTyped == Typed /\ [Next]_vars => Typed'
  <1> SUFFICES ASSUME Typed, [Next]_vars PROVE Typed'
    OBVIOUS
  <1> USE DEF Typed
  <1>1. ASSUME NEW a \in Login, NEW s \in Step \cup Answer \cup Rest, Goto(a, s)
        PROVE  tab' \in [Login -> Step \cup Answer \cup Rest]
    BY <1>1 DEF Goto
  <1> DEFINE places == Step \cup Answer \cup Rest
  <1>2. /\ {"none", "login", "provider", "code", "denied", "bare", "again",
            "callback", "refusal", "nothing", "exchange", "validate"} \subseteq places
        /\ {"session_expired", "idp_error", "bad_request", "state_mismatch",
            "bad_gateway", "forbidden", "ok"} \subseteq places
        /\ {"signed_in", "refused", "lost"} \subseteq places
    BY DEF Step, Answer, Rest
  <1> HIDE DEF places
  <1>4. ASSUME NEW a \in Login, BeginLogin(a) \/ SignIn(a) \/ Deny(a)
        PROVE  Typed'
    BY <1>1, <1>2, <1>4 DEF BeginLogin, SignIn, Deny, vars, browser, bars, history, places
  <1>5. CASE \E a \in Login : ExpireState(a)
    BY <1>5 DEF ExpireState, vars, browser, bars, history, places
  <1>6. ASSUME NEW a \in Login, LoginArrives(a) \/ SendCallback(a) \/ SendError(a)
        PROVE  Typed'
    BY <1>1, <1>2, <1>6 DEF LoginArrives, SendCallback, SendError, browser, bars, history, places
  <1>7. ASSUME NEW a \in Login, HandleCallback(a) \/ HandleError(a) \/ HandleNothing(a)
        PROVE  Typed'
    BY <1>1, <1>2, <1>7 DEF HandleCallback, HandleError, HandleNothing,
                              browser, bars, history, places
  <1>8. ASSUME NEW a \in Login, Exchange(a) \/ ExchangeFails(a)
        PROVE  Typed'
    BY <1>1, <1>2, <1>8 DEF Exchange, ExchangeFails, browser, bars, places
  <1>9. ASSUME NEW a \in Login, Validate(a) \/ ValidateFails(a)
        PROVE  Typed'
    BY <1>1, <1>2, <1>9 DEF Validate, ValidateFails, browser, bars, history, places
  <1>10. ASSUME NEW a \in Login, SessionArrives(a) \/ ErrorArrives(a)
         PROVE  Typed'
    BY <1>1, <1>2, <1>10 DEF SessionArrives, ErrorArrives, bars, places
  <1>11. ASSUME NEW a \in Login, SessionLost(a) \/ Reload(a)
         PROVE  Typed'
    BY <1>1, <1>2, <1>11 DEF SessionLost, Reload, browser, bars, history, places
  <1>12. CASE SessionExpires \/ LoginSubmit \/ Logout
    BY <1>12 DEF SessionExpires, LoginSubmit, Logout, bars
  <1>13. CASE UNCHANGED vars
    BY <1>13 DEF vars, browser, bars
  <1> QED
    BY <1>4, <1>5, <1>6, <1>7, <1>8, <1>9, <1>10, <1>11, <1>12, <1>13 DEF Next, Proceed

LEMMA StepCookie == Typed /\ CookieInv /\ [Next]_vars => CookieInv'
  <1> SUFFICES ASSUME Typed, CookieInv, [Next]_vars PROVE CookieInv'
    OBVIOUS
  <1> USE NoneAssumption DEF Typed, CookieInv, Goto, At
  <1>1. ASSUME NEW a \in Login,
               BeginLogin(a) \/ SignIn(a) \/ Deny(a) \/ SendCallback(a) \/ SendError(a)
               \/ Validate(a) \/ ValidateFails(a) \/ SessionLost(a) \/ Reload(a)
        PROVE  CookieInv'
    BY <1>1 DEF BeginLogin, SignIn, Deny, SendCallback, SendError, Validate, ValidateFails,
                SessionLost, Reload, browser, history
  <1>2. ASSUME NEW a \in Login,
               HandleCallback(a) \/ HandleError(a) \/ HandleNothing(a)
               \/ Exchange(a) \/ ExchangeFails(a)
        PROVE  CookieInv'
    BY <1>2 DEF HandleCallback, HandleError, HandleNothing, Exchange, ExchangeFails,
                browser, history
  <1>3. ASSUME NEW a \in Login, LoginArrives(a)
        PROVE  CookieInv'
    BY <1>3 DEF LoginArrives
  <1>4. ASSUME NEW a \in Login, ExpireState(a)
        PROVE  CookieInv'
    BY <1>4 DEF ExpireState
  <1>5. ASSUME NEW a \in Login, SessionArrives(a) \/ ErrorArrives(a)
        PROVE  CookieInv'
    BY <1>5 DEF SessionArrives, ErrorArrives
  <1>6. CASE SessionExpires \/ LoginSubmit \/ Logout
    BY <1>6 DEF SessionExpires, LoginSubmit, Logout
  <1>7. CASE UNCHANGED vars
    BY <1>7 DEF vars, browser
  <1> QED
    BY <1>1, <1>2, <1>3, <1>4, <1>5, <1>6, <1>7 DEF Next, Proceed

LEMMA StepExchange == Typed /\ ExchangeInv /\ [Next]_vars => ExchangeInv'
  <1> SUFFICES ASSUME Typed, ExchangeInv, [Next]_vars PROVE ExchangeInv'
    OBVIOUS
  <1> USE DEF Typed, ExchangeInv, Goto, At
  <1>1. ASSUME NEW a \in Login,
               BeginLogin(a) \/ SignIn(a) \/ Deny(a) \/ SendCallback(a) \/ SendError(a)
               \/ Validate(a) \/ ValidateFails(a) \/ SessionLost(a) \/ Reload(a)
        PROVE  ExchangeInv'
    BY <1>1 DEF BeginLogin, SignIn, Deny, SendCallback, SendError, Validate, ValidateFails,
                SessionLost, Reload, history
  <1>2. ASSUME NEW a \in Login, HandleCallback(a) \/ HandleError(a) \/ HandleNothing(a)
        PROVE  ExchangeInv'
    BY <1>2 DEF HandleCallback, HandleError, HandleNothing, history
  <1>3. ASSUME NEW a \in Login, Exchange(a)
        PROVE  ExchangeInv'
    <2>1. sent[a] = a /\ exchanges' = exchanges \cup {<<a, a>>}
      BY <1>3 DEF Exchange
    <2>2. \A x \in exchanges' : x[1] = x[2]
      BY <2>1
    <2> QED
      BY <1>3, <2>2 DEF Exchange
  <1>4. ASSUME NEW a \in Login, ExchangeFails(a) \/ LoginArrives(a) \/ ExpireState(a)
        PROVE  ExchangeInv'
    BY <1>4 DEF ExchangeFails, LoginArrives, ExpireState, history
  <1>5. ASSUME NEW a \in Login, SessionArrives(a) \/ ErrorArrives(a)
        PROVE  ExchangeInv'
    BY <1>5 DEF SessionArrives, ErrorArrives
  <1>6. CASE SessionExpires \/ LoginSubmit \/ Logout
    BY <1>6 DEF SessionExpires, LoginSubmit, Logout, history
  <1>7. CASE UNCHANGED vars
    BY <1>7 DEF vars, history
  <1> QED
    BY <1>1, <1>2, <1>3, <1>4, <1>5, <1>6, <1>7 DEF Next, Proceed

LEMMA StepOut == OutInv /\ [Next]_vars => OutInv'
  <1> SUFFICES ASSUME OutInv, [Next]_vars PROVE OutInv'
    OBVIOUS
  <1> USE DEF OutInv
  <1>1. ASSUME NEW a \in Login,
               BeginLogin(a) \/ SignIn(a) \/ Deny(a) \/ SendCallback(a) \/ SendError(a)
               \/ Validate(a) \/ ValidateFails(a) \/ SessionLost(a) \/ Reload(a)
        PROVE  OutInv'
    BY <1>1 DEF BeginLogin, SignIn, Deny, SendCallback, SendError, Validate, ValidateFails,
                SessionLost, Reload, browser, history
  <1>2. ASSUME NEW a \in Login,
               HandleCallback(a) \/ HandleError(a) \/ HandleNothing(a)
               \/ Exchange(a) \/ ExchangeFails(a)
        PROVE  OutInv'
    BY <1>2 DEF HandleCallback, HandleError, HandleNothing, Exchange, ExchangeFails,
                browser, history
  <1>3. ASSUME NEW a \in Login, LoginArrives(a) \/ ExpireState(a)
        PROVE  OutInv'
    BY <1>3 DEF LoginArrives, ExpireState, history
  <1>4. ASSUME NEW a \in Login, SessionArrives(a) \/ ErrorArrives(a)
        PROVE  OutInv'
    BY <1>4 DEF SessionArrives, ErrorArrives
  <1>5. CASE SessionExpires \/ LoginSubmit \/ Logout
    BY <1>5 DEF SessionExpires, LoginSubmit, Logout, history
  <1>6. CASE UNCHANGED vars
    BY <1>6 DEF vars, browser, history
  <1> QED
    BY <1>1, <1>2, <1>3, <1>4, <1>5, <1>6 DEF Next, Proceed

-----------------------------------------------------------------------------

LEMMA Inductive == Spec => [](Typed /\ IInv)
  <1>1. Init => Typed /\ IInv
    BY InitTyped DEF Init, IInv, CookieInv, ExchangeInv, OutInv
  <1>2. (Typed /\ IInv) /\ [Next]_vars => (Typed /\ IInv)'
    BY StepTyped, StepCookie, StepExchange, StepOut DEF IInv
  <1> QED
    BY <1>1, <1>2, PTL DEF Spec

(* The cookies are of logins that were begun, and an old state cookie is gone. *)
THEOREM LoginTypeCorrect == Spec => []TypeOK
  <1>1. Typed /\ IInv => TypeOK
    BY DEF Typed, IInv, CookieInv, TypeOK, At
  <1> QED
    BY Inductive, <1>1, PTL

(* A code goes to the provider with the verifier of its own login and no other
   (callback compares the state before exchange_code). *)
THEOREM CodesMeetOwnVerifier == Spec => []OwnVerifier
  <1>1. IInv => OwnVerifier
    BY DEF IInv, ExchangeInv, OwnVerifier
  <1> QED
    BY Inductive, <1>1, PTL

(* After a logout no request of the browser has an account until a login is
   completed (logout clears both cookies). *)
THEOREM LogoutComplete == Spec => []LoggedOut
  <1>1. IInv => LoggedOut
    BY DEF IInv, OutInv, LoggedOut, Identity
  <1> QED
    BY Inductive, <1>1, PTL
=============================================================================
