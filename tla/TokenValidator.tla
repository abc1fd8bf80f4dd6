--------------------------- MODULE TokenValidator ---------------------------
(***************************************************************************)
(* The token validation of the server (oidc.rs).                           *)
(*                                                                         *)
(* All requests share one cache for the discovery document and one for the *)
(* key set (JWKS) of the identity provider.  No lock is held while the     *)
(* provider is asked, so that answers are stored in any order, and the     *)
(* future of a request may be dropped at every await.                      *)
(*                                                                         *)
(* Keys are numbered in the order the provider makes them.  A token is the *)
(* kid of its header and whether signature and claims are right.  A cache  *)
(* holds what was fetched until it is too old to be read: an old entry is  *)
(* no entry, for nothing but its age keeps it from being used.  A restart  *)
(* of the server is old entries and dropped requests.                      *)
(***************************************************************************)
EXTENDS Naturals

CONSTANTS
    Request,        \* requests in flight at the server
    Document,       \* discovery documents: issuer "own" (the configured one)
                    \* or "other", and uri, where the keys are
    Token,          \* bearer tokens: kid of the header, None when it has
                    \* none, and good, whether signature and claims are right
    None,           \* no entry, no document, no kid
    MaxKey,         \* bound on the keys the provider makes
    MaxMoves        \* bound on the documents the provider puts up

ASSUME KeyAssumption == MaxKey \in Nat \ {0}
ASSUME DocumentAssumption == \A d \in Document : d.issuer \in {"own", "other"}
ASSUME TokenAssumption ==
    \A t \in Token : t.kid \in (1 .. MaxKey) \cup {None} /\ t.good \in BOOLEAN
ASSUME NoneAssumption == None \notin Document /\ None \notin Token /\ None \notin 1 .. MaxKey
ASSUME MovesAssumption == MaxMoves \in Nat

VARIABLES
    signing,    \* provider: key of new tokens
    published,  \*   keys in its JWKS
    document,   \*   its discovery document
    wellKnown,  \* well_known_cache
    jwks,       \* jwks_cache
    req,        \* the requests
    moves

provider == <<signing, published, document>>
caches == <<wellKnown, jwks>>
vars == <<provider, caches, req, moves>>

-----------------------------------------------------------------------------

Key == 1 .. MaxKey

Step == {"idle", "well_known", "ask_doc", "doc", "jwks", "ask_keys", "keys",
         "verify", "done"}
Verdict == {"none", "endpoints", "accepted", "issuer", "fetch", "down",
            "claims", "kid"}

\* known and late are history: whether the key of the token was published all
\* the time, and whether another request's answer was under way when this one
\* emptied the cache.
Call == [at : Step, token : Token \cup {None}, doc : Document \cup {None},
         keys : SUBSET Key, retried : BOOLEAN, verdict : Verdict,
         known : BOOLEAN, late : BOOLEAN]

Idle == [at |-> "idle", token |-> None, doc |-> None, keys |-> {},
         retried |-> FALSE, verdict |-> "none", known |-> FALSE, late |-> FALSE]

At(r, step) == req[r].at = step
Goto(r, step) == req' = [req EXCEPT ![r].at = step]
Finish(r, verdict) ==
    req' = [req EXCEPT ![r] =
      [Idle EXCEPT !.at = "done", !.token = req[r].token, !.verdict = verdict,
                   !.known = req[r].known /\ verdict = "kid",
                   !.late = req[r].late /\ verdict = "kid"]]

Init ==
    /\ signing = 1
    /\ published = {1}
    /\ document \in {d \in Document : d.uri = 1}   \* without loss of generality
    /\ wellKnown = None
    /\ jwks = None
    /\ req = [r \in Request |-> Idle]
    /\ moves = 0

-----------------------------------------------------------------------------
(* The provider, and time *)

\* A new key signs from now on and is published beside the older ones.
Rotate ==
    /\ signing < MaxKey
    /\ signing' = signing + 1
    /\ published' = published \cup {signing'}
    /\ UNCHANGED <<document, caches, req, moves>>

\* An older key is taken out of the key set.
Retire ==
    \E k \in published \ {signing} :
        /\ published' = published \ {k}
        /\ req' = [r \in Request |->
                      IF req[r].token # None /\ req[r].known
                        THEN [req[r] EXCEPT !.known = req[r].token.kid # k]
                        ELSE req[r]]
        /\ UNCHANGED <<signing, document, caches, moves>>

\* The provider is configured anew: another issuer, another address of its keys.
Reconfigure ==
    /\ moves < MaxMoves
    /\ moves' = moves + 1
    /\ document' \in Document \ {document}
    /\ UNCHANGED <<signing, published, caches, req>>

\* Plausible bug: the age of the entry is not looked at.
ExpireWellKnownNever == FALSE /\ UNCHANGED vars

\* 3600 s after the entry was stored.
ExpireWellKnown ==
    /\ wellKnown # None
    /\ wellKnown' = None
    /\ UNCHANGED <<provider, jwks, req, moves>>

\* 300 s after the entry was stored.
ExpireJwks ==
    /\ jwks # None
    /\ jwks' = None
    /\ UNCHANGED <<provider, wellKnown, req, moves>>

-----------------------------------------------------------------------------
(* validate and discovery *)

\* A token the provider has signed, perhaps with a key it has retired since, one
\* that is expired or for somebody else, or one without kid.
Arrive(r) ==
    /\ At(r, "idle")
    /\ \E t \in Token :
        /\ t.kid \in (1 .. signing) \cup {None}
        /\ req' = [req EXCEPT ![r] =
             [Idle EXCEPT !.at = "well_known", !.token = t,
                          !.known = t.good /\ t.kid \in published]]
    /\ UNCHANGED <<provider, caches, moves>>

\* The login page asks for the endpoints: discovery, without a token.
Discover(r) ==
    /\ At(r, "idle")
    /\ req' = [req EXCEPT ![r] = [Idle EXCEPT !.at = "well_known"]]
    /\ UNCHANGED <<provider, caches, moves>>

\* What follows fetch_well_known: the issuer is compared, hit or not.
Continue(r, doc) ==
    IF doc.issuer # "own" THEN Finish(r, "issuer")
    ELSE IF req[r].token = None THEN Finish(r, "endpoints")
    ELSE req' = [req EXCEPT ![r].at = "jwks", ![r].doc = doc]

\* fetch_well_known looks into the cache ...
ReadWellKnown(r) ==
    /\ At(r, "well_known")
    /\ IF wellKnown # None THEN Continue(r, wellKnown) ELSE Goto(r, "ask_doc")
    /\ UNCHANGED <<provider, caches, moves>>

\* ... and else asks the provider, which answers with its document of that
\* moment;
AnswerDoc(r) ==
    /\ At(r, "ask_doc")
    /\ req' = [req EXCEPT ![r].at = "doc", ![r].doc = document]
    /\ UNCHANGED <<provider, caches, moves>>

\* the answer, whenever it arrives, replaces the entry, and only then its
\* issuer is compared.
StoreDoc(r) ==
    /\ At(r, "doc")
    /\ wellKnown' = req[r].doc
    /\ Continue(r, req[r].doc)
    /\ UNCHANGED <<provider, jwks, moves>>

\* fetch_jwks looks into the cache ...
ReadJwks(r) ==
    /\ At(r, "jwks")
    /\ IF jwks # None
         THEN req' = [req EXCEPT ![r].at = "verify", ![r].keys = jwks]
         ELSE Goto(r, "ask_keys")
    /\ UNCHANGED <<provider, caches, moves>>

\* ... and else asks at the address in the document it was given.
AnswerKeys(r) ==
    /\ At(r, "ask_keys")
    /\ IF req[r].doc.uri = document.uri
         THEN req' = [req EXCEPT ![r].at = "keys", ![r].keys = published]
         ELSE Finish(r, "fetch")
    /\ UNCHANGED <<provider, caches, moves>>

StoreKeys(r) ==
    /\ At(r, "keys")
    /\ jwks' = req[r].keys
    /\ Goto(r, "verify")
    /\ UNCHANGED <<provider, wellKnown, moves>>

\* A fetch fails: no connection, no answer, no JSON.  Nothing is cached.
FetchFails(r) ==
    /\ req[r].at \in {"ask_doc", "ask_keys"}
    /\ Finish(r, "down")
    /\ UNCHANGED <<provider, caches, moves>>

\* Another request holds an older answer that lacks the key.
Overtaking(r) ==
    \E o \in Request \ {r} : At(o, "keys") /\ req[r].token.kid \notin req[o].keys

\* invalidate_cache, and the second fetch_jwks.
Retry(r) ==
    /\ jwks' = None
    /\ req' = [req EXCEPT ![r].at = "jwks", ![r].retried = TRUE, ![r].keys = {},
                          ![r].late = Overtaking(r)]

\* Plausible bug: the retry reads the entry that lacks the key again.
VerifyKeepsCache(r) ==
    LET t == req[r].token IN
    /\ At(r, "verify")
    /\ \/ /\ t.kid \in req[r].keys \cup {None}
          /\ Finish(r, IF t.good THEN "accepted" ELSE "claims")
          /\ UNCHANGED jwks
       \/ /\ t.kid \notin req[r].keys \cup {None}
          /\ IF req[r].retried
               THEN Finish(r, "kid")
               ELSE req' = [req EXCEPT ![r].at = "jwks", ![r].retried = TRUE]
          /\ UNCHANGED jwks
    /\ UNCHANGED <<provider, wellKnown, moves>>

\* Plausible bug: a key that stays unknown is looked for again and again.
VerifyForever(r) ==
    LET t == req[r].token IN
    /\ At(r, "verify")
    /\ \/ /\ t.kid \in req[r].keys \cup {None}
          /\ Finish(r, IF t.good THEN "accepted" ELSE "claims")
          /\ UNCHANGED jwks
       \/ /\ t.kid \notin req[r].keys \cup {None}
          /\ Retry(r)
    /\ UNCHANGED <<provider, wellKnown, moves>>

\* validate_jwt: a token without kid is refused, one with a known kid decided,
\* and for one with an unknown kid the keys are fetched once more.
Verify(r) ==
    LET t == req[r].token IN
    /\ At(r, "verify")
    /\ \/ /\ t.kid \in req[r].keys \cup {None}
          /\ Finish(r, IF t.good THEN "accepted" ELSE "claims")
          /\ UNCHANGED jwks
       \/ /\ t.kid \notin req[r].keys \cup {None}
          /\ ~req[r].retried
          /\ Retry(r)
       \/ /\ t.kid \notin req[r].keys \cup {None}
          /\ req[r].retried
          /\ Finish(r, "kid")
          /\ UNCHANGED jwks
    /\ UNCHANGED <<provider, wellKnown, moves>>

\* The handler goes on with the verdict ...
Respond(r) ==
    /\ At(r, "done")
    /\ req' = [req EXCEPT ![r] = Idle]
    /\ UNCHANGED <<provider, caches, moves>>

\* ... or the client closes its connection, and the future is dropped.
Drop(r) ==
    /\ req[r].at \notin {"idle", "done"}
    /\ req' = [req EXCEPT ![r] = Idle]
    /\ UNCHANGED <<provider, caches, moves>>

-----------------------------------------------------------------------------

Serve(r) ==
    \/ ReadWellKnown(r) \/ AnswerDoc(r) \/ StoreDoc(r)
    \/ ReadJwks(r) \/ AnswerKeys(r) \/ StoreKeys(r)
    \/ Verify(r) \/ Respond(r)

Next ==
    \/ Rotate \/ Retire \/ Reconfigure
    \/ ExpireWellKnown \/ ExpireJwks
    \/ \E r \in Request :
        Arrive(r) \/ Discover(r) \/ Serve(r) \/ FetchFails(r) \/ Drop(r)

Spec == Init /\ [][Next]_vars

\* A handler runs on, the provider answers in the end, and time passes.
FairSpec ==
    /\ Spec
    /\ \A r \in Request : WF_vars(Serve(r))
    /\ WF_vars(ExpireWellKnown)
    /\ WF_vars(ExpireJwks)

-----------------------------------------------------------------------------
(* Properties *)

\* The caches hold whole answers, and requests what their step needs.
TypeOK ==
    /\ signing \in Key
    /\ published \subseteq 1 .. signing
    /\ signing \in published
    /\ document \in Document
    /\ wellKnown \in Document \cup {None}
    /\ jwks \in (SUBSET Key) \cup {None}
    /\ req \in [Request -> Call]
    /\ \A r \in Request :
        req[r].at \in {"doc", "jwks", "ask_keys", "keys"} => req[r].doc # None

\* A token whose key the provider published all the time is refused for its key
\* only by a race: an answer from before the key existed, still under way when
\* the request emptied the cache, was stored before it looked again.
KeyRefusedByRace ==
    \A r \in Request : req[r].verdict = "kid" /\ req[r].known => req[r].late

\* What a validator without caches would say.
Exact(r) ==
    /\ document.issuer = "own"
    /\ req[r].token.good
    /\ req[r].token.kid \in published

\* When the provider is left alone and its answers arrive, the verdicts become
\* those of a validator without caches: no entry, stored late or wrong, is used
\* for ever.
EventuallyExact ==
    <>[](\A r \in Request :
            At(r, "done") /\ req[r].token # None /\ req[r].verdict # "down" =>
                (req[r].verdict = "accepted" <=> Exact(r)))

\* A request is decided or dropped, whatever the provider answers.
ValidationEnds ==
    \A r \in Request : req[r].at \notin {"idle", "done"} ~> req[r].at \in {"idle", "done"}
=============================================================================
