------------------------ MODULE TokenValidatorProofs ------------------------
(***************************************************************************)
(* Proofs about TokenValidator, for any number of requests, keys and       *)
(* documents: the caches and requests are well formed, and the only way to *)
(* refuse a published key is an older answer under way at the retry.       *)
(***************************************************************************)
EXTENDS TokenValidator, TLAPS

(* known says what its name says: a published key stays so until Retire, which
   looks after the requests. *)
KnownInv ==
    \A r \in Request :
        req[r].known => req[r].token # None /\ req[r].token.kid \in published

(* Only a request that is done has a verdict. *)
VerdictInv == \A r \in Request : req[r].verdict # "none" => At(r, "done")

(* Once a request has emptied the cache and no older answer was under way, all
   that can reach it has its key: the entry, the answers that are still to be
   stored, and what it has read itself. *)
RetryInv ==
    \A r \in Request :
        req[r].known /\ req[r].retried /\ ~req[r].late =>
            /\ jwks # None => req[r].token.kid \in jwks
            /\ \A o \in Request : At(o, "keys") => req[r].token.kid \in req[o].keys
            /\ At(r, "verify") => req[r].token.kid \in req[r].keys

IInv == KnownInv /\ VerdictInv /\ RetryInv /\ KeyRefusedByRace

-----------------------------------------------------------------------------
(* Type correctness *)

(* No request. *)
LEMMA IdleType ==
    /\ Idle \in Call
    /\ Idle.at = "idle" /\ Idle.verdict = "none" /\ ~Idle.known /\ ~Idle.retried
  BY DEF Idle, Call, Step, Verdict

(* A request with a verdict, and one that has come with a token. *)
DoneCall(t, v, k, l) ==
    [Idle EXCEPT !.at = "done", !.token = t, !.verdict = v, !.known = k, !.late = l]
FreshCall(t, k) == [Idle EXCEPT !.at = "well_known", !.token = t, !.known = k]

LEMMA DoneType ==
    ASSUME NEW t \in Token \cup {None}, NEW v \in Verdict,
           NEW k \in BOOLEAN, NEW l \in BOOLEAN
    PROVE  /\ DoneCall(t, v, k, l) \in Call
           /\ DoneCall(t, v, k, l).at = "done"
           /\ DoneCall(t, v, k, l).token = t
           /\ DoneCall(t, v, k, l).verdict = v
           /\ DoneCall(t, v, k, l).known = k
           /\ DoneCall(t, v, k, l).late = l
           /\ ~DoneCall(t, v, k, l).retried
  BY DEF DoneCall, Idle, Call, Step

LEMMA FreshType ==
    ASSUME NEW t \in Token, NEW k \in BOOLEAN
    PROVE  /\ FreshCall(t, k) \in Call
           /\ FreshCall(t, k).at = "well_known"
           /\ FreshCall(t, k).token = t
           /\ FreshCall(t, k).verdict = "none"
           /\ FreshCall(t, k).known = k
           /\ ~FreshCall(t, k).retried
  BY DEF FreshCall, Idle, Call, Step, Verdict

(* What Finish makes of a request. *)
LEMMA FinishType ==
    ASSUME req \in [Request -> Call], NEW r \in Request, NEW v \in Verdict, Finish(r, v)
    PROVE  /\ req' \in [Request -> Call]
           /\ req'[r].at = "done" /\ req'[r].verdict = v /\ ~req'[r].retried
           /\ req'[r].token = req[r].token
           /\ req'[r].known <=> req[r].known /\ v = "kid"
           /\ req'[r].late <=> req[r].late /\ v = "kid"
           /\ \A o \in Request \ {r} : req'[o] = req[o]
  <1> DEFINE k == req[r].known /\ v = "kid"
             l == req[r].late /\ v = "kid"
             c == DoneCall(req[r].token, v, k, l)
  <1>1. req[r].token \in Token \cup {None} /\ k \in BOOLEAN /\ l \in BOOLEAN
    BY DEF Call
  <1>2. req' = [req EXCEPT ![r] = c]
    BY DEF Finish, DoneCall
  <1> HIDE DEF k, l
  <1>3. /\ c \in Call
        /\ c.at = "done" /\ c.token = req[r].token /\ c.verdict = v
        /\ c.known = k /\ c.late = l /\ ~c.retried
    BY <1>1, DoneType
  <1> HIDE DEF c
  <1> QED
    BY <1>2, <1>3 DEF k, l

(* What Arrive makes of a request. *)
LEMMA ArriveType ==
    ASSUME req \in [Request -> Call], NEW r \in Request, Arrive(r)
    PROVE  /\ req' \in [Request -> Call]
           /\ req'[r].at = "well_known" /\ req'[r].verdict = "none" /\ ~req'[r].retried
           /\ req'[r].token \in Token
           /\ req'[r].known => req'[r].token.kid \in published
           /\ \A o \in Request \ {r} : req'[o] = req[o]
  <1>1. PICK t \in Token : req' = [req EXCEPT ![r] =
           [Idle EXCEPT !.at = "well_known", !.token = t,
                        !.known = t.good /\ t.kid \in published]]
    BY DEF Arrive
  <1> DEFINE k == t.good /\ t.kid \in published
             c == FreshCall(t, k)
  <1>2. req' = [req EXCEPT ![r] = c]
    BY <1>1 DEF FreshCall
  <1>3. k \in BOOLEAN /\ (k => t.kid \in published)
    OBVIOUS
  <1> HIDE DEF k
  <1>4. /\ c \in Call /\ c.at = "well_known" /\ c.token = t /\ c.known = k
        /\ c.verdict = "none" /\ ~c.retried
    BY <1>3, FreshType
  <1> HIDE DEF c
  <1> QED
    BY <1>2, <1>3, <1>4

(* So is one that goes to its next step. *)
LEMMA GotoType ==
    ASSUME req \in [Request -> Call], NEW r \in Request, NEW s \in Step, Goto(r, s)
    PROVE  req' \in [Request -> Call] /\ req'[r].at = s /\ req'[r].doc = req[r].doc
           /\ \A o \in Request \ {r} : req'[o] = req[o]
  BY DEF Goto, Call

(* The request that waits for keys is the one that was given a document. *)
LEMMA ContinueType ==
    ASSUME TypeOK, NEW r \in Request, NEW d \in Document, Continue(r, d)
    PROVE  /\ req' \in [Request -> Call]
           /\ req'[r].at \in {"doc", "jwks", "ask_keys", "keys"} => req'[r].doc # None
           /\ \A o \in Request \ {r} : req'[o] = req[o]
  <1>1. CASE d.issuer # "own"
    BY <1>1, FinishType DEF Continue, TypeOK, Verdict
  <1>2. CASE d.issuer = "own" /\ req[r].token = None
    BY <1>2, FinishType DEF Continue, TypeOK, Verdict
  <1>3. CASE d.issuer = "own" /\ req[r].token # None
    BY <1>3, NoneAssumption DEF Continue, TypeOK, Call, Step
  <1> QED
    BY <1>1, <1>2, <1>3

(* A new validator has empty caches. *)
LEMMA InitType == Init => TypeOK
  BY KeyAssumption DEF Init, TypeOK, Key, Idle, Call, Step, Verdict

(* Every step keeps the types. *)
LEMMA StepType == TypeOK /\ [Next]_vars => TypeOK'
  <1> SUFFICES ASSUME TypeOK, [Next]_vars PROVE TypeOK'
    OBVIOUS
  <1> USE DEF TypeOK
  <1>1. CASE Rotate
    <2>1. signing' \in Key /\ published' \subseteq 1 .. signing' /\ signing' \in published'
      BY <1>1, KeyAssumption DEF Rotate, Key
    <2> QED
      BY <1>1, <2>1 DEF Rotate, caches
  <1>2. CASE Retire
    <2> PICK k \in published \ {signing} :
          /\ published' = published \ {k}
          /\ req' = [r \in Request |->
                      IF req[r].token # None /\ req[r].known
                        THEN [req[r] EXCEPT !.known = req[r].token.kid # k]
                        ELSE req[r]]
      BY <1>2 DEF Retire
    <2>1. \A r \in Request : /\ req'[r] \in Call
                             /\ req'[r].at = req[r].at
                             /\ req'[r].doc = req[r].doc
      BY DEF Call
    <2>2. req' \in [Request -> Call]
      BY <2>1
    <2> QED
      BY <1>2, <2>1, <2>2 DEF Retire, caches
  <1>3. CASE Reconfigure
    BY <1>3 DEF Reconfigure, caches
  <1>4. CASE ExpireWellKnown
    BY <1>4 DEF ExpireWellKnown, provider
  <1>5. CASE ExpireJwks
    BY <1>5 DEF ExpireJwks, provider
  <1>6. ASSUME NEW r \in Request, Arrive(r) \/ Discover(r) PROVE TypeOK'
    <2>1. req' \in [Request -> Call] /\ req'[r].at = "well_known"
          /\ \A o \in Request \ {r} : req'[o] = req[o]
      <3>1. CASE Discover(r)
        <4>1. [Idle EXCEPT !.at = "well_known"] \in Call
          BY IdleType DEF Call, Step
        <4> QED
          BY <3>1, <4>1, IdleType DEF Discover, Call
      <3>2. CASE Arrive(r)
        BY <3>2, ArriveType
      <3> QED
        BY <1>6, <3>1, <3>2
    <2> QED
      BY <1>6, <2>1 DEF Arrive, Discover, provider, caches
  <1>7. ASSUME NEW r \in Request, ReadWellKnown(r) PROVE TypeOK'
    <2>1. CASE wellKnown # None
      BY <1>7, <2>1, ContinueType DEF ReadWellKnown, provider, caches
    <2>2. CASE wellKnown = None
      BY <1>7, <2>2, GotoType DEF ReadWellKnown, provider, caches, Step
    <2> QED
      BY <2>1, <2>2
  <1>8. ASSUME NEW r \in Request, AnswerDoc(r) PROVE TypeOK'
    <2>1. req' \in [Request -> Call] /\ req'[r].doc = document
          /\ \A o \in Request \ {r} : req'[o] = req[o]
      <3> DEFINE c == [req[r] EXCEPT !.at = "doc", !.doc = document]
      <3>1. c \in Call /\ c.doc = document
        BY DEF Call, Step
      <3>2. req' = [req EXCEPT ![r] = c]
        BY <1>8 DEF AnswerDoc
      <3> HIDE DEF c
      <3> QED
        BY <3>1, <3>2
    <2> QED
      BY <1>8, <2>1, NoneAssumption DEF AnswerDoc, provider, caches
  <1>9. ASSUME NEW r \in Request, StoreDoc(r) PROVE TypeOK'
    <2>1. req[r].doc \in Document
      BY <1>9 DEF StoreDoc, At, Call
    <2> QED
      BY <1>9, <2>1, ContinueType DEF StoreDoc, provider
  <1>10. ASSUME NEW r \in Request, ReadJwks(r) PROVE TypeOK'
    <2>1. CASE jwks # None
      <3>1. req' \in [Request -> Call] /\ req'[r].at = "verify"
            /\ \A o \in Request \ {r} : req'[o] = req[o]
        BY <1>10, <2>1 DEF ReadJwks, Call, Step
      <3> QED
        BY <1>10, <3>1 DEF ReadJwks, provider, caches
    <2>2. CASE jwks = None
      BY <1>10, <2>2, GotoType DEF ReadJwks, At, provider, caches, Step
    <2> QED
      BY <2>1, <2>2
  <1>11. ASSUME NEW r \in Request, AnswerKeys(r) PROVE TypeOK'
    <2>1. CASE req[r].doc.uri = document.uri
      <3>1. published \subseteq Key
        BY KeyAssumption DEF Key
      <3>2. req' \in [Request -> Call] /\ req'[r].doc = req[r].doc
            /\ \A o \in Request \ {r} : req'[o] = req[o]
        BY <1>11, <2>1, <3>1 DEF AnswerKeys, Call, Step
      <3> QED
        BY <1>11, <3>2 DEF AnswerKeys, At, provider, caches
    <2>2. CASE req[r].doc.uri # document.uri
      BY <1>11, <2>2, FinishType DEF AnswerKeys, provider, caches, Verdict
    <2> QED
      BY <2>1, <2>2
  <1>12. ASSUME NEW r \in Request, StoreKeys(r) PROVE TypeOK'
    <2>1. req[r].keys \in SUBSET Key
      BY DEF Call
    <2> QED
      BY <1>12, <2>1, GotoType DEF StoreKeys, At, provider, Step
  <1>13. ASSUME NEW r \in Request, Verify(r) PROVE TypeOK'
    <2> DEFINE t == req[r].token
    <2>1. CASE t.kid \in req[r].keys \cup {None}
      BY <1>13, <2>1, FinishType DEF Verify, provider, Verdict
    <2>2. CASE t.kid \notin req[r].keys \cup {None} /\ ~req[r].retried
      BY <1>13, <2>2 DEF Verify, At, Retry, Overtaking, provider, Call, Step
    <2>3. CASE t.kid \notin req[r].keys \cup {None} /\ req[r].retried
      BY <1>13, <2>3, FinishType DEF Verify, provider, Verdict
    <2> QED
      BY <2>1, <2>2, <2>3 DEF Call
  <1>14. ASSUME NEW r \in Request, FetchFails(r) PROVE TypeOK'
    BY <1>14, FinishType DEF FetchFails, provider, caches, Verdict
  <1>15. ASSUME NEW r \in Request, Respond(r) \/ Drop(r) PROVE TypeOK'
    <2>1. req' \in [Request -> Call] /\ req'[r].at = "idle"
          /\ \A o \in Request \ {r} : req'[o] = req[o]
      BY <1>15, IdleType DEF Respond, Drop
    <2> QED
      BY <1>15, <2>1 DEF Respond, Drop, provider, caches
  <1>16. CASE UNCHANGED vars
    BY <1>16 DEF vars, provider, caches
  <1> QED
    BY <1>1, <1>2, <1>3, <1>4, <1>5, <1>6, <1>7, <1>8, <1>9, <1>10, <1>11, <1>12,
       <1>13, <1>14, <1>15, <1>16 DEF Next, Serve

(* The caches hold whole answers, and a request that is to fetch keys has the
   document that says where (StoreDoc, ReadWellKnown and the document that
   validate keeps for its retry). *)
THEOREM ValidatorTypeCorrect == Spec => []TypeOK
  BY InitType, StepType, PTL DEF Spec

-----------------------------------------------------------------------------
(* Refusals for the key *)

(* r goes on without keys: it brings no answer to the cache and has read none. *)
Quiet(r) ==
    /\ req'[r].at \notin {"keys", "verify"}
    /\ req'[r].verdict # "none" => At(r, "done")'
    /\ req'[r].verdict # "kid"
    /\ req'[r].known => req'[r].token # None /\ req'[r].token.kid \in published
    /\ req'[r].known /\ req'[r].retried =>
          req[r].known /\ req[r].retried /\ req'[r].late = req[r].late
          /\ req'[r].token = req[r].token

LEMMA QuietKeepsInv ==
    ASSUME TypeOK, IInv, NEW r \in Request, Quiet(r),
           \A o \in Request \ {r} : req'[o] = req[o],
           published' = published, jwks' \in {jwks, None}
    PROVE  IInv'
  <1> USE DEF IInv, Quiet, At
  <1>1. KnownInv'
    BY DEF KnownInv
  <1>2. VerdictInv'
    BY DEF VerdictInv
  <1>3. RetryInv'
    BY DEF RetryInv
  <1>4. KeyRefusedByRace'
    BY DEF KeyRefusedByRace
  <1> QED
    BY <1>1, <1>2, <1>3, <1>4

(* A request that ends without "kid" is quiet. *)
LEMMA FinishQuiet ==
    ASSUME TypeOK, NEW r \in Request, NEW v \in Verdict \ {"kid"}, Finish(r, v)
    PROVE  Quiet(r) /\ \A o \in Request \ {r} : req'[o] = req[o]
  BY FinishType DEF TypeOK, Quiet, At

(* So is one that goes to another step than those with keys. *)
LEMMA GotoQuiet ==
    ASSUME TypeOK, IInv, NEW r \in Request, ~At(r, "done"),
           NEW s \in Step \ {"keys", "verify"}, Goto(r, s)
    PROVE  Quiet(r) /\ \A o \in Request \ {r} : req'[o] = req[o]
  BY DEF TypeOK, IInv, KnownInv, VerdictInv, Quiet, At, Goto, Call

LEMMA ContinueQuiet ==
    ASSUME TypeOK, IInv, NEW r \in Request, ~At(r, "done"),
           NEW d \in Document, Continue(r, d)
    PROVE  Quiet(r) /\ \A o \in Request \ {r} : req'[o] = req[o]
  <1>1. CASE d.issuer # "own"
    BY <1>1, FinishQuiet DEF Continue, Verdict
  <1>2. CASE d.issuer = "own" /\ req[r].token = None
    BY <1>2, FinishQuiet DEF Continue, Verdict
  <1>3. CASE d.issuer = "own" /\ req[r].token # None
    BY <1>3 DEF TypeOK, IInv, KnownInv, VerdictInv, Quiet, At, Continue, Call
  <1> QED
    BY <1>1, <1>2, <1>3

LEMMA InitInv == Init => IInv
  BY IdleType DEF Init, IInv, KnownInv, VerdictInv, RetryInv, KeyRefusedByRace, Idle

(* The provider and time: keys are added, entries vanish, and a key that is
   retired is one that no known request needs any more. *)
LEMMA ProviderKeepsInv ==
    ASSUME TypeOK, IInv, Rotate \/ Retire \/ Reconfigure \/ ExpireWellKnown \/ ExpireJwks
    PROVE  IInv'
  <1> USE DEF IInv, KnownInv, VerdictInv, RetryInv, KeyRefusedByRace, At
  <1>1. CASE Rotate
    BY <1>1 DEF Rotate, caches
  <1>2. CASE Retire
    <2> PICK k \in published \ {signing} :
          /\ published' = published \ {k}
          /\ req' = [r \in Request |->
                      IF req[r].token # None /\ req[r].known
                        THEN [req[r] EXCEPT !.known = req[r].token.kid # k]
                        ELSE req[r]]
      BY <1>2 DEF Retire
    <2>1. \A r \in Request :
            /\ req'[r].known => req[r].known /\ req[r].token.kid # k
            /\ req'[r].at = req[r].at /\ req'[r].token = req[r].token
            /\ req'[r].keys = req[r].keys /\ req'[r].retried = req[r].retried
            /\ req'[r].verdict = req[r].verdict /\ req'[r].late = req[r].late
      BY DEF TypeOK, Call
    <2>2. jwks' = jwks
      BY <1>2 DEF Retire, caches
    <2> QED
      BY <2>1, <2>2
  <1>3. CASE Reconfigure
    BY <1>3 DEF Reconfigure, caches
  <1>4. CASE ExpireWellKnown
    BY <1>4 DEF ExpireWellKnown, provider
  <1>5. CASE ExpireJwks
    BY <1>5 DEF ExpireJwks, provider
  <1> QED
    BY <1>1, <1>2, <1>3, <1>4, <1>5

(* The steps with keys.  An answer from now on has the key of every known
   request, and so has what such a request finds in the cache. *)
LEMMA KeysKeepInv ==
    ASSUME TypeOK, IInv, NEW r \in Request, ReadJwks(r) \/ AnswerKeys(r) \/ StoreKeys(r)
    PROVE  IInv'
  <1> USE DEF IInv
  <1>1. CASE ReadJwks(r) /\ jwks # None
    <2>1. /\ req'[r].at = "verify" /\ req'[r].keys = jwks
          /\ req'[r].token = req[r].token /\ req'[r].known = req[r].known
          /\ req'[r].retried = req[r].retried /\ req'[r].late = req[r].late
          /\ req'[r].verdict = req[r].verdict
          /\ \A o \in Request \ {r} : req'[o] = req[o]
      BY <1>1 DEF ReadJwks, TypeOK, Call
    <2>2. published' = published /\ jwks' = jwks /\ req[r].at = "jwks"
      BY <1>1 DEF ReadJwks, At, provider, caches
    <2> QED
      BY <1>1, <2>1, <2>2 DEF KnownInv, VerdictInv, RetryInv, KeyRefusedByRace, At
  <1>2. CASE ReadJwks(r) /\ jwks = None
    BY <1>2, GotoQuiet, QuietKeepsInv DEF ReadJwks, At, provider, caches, Step
  <1>3. CASE AnswerKeys(r) /\ req[r].doc.uri = document.uri
    <2>1. /\ req'[r].at = "keys" /\ req'[r].keys = published
          /\ req'[r].token = req[r].token /\ req'[r].known = req[r].known
          /\ req'[r].retried = req[r].retried /\ req'[r].late = req[r].late
          /\ req'[r].verdict = req[r].verdict
          /\ \A o \in Request \ {r} : req'[o] = req[o]
      BY <1>3 DEF AnswerKeys, TypeOK, Call
    <2>2. published' = published /\ jwks' = jwks /\ req[r].at = "ask_keys"
      BY <1>3 DEF AnswerKeys, At, provider, caches
    <2> QED
      BY <2>1, <2>2 DEF KnownInv, VerdictInv, RetryInv, KeyRefusedByRace, At
  <1>4. CASE AnswerKeys(r) /\ req[r].doc.uri # document.uri
    BY <1>4, FinishQuiet, QuietKeepsInv DEF AnswerKeys, provider, caches, Verdict
  <1>5. CASE StoreKeys(r)
    <2>1. /\ req'[r].at = "verify" /\ req'[r].keys = req[r].keys
          /\ req'[r].token = req[r].token /\ req'[r].known = req[r].known
          /\ req'[r].retried = req[r].retried /\ req'[r].late = req[r].late
          /\ req'[r].verdict = req[r].verdict
          /\ \A o \in Request \ {r} : req'[o] = req[o]
      BY <1>5 DEF StoreKeys, Goto, TypeOK, Call
    <2>2. published' = published /\ jwks' = req[r].keys /\ req[r].at = "keys"
      BY <1>5 DEF StoreKeys, At, provider
    <2> QED
      BY <2>1, <2>2 DEF KnownInv, VerdictInv, RetryInv, KeyRefusedByRace, At
  <1> QED
    BY <1>1, <1>2, <1>3, <1>4, <1>5

(* The decision: the retry starts with an empty cache, and notes whether an older
   answer is under way; a second "kid" is one that RetryInv explains. *)
LEMMA VerifyKeepsInv ==
    ASSUME TypeOK, IInv, NEW r \in Request, Verify(r)
    PROVE  IInv'
  <1> USE DEF IInv
  <1> DEFINE t == req[r].token
  <1>0. published' = published /\ req[r].at = "verify"
    BY DEF Verify, At, provider
  <1>1. CASE t.kid \in req[r].keys \cup {None}
    BY <1>0, <1>1, FinishQuiet, QuietKeepsInv DEF Verify, Verdict
  <1>2. CASE t.kid \notin req[r].keys \cup {None} /\ ~req[r].retried
    <2>1. Retry(r)
      BY <1>2 DEF Verify
    <2>2. /\ req'[r].at = "jwks" /\ req'[r].late = Overtaking(r)
          /\ req'[r].token = req[r].token /\ req'[r].known = req[r].known
          /\ req'[r].verdict = req[r].verdict
          /\ \A o \in Request \ {r} : req'[o] = req[o]
      BY <2>1 DEF Retry, TypeOK, Call
    <2>3. jwks' = None
      BY <2>1 DEF Retry
    <2>4. ~req'[r].late => \A o \in Request :
              req'[o].at = "keys" => req'[r].token.kid \in req'[o].keys
      BY <2>2 DEF Overtaking, At
    <2>5. KnownInv' /\ VerdictInv' /\ KeyRefusedByRace'
      BY <1>0, <2>2 DEF KnownInv, VerdictInv, KeyRefusedByRace, At
    <2>6. RetryInv'
      BY <2>2, <2>3, <2>4 DEF RetryInv, At
    <2> QED
      BY <2>5, <2>6
  <1>3. CASE t.kid \notin req[r].keys \cup {None} /\ req[r].retried
    <2>1. Finish(r, "kid") /\ jwks' = jwks
      BY <1>3 DEF Verify
    <2>2. /\ req'[r].at = "done" /\ ~req'[r].retried
          /\ req'[r].token = req[r].token
          /\ req'[r].known <=> req[r].known
          /\ req'[r].late <=> req[r].late
          /\ \A o \in Request \ {r} : req'[o] = req[o]
      BY <2>1, FinishType DEF TypeOK, Verdict
    <2>3. req[r].known => req[r].late
      BY <1>0, <1>3 DEF RetryInv, At
    <2> QED
      BY <1>0, <2>1, <2>2, <2>3 DEF KnownInv, VerdictInv, RetryInv, KeyRefusedByRace, At
  <1> QED
    BY <1>1, <1>2, <1>3 DEF Verify

LEMMA StepInv == TypeOK /\ IInv /\ [Next]_vars => IInv'
  <1> SUFFICES ASSUME TypeOK, IInv, [Next]_vars PROVE IInv'
    OBVIOUS
  <1>1. CASE Rotate \/ Retire \/ Reconfigure \/ ExpireWellKnown \/ ExpireJwks
    BY <1>1, ProviderKeepsInv
  <1>2. ASSUME NEW r \in Request, ReadJwks(r) \/ AnswerKeys(r) \/ StoreKeys(r) PROVE IInv'
    BY <1>2, KeysKeepInv
  <1>3. ASSUME NEW r \in Request, Verify(r) PROVE IInv'
    BY <1>3, VerifyKeepsInv
  <1>4. ASSUME NEW r \in Request, Arrive(r) PROVE IInv'
    <2>1. Quiet(r) /\ \A o \in Request \ {r} : req'[o] = req[o]
      BY <1>4, ArriveType, NoneAssumption DEF TypeOK, Quiet
    <2> QED
      BY <1>4, <2>1, QuietKeepsInv DEF Arrive, provider, caches
  <1>5. ASSUME NEW r \in Request, Discover(r) \/ Respond(r) \/ Drop(r) PROVE IInv'
    <2>1. Quiet(r) /\ \A o \in Request \ {r} : req'[o] = req[o]
      BY <1>5, IdleType DEF Discover, Respond, Drop, TypeOK, Quiet, Call
    <2> QED
      BY <1>5, <2>1, QuietKeepsInv DEF Discover, Respond, Drop, provider, caches
  <1>6. ASSUME NEW r \in Request, ReadWellKnown(r) PROVE IInv'
    <2>1. published' = published /\ jwks' = jwks /\ ~At(r, "done")
      BY <1>6 DEF ReadWellKnown, At, provider, caches
    <2>2. CASE wellKnown # None
      BY <1>6, <2>1, <2>2, ContinueQuiet, QuietKeepsInv DEF ReadWellKnown, TypeOK
    <2>3. CASE wellKnown = None
      BY <1>6, <2>1, <2>3, GotoQuiet, QuietKeepsInv DEF ReadWellKnown, Step
    <2> QED
      BY <2>2, <2>3
  <1>7. ASSUME NEW r \in Request, AnswerDoc(r) PROVE IInv'
    <2>1. Quiet(r) /\ \A o \in Request \ {r} : req'[o] = req[o]
      BY <1>7 DEF AnswerDoc, At, TypeOK, IInv, KnownInv, VerdictInv, Quiet, Call
    <2> QED
      BY <1>7, <2>1, QuietKeepsInv DEF AnswerDoc, provider, caches
  <1>8. ASSUME NEW r \in Request, StoreDoc(r) PROVE IInv'
    <2>1. req[r].doc \in Document /\ ~At(r, "done")
      BY <1>8 DEF StoreDoc, At, TypeOK, Call
    <2> QED
      BY <1>8, <2>1, ContinueQuiet, QuietKeepsInv DEF StoreDoc, provider
  <1>9. ASSUME NEW r \in Request, FetchFails(r) PROVE IInv'
    BY <1>9, FinishQuiet, QuietKeepsInv DEF FetchFails, provider, caches, Verdict
  <1>10. CASE UNCHANGED vars
    BY <1>10 DEF vars, provider, caches, IInv, KnownInv, VerdictInv, RetryInv,
                KeyRefusedByRace, At
  <1> QED
    BY <1>1, <1>2, <1>3, <1>4, <1>5, <1>6, <1>7, <1>8, <1>9, <1>10 DEF Next, Serve

(* A token whose key was published from its arrival to its refusal is refused as
   unknown only when, at the retry of validate, another request held an answer
   of fetch_jwks from before the key was there. *)
THEOREM RefusedByRaceOnly == Spec => []KeyRefusedByRace
  <1>1. IInv => KeyRefusedByRace
    BY DEF IInv
  <1> QED
    BY <1>1, InitInv, StepInv, ValidatorTypeCorrect, PTL DEF Spec

=============================================================================
