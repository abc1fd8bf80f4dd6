-------------------------- MODULE ClientLoginProofs --------------------------
(***************************************************************************)
(* Proofs about ClientLogin, for any number of processes and requests, any *)
(* lifetimes and any bounds: the configuration stays whole, a bearer token *)
(* is valid when it goes out, and a refused refresh is explained.          *)
(***************************************************************************)
EXTENDS ClientLogin, TLAPS

Commands == {"none", "init", "loopback", "device", "sync"}
Codes == {"none", "pending", "approved", "denied"}
Run == [cmd : Commands, at : Step, first : BOOLEAN, id : 0 .. MaxCommands]
Flow == [left : Nat, sleep : Nat, interval : Nat, codeLeft : Nat, code : Codes]
Kept == Session \cup {None, Static}
File == Session \cup {None, Static, Torn}

-----------------------------------------------------------------------------
(* What the helpers do *)

LEMMA IdleTypes == Idle \in Run /\ NoFlow \in Flow /\ Todo \in [Req -> Status]
  BY BoundsAssumption DEF Idle, Run, Commands, Step, LoginStep, SyncStep, NoFlow, Flow, Codes,
     Todo, Status

LEMMA GotoFacts ==
    ASSUME run \in [Proc -> Run], NEW p \in Proc, NEW s \in Step, Goto(p, s)
    PROVE  /\ run' \in [Proc -> Run]
           /\ run'[p].at = s /\ run'[p].id = run[p].id /\ run'[p].cmd = run[p].cmd
           /\ \A q \in Proc \ {p} : run'[q] = run[q]
  BY DEF Goto, Run

LEMMA EndFacts ==
    ASSUME TypeOK, NEW p \in Proc, End(p)
    PROVE  /\ run' \in [Proc -> Run]
           /\ run'[p].at = "idle"
           /\ flow' \in [Proc -> Flow]
           /\ mem' \in [Proc -> Kept] /\ mem'[p] = None
           /\ answer' \in [Proc -> Session \cup {None}] /\ answer'[p] = None
           /\ req' \in [Proc -> [Req -> Status]]
           /\ \A r \in Req : req'[p][r] = "todo"
           /\ db' \in Proc \cup {None}
           /\ missed' = missed \ {p}
           /\ \A q \in Proc \ {p} : /\ run'[q] = run[q] /\ mem'[q] = mem[q]
                                    /\ answer'[q] = answer[q] /\ req'[q] = req[q]
  <1>1. /\ run \in [Proc -> Run] /\ flow \in [Proc -> Flow] /\ mem \in [Proc -> Kept]
        /\ answer \in [Proc -> Session \cup {None}] /\ req \in [Proc -> [Req -> Status]]
        /\ db \in Proc \cup {None}
    BY DEF TypeOK, Run, Commands, Flow, Codes, Kept
  <1>2. Idle \in Run /\ NoFlow \in Flow /\ Todo \in [Req -> Status]
    BY IdleTypes
  <1>3. Idle.at = "idle" /\ \A r \in Req : Todo[r] = "todo"
    BY DEF Idle, Todo
  <1>4. /\ run' = [run EXCEPT ![p] = Idle] /\ flow' = [flow EXCEPT ![p] = NoFlow]
        /\ mem' = [mem EXCEPT ![p] = None] /\ answer' = [answer EXCEPT ![p] = None]
        /\ req' = [req EXCEPT ![p] = Todo]
        /\ db' = IF db = p THEN None ELSE db
        /\ missed' = missed \ {p}
    BY DEF End
  <1> HIDE DEF Idle, NoFlow, Todo
  <1> QED
    BY <1>1, <1>2, <1>3, <1>4 DEF Kept

LEMMA SetReqFacts ==
    ASSUME req \in [Proc -> [Req -> Status]], NEW p \in Proc, NEW r \in Req,
           NEW s \in Status, SetReq(p, r, s)
    PROVE  /\ req' \in [Proc -> [Req -> Status]]
           /\ req'[p][r] = s
           /\ \A q \in Req \ {r} : req'[p][q] = req[p][q]
           /\ \A q \in Proc \ {p} : req'[q] = req[q]
  BY DEF SetReq

LEMMA FlowFacts ==
    ASSUME NEW f \in Flow, NEW i \in Nat
    PROVE  /\ \A c \in Codes : [f EXCEPT !.code = c] \in Flow
           /\ [f EXCEPT !.left = i] \in Flow
           /\ [f EXCEPT !.interval = i, !.sleep = i] \in Flow
           /\ [f EXCEPT !.code = "pending", !.codeLeft = CodeLifetime] \in Flow
           /\ [f EXCEPT !.left = CodeLifetime, !.sleep = Interval,
                        !.interval = Interval] \in Flow
  BY TimesAssumption DEF Flow, Codes

(* Time changes neither what a session is nor its token. *)
LEMMA AgeFacts ==
    ASSUME NEW s \in File
    PROVE  /\ Age(s) \in File
           /\ s \in Kept => Age(s) \in Kept
           /\ IsSession(Age(s)) <=> IsSession(s)
           /\ IsSession(s) => Age(s) \in Session /\ Age(s).token = s.token
           /\ ~IsSession(s) => Age(s) = s
  <1>1. CASE IsSession(s)
    <2>1. s \in Session
      BY <1>1 DEF IsSession, File
    <2>2. Less(s.left) \in 0 .. Lifetime
      BY <2>1, TimesAssumption DEF Session, Less
    <2>3. Age(s) = [s EXCEPT !.left = Less(s.left)]
      BY <1>1 DEF Age
    <2>4. Age(s) \in Session /\ Age(s).token = s.token
      BY <2>1, <2>2, <2>3 DEF Session
    <2> QED
      BY <1>1, <2>4, MarkersAssumption DEF IsSession, File, Kept
  <1>2. CASE ~IsSession(s)
    BY <1>2 DEF Age
  <1> QED
    BY <1>1, <1>2

LEMMA DelayFacts ==
    ASSUME NEW s \in File
    PROVE  /\ Delay(s) \in File
           /\ s \in Kept => Delay(s) \in Kept
           /\ IsSession(Delay(s)) <=> IsSession(s)
           /\ IsSession(s) => /\ Delay(s) \in Session
                              /\ Delay(s).token = s.token /\ Delay(s).left = s.left
           /\ ~IsSession(s) => Delay(s) = s
  <1>1. CASE IsSession(s) /\ s.late < Lifetime
    <2>1. s \in Session
      BY <1>1 DEF IsSession, File
    <2>2. s.late + 1 \in 0 .. Lifetime
      BY <1>1, <2>1, TimesAssumption DEF Session
    <2>3. Delay(s) = [s EXCEPT !.late = s.late + 1]
      BY <1>1 DEF Delay
    <2>4. Delay(s) \in Session /\ Delay(s).token = s.token /\ Delay(s).left = s.left
      BY <2>1, <2>2, <2>3 DEF Session
    <2> QED
      BY <1>1, <2>4, MarkersAssumption DEF IsSession, File, Kept
  <1>2. CASE ~(IsSession(s) /\ s.late < Lifetime)
    BY <1>2 DEF Delay, IsSession, File
  <1> QED
    BY <1>1, <1>2

LEMMA FreshType ==
    ASSUME NEW c \in Chain, NEW n \in 0 .. Lifetime
    PROVE  /\ Fresh(c, n) \in Session
           /\ Fresh(c, n).token # None => Fresh(c, n).token.gen = 0
  BY TimesAssumption, BoundsAssumption DEF Fresh, Session, Token

-----------------------------------------------------------------------------
(* Type correctness *)

LEMMA InitType == Init => TypeOK
  <1> SUFFICES ASSUME Init PROVE TypeOK
    OBVIOUS
  <1>1. file \in Session \cup {None}
    <2>1. 0 \in Chain
      BY BoundsAssumption DEF Chain
    <2> QED
      BY <2>1, FreshType DEF Init
  <1>2. run \in [Proc -> Run] /\ flow \in [Proc -> Flow] /\ req \in [Proc -> [Req -> Status]]
    BY IdleTypes DEF Init
  <1>3. mem \in [Proc -> Kept] /\ answer \in [Proc -> Session \cup {None}]
    BY DEF Init, Kept
  <1>4. newest \in [Chain -> 0 .. MaxRenewals] /\ spender \in [Chain -> 0 .. MaxCommands]
    BY BoundsAssumption DEF Init
  <1>5. /\ dir \in BOOLEAN /\ db = None /\ ended = {} /\ commands \in 0 .. MaxCommands
        /\ hurt = {} /\ missed = {} /\ spoiled = FALSE
    BY BoundsAssumption DEF Init
  <1> QED
    BY <1>1, <1>2, <1>3, <1>4, <1>5 DEF TypeOK, Run, Flow, Kept, Commands, Codes

(* The steps of a login and of the set-up of a sync. *)
LEMMA LocalType == ASSUME TypeOK, NEW p \in Proc, Local(p) PROVE TypeOK'
  <1> USE DEF TypeOK
  <1>1. run \in [Proc -> Run] /\ flow \in [Proc -> Flow]
    BY DEF Run, Flow, Commands, Codes
  <1>2. CASE MakeDir(p)
    <2>1. Goto(p, IF run[p].cmd = "init" THEN "open_config" ELSE "info")
      BY <1>2 DEF MakeDir
    <2>2. run' \in [Proc -> Run]
      BY <1>1, <2>1, GotoFacts DEF Step, LoginStep
    <2>3. flow' \in [Proc -> Flow]
      <3>1. flow' = flow \/ flow' = [flow EXCEPT ![p].left = LoginTimeout]
        BY <1>2 DEF MakeDir
      <3>2. [flow[p] EXCEPT !.left = LoginTimeout] \in Flow
        BY <1>1, FlowFacts, TimesAssumption
      <3> QED
        BY <1>1, <3>1, <3>2
    <2>4. mem' \in [Proc -> Kept]
      BY <1>2 DEF MakeDir, Kept
    <2> QED
      BY <1>2, <2>2, <2>3, <2>4 DEF MakeDir, provider, history, Run, Flow, Kept, Commands, Codes
  <1>3. CASE Timeout(p)
    BY <1>3, EndFacts DEF Timeout, provider, Run, Flow, Kept, Commands, Codes
  <1>4. CASE Wake(p)
    <2>1. CASE End(p)
      BY <1>4, <2>1, EndFacts DEF Wake, provider, Run, Flow, Kept, Commands, Codes
    <2>2. CASE Goto(p, "poll") /\ UNCHANGED <<db, flow, mem, answer, req, missed>>
      <3>1. run' \in [Proc -> Run]
        BY <1>1, <2>2, GotoFacts DEF Step, LoginStep
      <3> QED
        BY <1>4, <2>2, <3>1 DEF Wake, provider, Run, Commands
    <2> QED
      BY <1>4, <2>1, <2>2 DEF Wake
  <1>5. CASE OpenConfig(p)
    <2>1. run' \in [Proc -> Run]
      BY <1>1, <1>5, GotoFacts DEF OpenConfig, Step, LoginStep
    <2> QED
      BY <1>5, <2>1 DEF OpenConfig, provider, Run, Commands
  <1>6. CASE WriteConfig(p)
    <2>1. file' \in File /\ spoiled' \in BOOLEAN
      BY <1>6 DEF WriteConfig, File
    <2>2. CASE End(p)
      BY <1>6, <2>1, <2>2, EndFacts DEF WriteConfig, provider, Run, Flow, Kept, File, Commands, Codes
    <2>3. CASE Goto(p, "open_db") /\ UNCHANGED <<db, flow, mem, answer, req, missed>>
      <3>1. run' \in [Proc -> Run]
        BY <1>1, <2>3, GotoFacts DEF Step
      <3> QED
        BY <1>6, <2>1, <2>3, <3>1 DEF WriteConfig, provider, Run, Commands, File
    <2> QED
      BY <1>6, <2>2, <2>3 DEF WriteConfig
  <1>7. CASE LoadConfig(p)
    <2>1. CASE End(p)
      BY <1>7, <2>1, EndFacts DEF LoadConfig, provider, Run, Flow, Kept, Commands, Codes
    <2>2. CASE /\ file \notin {None, Torn}
               /\ mem' = [mem EXCEPT ![p] = file]
               /\ Goto(p, "open_db")
               /\ UNCHANGED <<db, flow, answer, req, missed>>
      <3>1. run' \in [Proc -> Run]
        BY <1>1, <2>2, GotoFacts DEF Step
      <3>2. mem' \in [Proc -> Kept]
        BY <2>2 DEF Kept
      <3> QED
        BY <1>7, <2>2, <3>1, <3>2 DEF LoadConfig, provider, Run, Commands, Kept
    <2> QED
      BY <1>7, <2>1, <2>2 DEF LoadConfig
  <1>8. CASE OpenDb(p)
    <2>1. CASE End(p)
      BY <1>8, <2>1, EndFacts DEF OpenDb, provider, Run, Flow, Kept, Commands, Codes
    <2>2. CASE db' = p /\ Goto(p, "health") /\ UNCHANGED <<flow, mem, answer, req, missed>>
      <3>1. run' \in [Proc -> Run]
        BY <1>1, <2>2, GotoFacts DEF Step, SyncStep
      <3> QED
        BY <1>8, <2>2, <3>1 DEF OpenDb, provider, Run, Commands
    <2> QED
      BY <1>8, <2>1, <2>2 DEF OpenDb
  <1> QED
    BY <1>2, <1>3, <1>4, <1>5, <1>6, <1>7, <1>8 DEF Local

(* The tokens of a login. *)
LEMMA GrantType ==
    ASSUME TypeOK, NEW p \in Proc, Grant(p)
    PROVE  /\ run' \in [Proc -> Run] /\ flow' \in [Proc -> Flow] /\ mem' \in [Proc -> Kept]
           /\ mem'[p] \in Session
           /\ mem'[p].token # None => mem'[p].token.gen = 0
           /\ \A q \in Proc \ {p} : mem'[q] = mem[q]
  <1>1. run \in [Proc -> Run] /\ flow \in [Proc -> Flow] /\ mem \in [Proc -> Kept]
    BY DEF TypeOK, Run, Flow, Commands, Codes, Kept
  <1>2. run[p].id \in Chain /\ Lifetime \in 0 .. Lifetime
    BY <1>1, TimesAssumption DEF Run, Chain
  <1>3. /\ Fresh(run[p].id, Lifetime) \in Session
        /\ Fresh(run[p].id, Lifetime).token # None =>
              Fresh(run[p].id, Lifetime).token.gen = 0
    BY <1>2, FreshType
  <1>4. mem' = [mem EXCEPT ![p] = Fresh(run[p].id, Lifetime)]
    BY DEF Grant
  <1>5. run' \in [Proc -> Run]
    BY <1>1, GotoFacts DEF Grant, Step, LoginStep
  <1>6. flow' \in [Proc -> Flow]
    BY <1>1 DEF Grant, Flow, Codes
  <1> QED
    BY <1>1, <1>3, <1>4, <1>5, <1>6 DEF Kept

LEMMA RemoteType == ASSUME TypeOK, NEW p \in Proc, Remote(p) PROVE TypeOK'
  <1> USE DEF TypeOK
  <1>1. run \in [Proc -> Run] /\ flow \in [Proc -> Flow]
    BY DEF Run, Flow, Commands, Codes
  <1>2. CASE FetchAuthInfo(p)
    <2>1. CASE End(p)
      BY <1>2, <2>1, EndFacts DEF FetchAuthInfo, provider, Run, Flow, Kept, Commands, Codes
    <2>2. CASE Goto(p, "discovery") /\ UNCHANGED <<db, flow, mem, answer, req, missed>>
      <3>1. run' \in [Proc -> Run]
        BY <1>1, <2>2, GotoFacts DEF Step, LoginStep
      <3> QED
        BY <1>2, <2>2, <3>1 DEF FetchAuthInfo, provider, Run, Commands
    <2> QED
      BY <1>2, <2>1, <2>2 DEF FetchAuthInfo
  <1>3. CASE FetchDiscovery(p)
    <2>1. run' \in [Proc -> Run]
      BY <1>1, <1>3, GotoFacts DEF FetchDiscovery, Step, LoginStep
    <2>2. [flow[p] EXCEPT !.code = "pending"] \in Flow
      BY <1>1, FlowFacts, 0 \in Nat DEF Codes
    <2>3. flow' = [flow EXCEPT ![p] = [flow[p] EXCEPT !.code = "pending"]] \/ flow' = flow
      BY <1>3 DEF FetchDiscovery
    <2>4. flow' \in [Proc -> Flow]
      BY <1>1, <2>2, <2>3
    <2> QED
      BY <1>3, <2>1, <2>4 DEF FetchDiscovery, directory, provider, history, Run, Flow, Commands, Codes
  <1>4. CASE ExchangeCode(p)
    BY <1>4, GrantType DEF ExchangeCode, directory, provider, history, Run, Flow, Kept, Commands, Codes
  <1>5. CASE ReceiveToken(p)
    <2>1. run' \in [Proc -> Run]
      BY <1>1, <1>5, GotoFacts DEF ReceiveToken, Step, LoginStep
    <2>2. flow' \in [Proc -> Flow]
      BY <1>1, <1>5, IdleTypes DEF ReceiveToken
    <2> QED
      BY <1>5, <2>1, <2>2 DEF ReceiveToken, directory, provider, history, Run, Flow, Commands, Codes
  <1>6. CASE IssueCode(p) \/ ShowCode(p)
    <2>1. run' \in [Proc -> Run]
      BY <1>1, <1>6, GotoFacts DEF IssueCode, ShowCode, Step, LoginStep
    <2>2. PICK f \in Flow : flow' = [flow EXCEPT ![p] = f]
      <3>1. /\ [flow[p] EXCEPT !.code = "pending", !.codeLeft = CodeLifetime] \in Flow
            /\ [flow[p] EXCEPT !.left = CodeLifetime, !.sleep = Interval,
                              !.interval = Interval] \in Flow
        BY <1>1, FlowFacts, 0 \in Nat
      <3> QED
        BY <1>6, <3>1 DEF IssueCode, ShowCode
    <2>3. flow' \in [Proc -> Flow]
      BY <1>1, <2>2
    <2> QED
      BY <1>6, <2>1, <2>3 DEF IssueCode, ShowCode, directory, provider, history, Run, Flow, Commands, Codes
  <1>7. CASE Poll(p)
    <2>1. CASE Grant(p) /\ UNCHANGED <<db, answer, req, missed, hurt>>
      BY <1>7, <2>1, GrantType DEF Poll, provider, Run, Flow, Kept, Commands, Codes
    <2>2. CASE /\ Goto(p, "sleep")
               /\ \E i \in {flow[p].interval, flow[p].interval + SlowDown} :
                     flow' = [flow EXCEPT ![p].interval = i, ![p].sleep = i]
               /\ UNCHANGED <<db, mem, answer, req, missed>>
               /\ hurt' \in {hurt, hurt \cup {p}}
      <3>1. run' \in [Proc -> Run]
        BY <1>1, <2>2, GotoFacts DEF Step, LoginStep
      <3>2. PICK i \in {flow[p].interval, flow[p].interval + SlowDown} :
                 flow' = [flow EXCEPT ![p].interval = i, ![p].sleep = i]
        BY <2>2
      <3>3. i \in Nat
        BY <1>1, TimesAssumption DEF Flow
      <3>4. [flow[p] EXCEPT !.interval = i, !.sleep = i] \in Flow
        BY <1>1, <3>3, FlowFacts
      <3>5. flow' \in [Proc -> Flow]
        BY <1>1, <3>2, <3>4
      <3> QED
        BY <1>7, <2>2, <3>1, <3>5 DEF Poll, provider, Run, Flow, Commands, Codes
    <2>3. CASE End(p) /\ UNCHANGED hurt
      BY <1>7, <2>3, EndFacts DEF Poll, provider, Run, Flow, Kept, Commands, Codes
    <2>4. CASE /\ Goto(p, "sleep")
               /\ LET i == flow[p].interval + SlowDown
                  IN  flow' = [flow EXCEPT ![p].interval = i, ![p].sleep = i]
               /\ hurt' = hurt \cup {p}
               /\ UNCHANGED <<db, mem, answer, req, missed>>
      BY <2>2, <2>4
    <2> QED
      BY <1>7, <2>1, <2>2, <2>3, <2>4 DEF Poll
  <1>8. CASE Health(p)
    <2>1. run' \in [Proc -> Run]
      BY <1>1, <1>8, GotoFacts DEF Health, Step, SyncStep
    <2> QED
      BY <1>8, <2>1 DEF Health, directory, provider, history, Run, Commands
  <1> QED
    BY <1>2, <1>3, <1>4, <1>5, <1>6, <1>7, <1>8 DEF Remote

(* A request that has to do with a refresh has tokens to refresh. *)
SessionInv ==
    \A p \in Proc, r \in Req :
        req[p][r] \in {"refresh", "answered", "refused"} => IsSession(mem[p])

LEMMA CommandType ==
    ASSUME TypeOK, NEW p \in Proc, StartInit(p) \/ StartLogin(p) \/ StartSync(p) \/ Abort(p)
    PROVE  TypeOK'
  <1> USE DEF TypeOK
  <1>1. run \in [Proc -> Run]
    BY DEF Run, Commands
  <1>2. ASSUME NEW cmd \in Commands, NEW step \in {"mkdir", "load"}, Start(p, cmd, step)
        PROVE  TypeOK'
    <2>1. commands' \in 0 .. MaxCommands
      BY <1>2, BoundsAssumption DEF Start
    <2>2. [cmd |-> cmd, at |-> step, first |-> ~dir, id |-> commands'] \in Run
      BY <2>1 DEF Run, Step, LoginStep, SyncStep
    <2>3. run' = [run EXCEPT ![p] = [cmd |-> cmd, at |-> step, first |-> ~dir, id |-> commands']]
      BY <1>2 DEF Start
    <2>4. run' \in [Proc -> Run]
      BY <1>1, <2>2, <2>3
    <2> QED
      BY <1>2, <2>1, <2>4 DEF Start, directory, provider, Run, Commands
  <1>3. CASE StartInit(p) \/ StartLogin(p) \/ StartSync(p)
    BY <1>2, <1>3 DEF StartInit, StartLogin, StartSync, Commands
  <1>4. CASE Abort(p)
    BY <1>4, EndFacts DEF Abort, provider, Run, Flow, Kept, Commands, Codes
  <1> QED
    BY <1>3, <1>4

LEMMA UserType ==
    ASSUME TypeOK, NEW p \in Proc,
           \/ OpenBrowser(p) \/ Approve(p) \/ Deny(p) \/ AcceptCallback(p)
           \/ AcceptOther(p) \/ NextBatch(p)
    PROVE  TypeOK'
  <1> USE DEF TypeOK
  <1>1. run \in [Proc -> Run] /\ flow \in [Proc -> Flow]
    BY DEF Run, Flow, Commands, Codes
  <1>2. CASE Approve(p) \/ Deny(p)
    <2>1. PICK c \in Codes : flow' = [flow EXCEPT ![p] = [flow[p] EXCEPT !.code = c]]
      BY <1>2 DEF Approve, Deny, Codes
    <2>2. flow' \in [Proc -> Flow]
      BY <1>1, <2>1, FlowFacts, 0 \in Nat
    <2> QED
      BY <1>2, <2>2 DEF Approve, Deny, directory, provider, history, Flow, Codes
  <1>3. CASE OpenBrowser(p) \/ AcceptCallback(p)
    <2>1. run' \in [Proc -> Run]
      BY <1>1, <1>3, GotoFacts DEF OpenBrowser, AcceptCallback, Step, LoginStep
    <2> QED
      BY <1>3, <2>1 DEF OpenBrowser, AcceptCallback, directory, provider, history, Run, Commands
  <1>4. CASE AcceptOther(p)
    BY <1>4, EndFacts DEF AcceptOther, provider, Run, Flow, Kept, Commands, Codes
  <1>5. CASE NextBatch(p)
    <2>1. CASE End(p)
      BY <1>5, <2>1, EndFacts DEF NextBatch, provider, Run, Flow, Kept, Commands, Codes
    <2>2. CASE req' = [req EXCEPT ![p] = Todo] /\ UNCHANGED <<db, run, flow, mem, answer, missed>>
      <3>1. req' \in [Proc -> [Req -> Status]]
        BY <2>2, IdleTypes
      <3> QED
        BY <1>5, <2>2, <3>1 DEF NextBatch, provider
    <2> QED
      BY <1>5, <2>1, <2>2 DEF NextBatch
  <1> QED
    BY <1>2, <1>3, <1>4, <1>5

(* A refresh: what the provider makes of the token of p. *)
Taken(t) ==
    /\ t # None
    /\ t.chain \notin ended
    /\ idp = "rotating" => t.gen = newest[t.chain]
Renewed(t, n) == [token |-> [t EXCEPT !.gen = n], left |-> Lifetime, late |-> 0]

LEMMA RefreshFacts ==
    ASSUME TypeOK, SessionInv, NEW p \in Proc, NEW r \in Req, Refresh(p, r), Taken(mem[p].token)
    PROVE  \E n \in 0 .. MaxRenewals :
              LET t == mem[p].token IN
              /\ t \in Token
              /\ n = IF idp = "rotating" THEN t.gen + 1 ELSE t.gen
              /\ newest' = [newest EXCEPT ![t.chain] = n]
              /\ spender' = [spender EXCEPT ![t.chain] = run[p].id]
              /\ answer' = [answer EXCEPT ![p] = Renewed(t, n)]
              /\ Renewed(t, n) \in Session
              /\ Renewed(t, n).token \in Token
              /\ Renewed(t, n).token.chain = t.chain /\ Renewed(t, n).token.gen = n
              /\ Renewed(t, n).left = Lifetime
              /\ SetReq(p, r, "answered")
  <1> DEFINE t == mem[p].token
             n == IF idp = "rotating" THEN t.gen + 1 ELSE t.gen
  <1>1. mem[p] \in Session
    BY DEF TypeOK, SessionInv, Refresh, IsSession
  <1>2. t \in Token
    BY <1>1 DEF Taken, Session
  <1>3. /\ n <= MaxRenewals
        /\ newest' = [newest EXCEPT ![t.chain] = n]
        /\ spender' = [spender EXCEPT ![t.chain] = run[p].id]
        /\ answer' = [answer EXCEPT ![p] = Renewed(t, n)]
        /\ SetReq(p, r, "answered")
    BY DEF Refresh, Taken, Renewed
  <1>4. n \in 0 .. MaxRenewals
    BY <1>2, <1>3, BoundsAssumption DEF Token
  <1> HIDE DEF n, t
  <1>5. [t EXCEPT !.gen = n] \in Token /\ [t EXCEPT !.gen = n].chain = t.chain
        /\ [t EXCEPT !.gen = n].gen = n
    BY <1>2, <1>4 DEF Token
  <1>6. /\ Renewed(t, n) \in Session
        /\ Renewed(t, n).token = [t EXCEPT !.gen = n]
        /\ Renewed(t, n).left = Lifetime
    BY <1>5, TimesAssumption DEF Renewed, Session
  <1> QED
    BY <1>2, <1>3, <1>4, <1>5, <1>6 DEF n, t

LEMMA RefusedFacts ==
    ASSUME NEW p \in Proc, NEW r \in Req, Refresh(p, r), ~Taken(mem[p].token)
    PROVE  SetReq(p, r, "refused") /\ UNCHANGED <<answer, newest, spender>>
  BY DEF Refresh, Taken

LEMMA RequestType ==
    ASSUME TypeOK, SessionInv, NEW p \in Proc, NEW r \in Req,
           Bearer(p, r) \/ Refresh(p, r) \/ Renew(p, r) \/ LoseRefresh(p, r)
    PROVE  TypeOK'
  <1>1. /\ req \in [Proc -> [Req -> Status]]
        /\ {"todo", "refresh", "answered", "sent", "failed", "refused"} \subseteq Status
    BY DEF TypeOK, Status
  <1>2. CASE Bearer(p, r)
    <2>1. req' \in [Proc -> [Req -> Status]]
      BY <1>1, <1>2, SetReqFacts DEF Bearer
    <2> QED
      BY <1>2, <2>1 DEF Bearer, TypeOK, directory, provider, history
  <1>3. CASE Refresh(p, r) /\ Taken(mem[p].token)
    <2>1. PICK n \in 0 .. MaxRenewals :
              LET t == mem[p].token IN
              /\ t \in Token
              /\ newest' = [newest EXCEPT ![t.chain] = n]
              /\ spender' = [spender EXCEPT ![t.chain] = run[p].id]
              /\ answer' = [answer EXCEPT ![p] = Renewed(t, n)]
              /\ Renewed(t, n) \in Session
              /\ SetReq(p, r, "answered")
      BY <1>3, RefreshFacts
    <2>2. req' \in [Proc -> [Req -> Status]]
      BY <1>1, <2>1, SetReqFacts
    <2>3. newest' \in [Chain -> 0 .. MaxRenewals] /\ spender' \in [Chain -> 0 .. MaxCommands]
      BY <2>1 DEF TypeOK
    <2>4. answer' \in [Proc -> Session \cup {None}]
      BY <2>1 DEF TypeOK
    <2> QED
      BY <1>3, <2>2, <2>3, <2>4 DEF Refresh, TypeOK, directory, history
  <1>4. CASE Refresh(p, r) /\ ~Taken(mem[p].token)
    <2>1. req' \in [Proc -> [Req -> Status]]
      BY <1>1, <1>4, RefusedFacts, SetReqFacts
    <2> QED
      BY <1>4, <2>1, RefusedFacts DEF Refresh, TypeOK, directory, history
  <1>5. CASE Renew(p, r)
    <2>1. req' \in [Proc -> [Req -> Status]]
      BY <1>1, <1>5, SetReqFacts DEF Renew
    <2>2. mem' \in [Proc -> Kept] /\ answer' \in [Proc -> Session \cup {None}]
      BY <1>5 DEF Renew, TypeOK, Kept
    <2> QED
      BY <1>5, <2>1, <2>2 DEF Renew, TypeOK, Kept, directory, provider, history
  <1>6. CASE LoseRefresh(p, r)
    <2>1. req' \in [Proc -> [Req -> Status]]
      BY <1>1, <1>6, SetReqFacts DEF LoseRefresh
    <2> QED
      BY <1>6, <2>1 DEF LoseRefresh, TypeOK, directory, provider
  <1> QED
    BY <1>2, <1>3, <1>4, <1>5, <1>6

LEMMA TickFacts ==
    ASSUME TypeOK, Tick
    PROVE  /\ mem' \in [Proc -> Kept] /\ answer' \in [Proc -> Session \cup {None}]
           /\ file' \in File
           /\ IsSession(file') <=> IsSession(file)
           /\ IsSession(file) => file'.token = file.token
           /\ ~IsSession(file) => file' = file
           /\ \A p \in Proc :
                 /\ IsSession(mem'[p]) <=> IsSession(mem[p])
                 /\ IsSession(mem[p]) => mem'[p].token = mem[p].token
                 /\ IsSession(answer'[p]) <=> IsSession(answer[p])
                 /\ IsSession(answer[p]) => /\ answer'[p].token = answer[p].token
                                            /\ answer'[p].left = answer[p].left
  <1>1. /\ file \in File /\ \A p \in Proc : mem[p] \in Kept /\ mem[p] \in File
        /\ \A p \in Proc : answer[p] \in Session \cup {None} /\ answer[p] \in File
    BY DEF TypeOK, Kept, File
  <1>2. ASSUME NEW p \in Proc
        PROVE  /\ mem'[p] \in Kept
               /\ IsSession(mem'[p]) <=> IsSession(mem[p])
               /\ IsSession(mem[p]) => mem'[p].token = mem[p].token
    <2>1. mem'[p] = IF At(p, "granted") THEN Delay(mem[p]) ELSE Age(mem[p])
      BY DEF Tick
    <2> QED
      BY <1>1, <2>1, AgeFacts, DelayFacts
  <1>3. ASSUME NEW p \in Proc
        PROVE  /\ answer'[p] \in Session \cup {None}
               /\ IsSession(answer'[p]) <=> IsSession(answer[p])
               /\ IsSession(answer[p]) => /\ answer'[p].token = answer[p].token
                                          /\ answer'[p].left = answer[p].left
    <2>1. answer'[p] = Delay(answer[p])
      BY DEF Tick
    <2>2. ~IsSession(answer[p]) => Delay(answer[p]) = answer[p]
      BY <1>1, DelayFacts
    <2> QED
      BY <1>1, <2>1, <2>2, DelayFacts
  <1>4. /\ mem' = [p \in Proc |-> mem'[p]] /\ answer' = [p \in Proc |-> answer'[p]]
        /\ file' = Age(file)
    BY DEF Tick
  <1> QED
    BY <1>1, <1>2, <1>3, <1>4, AgeFacts

LEMMA TickType == TypeOK /\ Tick => TypeOK'
  <1> SUFFICES ASSUME TypeOK, Tick PROVE TypeOK'
    OBVIOUS
  <1>1. ASSUME NEW p \in Proc
        PROVE  [flow[p] EXCEPT !.left = Less(@), !.sleep = Less(@), !.codeLeft = Less(@)] \in Flow
    <2>1. flow[p] \in Flow
      BY DEF TypeOK, Flow, Codes
    <2>2. \A n \in Nat : Less(n) \in Nat
      BY DEF Less
    <2> QED
      BY <2>1, <2>2 DEF Flow
  <1>2. flow' \in [Proc -> Flow]
    BY <1>1 DEF Tick
  <1>3. hurt' \subseteq Proc
    BY DEF Tick, TypeOK
  <1> QED
    BY <1>2, <1>3, TickFacts DEF Tick, TypeOK, provider, Flow, Codes, Kept, File

LEMMA StepType == TypeOK /\ SessionInv /\ [Next]_vars => TypeOK'
  <1> SUFFICES ASSUME TypeOK, SessionInv, [Next]_vars PROVE TypeOK'
    OBVIOUS
  <1>1. CASE EndSession
    BY <1>1 DEF EndSession, TypeOK, directory, history, Session, Token, IsSession
  <1>2. CASE UNCHANGED vars
    BY <1>2 DEF vars, directory, provider, history, TypeOK
  <1> QED
    BY <1>1, <1>2, CommandType, LocalType, RemoteType, UserType, RequestType, TickType DEF Next

-----------------------------------------------------------------------------
(* The steps by what they do to commands and tokens.  What a login does     *)
(* before it holds tokens, and where the configuration is, does not matter  *)
(* to the refreshes of a sync.                                             *)

Others(p) ==
    \A q \in Proc \ {p} : /\ run'[q] = run[q] /\ mem'[q] = mem[q]
                          /\ answer'[q] = answer[q] /\ req'[q] = req[q]

Starts(p) ==
    /\ Others(p)
    /\ run[p].at = "idle" /\ run'[p].at \in {"mkdir", "load"}
    /\ run'[p].id = commands + 1 /\ commands' = commands + 1
    /\ mem'[p] = mem[p] /\ answer'[p] = answer[p] /\ req'[p] = req[p]
    /\ UNCHANGED <<file, provider, missed>>

Advances(p) ==
    /\ Others(p)
    /\ run[p].at \notin {"idle", "batch"} /\ run'[p].at # "idle"
    /\ run'[p].id = run[p].id
    /\ \/ mem'[p] \in {mem[p], Static, file}
       \/ mem'[p] \in Session /\ (mem'[p].token # None => mem'[p].token.gen = 0)
    /\ answer'[p] = answer[p] /\ req'[p] = req[p]
    /\ file' \in {file, mem[p], Torn}
    /\ UNCHANGED <<provider, commands, missed>>

Ends(p) ==
    /\ Others(p)
    /\ run'[p].at = "idle" /\ mem'[p] = None /\ answer'[p] = None
    /\ \A r \in Req : req'[p][r] = "todo"
    /\ file' \in {file, mem[p], Torn}
    /\ missed' = missed \ {p}
    /\ UNCHANGED <<provider, commands>>

Clears(p) ==
    /\ run[p].at = "batch"
    /\ \A r \in Req : req[p][r] \notin {"refresh", "answered"}
    /\ \A r \in Req : req'[p][r] = "todo"
    /\ \A q \in Proc \ {p} : req'[q] = req[q]
    /\ UNCHANGED <<run, file, mem, answer, provider, commands, missed>>

Stays == UNCHANGED <<run, file, mem, answer, req, provider, commands, missed>>

Asks(p, r) == Bearer(p, r) \/ Refresh(p, r) \/ Renew(p, r) \/ LoseRefresh(p, r)

Kind ==
    \/ \E p \in Proc : Starts(p) \/ Advances(p) \/ Ends(p) \/ Clears(p)
    \/ \E p \in Proc, r \in Req : Asks(p, r)
    \/ Stays \/ EndSession \/ Tick

LEMMA StartKind ==
    ASSUME TypeOK, NEW p \in Proc, StartInit(p) \/ StartLogin(p) \/ StartSync(p)
    PROVE  Starts(p)
  <1>1. ASSUME NEW cmd, NEW step \in {"mkdir", "load"}, Start(p, cmd, step)
        PROVE  Starts(p)
    BY <1>1 DEF Start, Starts, Others, At, TypeOK, directory
  <1> QED
    BY <1>1 DEF StartInit, StartLogin, StartSync

LEMMA EndKind ==
    ASSUME TypeOK, NEW p \in Proc, End(p), file' \in {file, mem[p], Torn},
           UNCHANGED <<provider, commands>>
    PROVE  Ends(p)
  BY EndFacts DEF Ends, Others

(* A step that goes on, with the credentials it had. *)
LEMMA GotoKind ==
    ASSUME TypeOK, NEW p \in Proc, NEW s \in Step \ {"idle"}, Goto(p, s),
           run[p].at \notin {"idle", "batch"},
           file' \in {file, mem[p], Torn},
           UNCHANGED <<mem, answer, req, provider, commands, missed>>
    PROVE  Advances(p)
  <1>1. run \in [Proc -> Run]
    BY DEF TypeOK, Run, Commands
  <1> QED
    BY <1>1, GotoFacts DEF Advances, Others

LEMMA LocalKind ==
    ASSUME TypeOK, NEW p \in Proc, Local(p)
    PROVE  Advances(p) \/ Ends(p)
  <1>1. run \in [Proc -> Run] /\ mem \in [Proc -> Kept]
    BY DEF TypeOK, Run, Commands, Kept
  <1>2. CASE MakeDir(p)
    <2>1. PICK s \in {"open_config", "info"} : Goto(p, s)
      BY <1>2 DEF MakeDir
    <2>2. /\ run'[p].at = s /\ run'[p].id = run[p].id
          /\ \A q \in Proc \ {p} : run'[q] = run[q]
      BY <1>1, <2>1, GotoFacts DEF Step, LoginStep
    <2> QED
      BY <1>1, <1>2, <2>2 DEF MakeDir, Advances, Others, At, history
  <1>3. CASE Timeout(p)
    BY <1>3, EndKind DEF Timeout
  <1>4. CASE Wake(p)
    BY <1>4, EndKind, GotoKind DEF Wake, At, Step, LoginStep
  <1>5. CASE OpenConfig(p)
    BY <1>5, GotoKind DEF OpenConfig, At, Step, LoginStep
  <1>6. CASE WriteConfig(p)
    <2>1. file' \in {file, mem[p], Torn}
      BY <1>6 DEF WriteConfig
    <2> QED
      BY <1>6, <2>1, EndKind, GotoKind DEF WriteConfig, At, Step
  <1>7. CASE LoadConfig(p)
    <2>1. CASE End(p)
      BY <1>7, <2>1, EndKind DEF LoadConfig
    <2>2. CASE Goto(p, "open_db") /\ mem' = [mem EXCEPT ![p] = file]
               /\ UNCHANGED <<db, flow, answer, req, missed>>
      <3>1. /\ run'[p].at = "open_db" /\ run'[p].id = run[p].id
            /\ \A q \in Proc \ {p} : run'[q] = run[q]
        BY <1>1, <2>2, GotoFacts DEF Step
      <3> QED
        BY <1>1, <1>7, <2>2, <3>1 DEF LoadConfig, Advances, Others, At
    <2> QED
      BY <1>7, <2>1, <2>2 DEF LoadConfig
  <1>8. CASE OpenDb(p)
    BY <1>8, EndKind, GotoKind DEF OpenDb, At, Step, SyncStep
  <1> QED
    BY <1>2, <1>3, <1>4, <1>5, <1>6, <1>7, <1>8 DEF Local

LEMMA RemoteKind ==
    ASSUME TypeOK, NEW p \in Proc, Remote(p)
    PROVE  Advances(p) \/ Ends(p)
  <1>1. CASE FetchAuthInfo(p)
    BY <1>1, EndKind, GotoKind DEF FetchAuthInfo, At, Step, LoginStep
  <1>2. CASE FetchDiscovery(p) \/ ReceiveToken(p) \/ IssueCode(p) \/ ShowCode(p)
    BY <1>2, GotoKind DEF FetchDiscovery, ReceiveToken, IssueCode, ShowCode, At, Step, LoginStep,
       directory, history
  <1>3. CASE Health(p)
    BY <1>3, GotoKind DEF Health, At, Step, SyncStep, directory, history
  <1>4. ASSUME Grant(p), run[p].at \notin {"idle", "batch"}, file' = file,
               UNCHANGED <<answer, req, provider, commands, missed>>
        PROVE  Advances(p)
    <2>1. run \in [Proc -> Run]
      BY DEF TypeOK, Run, Commands
    <2>2. /\ run'[p].at = "granted" /\ run'[p].id = run[p].id
          /\ \A q \in Proc \ {p} : run'[q] = run[q]
      BY <1>4, <2>1, GotoFacts DEF Grant, Step, LoginStep
    <2> QED
      BY <1>4, <2>2, GrantType DEF Advances, Others
  <1>5. CASE ExchangeCode(p)
    BY <1>4, <1>5 DEF ExchangeCode, At, directory, history
  <1>6. CASE Poll(p)
    BY <1>4, <1>6, EndKind, GotoKind DEF Poll, At, Step, LoginStep
  <1> QED
    BY <1>1, <1>2, <1>3, <1>5, <1>6 DEF Remote

LEMMA NextKind == TypeOK /\ [Next]_vars => Kind
  <1> SUFFICES ASSUME TypeOK, [Next]_vars PROVE Kind
    OBVIOUS
  <1>1. ASSUME NEW p \in Proc, StartInit(p) \/ StartLogin(p) \/ StartSync(p)
        PROVE  Kind
    BY <1>1, StartKind DEF Kind
  <1>2. ASSUME NEW p \in Proc, Local(p) \/ Remote(p)
        PROVE  Kind
    BY <1>2, LocalKind, RemoteKind DEF Kind
  <1>3. ASSUME NEW p \in Proc, Abort(p) \/ AcceptOther(p)
        PROVE  Kind
    BY <1>3, EndKind DEF Kind, Abort, AcceptOther
  <1>4. ASSUME NEW p \in Proc, Approve(p) \/ Deny(p)
        PROVE  Kind
    BY <1>4 DEF Kind, Approve, Deny, Stays, directory, history
  <1>5. ASSUME NEW p \in Proc, OpenBrowser(p) \/ AcceptCallback(p)
        PROVE  Kind
    BY <1>5, GotoKind DEF Kind, OpenBrowser, AcceptCallback, At, Step, LoginStep, directory, history
  <1>6. ASSUME NEW p \in Proc, NextBatch(p)
        PROVE  Kind
    <2>1. CASE End(p)
      BY <1>6, <2>1, EndKind DEF Kind, NextBatch
    <2>2. CASE req' = [req EXCEPT ![p] = Todo] /\ UNCHANGED <<db, run, flow, mem, answer, missed>>
      <3>1. Clears(p)
        BY <1>6, <2>2 DEF NextBatch, Clears, At, Todo, TypeOK
      <3> QED
        BY <3>1 DEF Kind
    <2> QED
      BY <1>6, <2>1, <2>2 DEF NextBatch
  <1>7. CASE UNCHANGED vars
    BY <1>7 DEF Kind, Stays, vars, directory, history
  <1> QED
    BY <1>1, <1>2, <1>3, <1>4, <1>5, <1>6, <1>7 DEF Next, Kind, Asks

-----------------------------------------------------------------------------
(* The configuration *)

(* Only who writes the file, or is stopped at it, changes whether it is whole. *)
LEMMA WholeKept ==
    ASSUME TypeOK, ConfigWhole, NEW p \in Proc, run[p].at # "write",
           \A q \in Proc \ {p} : run'[q] = run[q],
           UNCHANGED <<file, spoiled>>
    PROVE  ConfigWhole'
  BY DEF ConfigWhole, At

LEMMA StepWhole == TypeOK /\ ConfigWhole /\ [Next]_vars => ConfigWhole'
  <1> SUFFICES ASSUME TypeOK, ConfigWhole, [Next]_vars PROVE ConfigWhole'
    OBVIOUS
  <1>1. run \in [Proc -> Run]
    BY DEF TypeOK, Run, Commands
  <1>2. ASSUME NEW p \in Proc, NEW s \in Step, Goto(p, s), run[p].at # "write",
               UNCHANGED <<file, spoiled>>
        PROVE  ConfigWhole'
    BY <1>1, <1>2, GotoFacts, WholeKept
  <1>3. ASSUME NEW p \in Proc, End(p), run[p].at # "write", UNCHANGED <<file, spoiled>>
        PROVE  ConfigWhole'
    BY <1>3, EndFacts, WholeKept
  <1>4. ASSUME UNCHANGED <<run, file, spoiled>>
        PROVE  ConfigWhole'
    BY <1>4 DEF ConfigWhole, At
  <1>5. ASSUME NEW p \in Proc, StartInit(p) \/ StartLogin(p) \/ StartSync(p)
        PROVE  ConfigWhole'
    <2>1. ASSUME NEW cmd, NEW step, Start(p, cmd, step)
          PROVE  ConfigWhole'
      BY <2>1, <1>1, WholeKept DEF Start, At, directory
    <2> QED
      BY <1>5, <2>1 DEF StartInit, StartLogin, StartSync
  <1>6. ASSUME NEW p \in Proc, Abort(p)
        PROVE  ConfigWhole'
    <2>1. CASE At(p, "write")
      <3>1. spoiled'
        BY <1>6, <2>1 DEF Abort
      <3> QED
        BY <3>1 DEF ConfigWhole
    <2>2. CASE ~At(p, "write")
      <3>1. file' = file /\ (spoiled' <=> spoiled)
        BY <1>6, <2>2 DEF Abort
      <3>2. End(p)
        BY <1>6 DEF Abort
      <3> QED
        BY <2>2, <3>1, <3>2, EndFacts DEF ConfigWhole, At
    <2> QED
      BY <2>1, <2>2
  <1>7. ASSUME NEW p \in Proc, OpenConfig(p)
        PROVE  ConfigWhole'
    BY <1>1, <1>7, GotoFacts DEF OpenConfig, ConfigWhole, At, Step, LoginStep
  <1>8. ASSUME NEW p \in Proc, WriteConfig(p)
        PROVE  ConfigWhole'
    BY <1>8 DEF WriteConfig, ConfigWhole
  <1>9. ASSUME NEW p \in Proc,
               \/ MakeDir(p) \/ OpenBrowser(p) \/ AcceptCallback(p)
               \/ ExchangeCode(p) \/ Health(p)
        PROVE  ConfigWhole'
    <2>1. PICK s \in Step : Goto(p, s)
      BY <1>9
      DEF MakeDir, OpenBrowser, AcceptCallback, ExchangeCode, Health, Grant,
          Step, LoginStep, SyncStep
    <2> QED
      BY <1>2, <1>9, <2>1
      DEF MakeDir, OpenBrowser, AcceptCallback, ExchangeCode, Health, At, directory, history
  <1>10. ASSUME NEW p \in Proc,
                FetchDiscovery(p) \/ ReceiveToken(p) \/ IssueCode(p) \/ ShowCode(p)
         PROVE  ConfigWhole'
    <2>1. PICK s \in Step : Goto(p, s)
      BY <1>10 DEF FetchDiscovery, ReceiveToken, IssueCode, ShowCode, Step, LoginStep
    <2> QED
      BY <1>2, <1>10, <2>1 DEF FetchDiscovery, ReceiveToken, IssueCode, ShowCode, At, directory, history
  <1>11. ASSUME NEW p \in Proc, Timeout(p) \/ AcceptOther(p)
         PROVE  ConfigWhole'
    BY <1>3, <1>11 DEF Timeout, AcceptOther, Timed, At
  <1>12. ASSUME NEW p \in Proc,
                Wake(p) \/ Poll(p) \/ FetchAuthInfo(p) \/ LoadConfig(p) \/ OpenDb(p)
         PROVE  ConfigWhole'
    <2>1. run[p].at # "write" /\ UNCHANGED <<file, spoiled>>
      BY <1>12 DEF Wake, Poll, FetchAuthInfo, LoadConfig, OpenDb, At
    <2>2. End(p) \/ \E s \in Step : Goto(p, s)
      BY <1>12 DEF Wake, Poll, FetchAuthInfo, LoadConfig, OpenDb, Grant, Step, LoginStep, SyncStep
    <2> QED
      BY <1>2, <1>3, <2>1, <2>2
  <1>13. ASSUME NEW p \in Proc, NextBatch(p)
         PROVE  ConfigWhole'
    BY <1>3, <1>4, <1>13 DEF NextBatch, At
  <1>14. ASSUME NEW p \in Proc, Approve(p) \/ Deny(p) \/ (\E r \in Req : Asks(p, r))
         PROVE  ConfigWhole'
    BY <1>4, <1>14 DEF Approve, Deny, Asks, Bearer, Refresh, Renew, LoseRefresh, directory, history
  <1>15. CASE EndSession \/ UNCHANGED vars
    BY <1>4, <1>15 DEF EndSession, vars, directory, history
  <1>16. CASE Tick
    <2>1. file' = Torn => file = Torn
      BY <1>16, TickFacts DEF IsSession
    <2> QED
      BY <1>16, <2>1 DEF Tick, ConfigWhole, At
  <1> QED
    BY <1>5, <1>6, <1>7, <1>8, <1>9, <1>10, <1>11, <1>12, <1>13, <1>14, <1>15, <1>16
    DEF Next, Local, Remote, Asks

-----------------------------------------------------------------------------
(* Refreshes *)

(* Commands have numbers of their own, and no chain was rotated by a command
   that does not exist, or that has not begun to make requests. *)
IdInv ==
    /\ commands \in Nat
    /\ \A p \in Proc : run[p].at # "idle" => run[p].id \in 1 .. commands
    /\ \A p, q \in Proc :
          p # q /\ run[p].at # "idle" /\ run[q].at # "idle" => run[p].id # run[q].id
    /\ \A c \in Chain : spender[c] \in 0 .. commands
    /\ \A p \in Proc, c \in Chain :
          run[p].at \notin {"idle", "batch"} => spender[c] # run[p].id

(* There are requests during a batch only, and the mutex lets one of them
   refresh at a time. *)
BatchInv ==
    /\ \A p \in Proc, r \in Req : run[p].at # "batch" => req[p][r] = "todo"
    /\ \A p \in Proc : \A q, r \in Req :
          {req[p][q], req[p][r]} \subseteq {"refresh", "answered"} => q = r

(* No token is ahead of what the provider takes, which moves on only when it
   rotates. *)
Behind(s, n) == IsSession(s) /\ s.token # None => s.token.gen <= n[s.token.chain]
BehindInv ==
    /\ idp # "rotating" => \A c \in Chain : newest[c] = 0
    /\ Behind(file, newest)
    /\ \A p \in Proc : Behind(mem[p], newest) /\ Behind(answer[p], newest)

(* The answer on its way is the successor of the token in memory, and fresh. *)
AnswerInv ==
    \A p \in Proc, r \in Req :
        req[p][r] = "answered" =>
            /\ IsSession(answer[p]) /\ answer[p].left = Lifetime
            /\ mem[p].token # None
            /\ answer[p].token.chain = mem[p].token.chain

(* A command that was the last to rotate its chain, and has missed no answer,
   has the token that is taken next, or has it on its way. *)
KnowsInv ==
    \A p \in Proc :
        /\ idp = "rotating" /\ run[p].at = "batch" /\ p \notin missed
        /\ IsSession(mem[p]) /\ mem[p].token # None
        /\ spender[mem[p].token.chain] = run[p].id
        => \/ /\ \A r \in Req : req[p][r] # "answered"
              /\ mem[p].token.gen = newest[mem[p].token.chain]
           \/ /\ \E r \in Req : req[p][r] = "answered"
              /\ answer[p].token.gen = newest[mem[p].token.chain]

(* What was refused once stays so for the rest of the batch. *)
RefusedInv ==
    \A p \in Proc, r \in Req :
        req[p][r] = "refused" =>
            /\ ~Taken(mem[p].token)
            /\ \A q \in Req : req[p][q] # "answered"

IInv == /\ SessionInv /\ IdInv /\ BatchInv /\ BehindInv
        /\ AnswerInv /\ KnowsInv /\ RefusedInv

-----------------------------------------------------------------------------
(* What the steps of one request change *)

Only(p, r) ==
    /\ \A q \in Req \ {r} : req'[p][q] = req[p][q]
    /\ \A q \in Proc \ {p} : req'[q] = req[q]

Takes(p, r) ==
    /\ run[p].at = "batch" /\ req[p][r] = "todo"
    /\ \A q \in Req : req[p][q] \notin {"refresh", "answered"}
    /\ \/ req'[p][r] = "refresh" /\ IsSession(mem[p])
       \/ req'[p][r] = "sent" /\ ~NeedsRefresh(mem[p])
    /\ Only(p, r)
    /\ UNCHANGED <<run, file, mem, answer, provider, commands, missed>>

Grants(p, r, n) ==
    LET t == mem[p].token IN
    /\ run[p].at = "batch" /\ req[p][r] = "refresh" /\ Taken(t)
    /\ t \in Token
    /\ n = IF idp = "rotating" THEN t.gen + 1 ELSE t.gen
    /\ newest' = [newest EXCEPT ![t.chain] = n]
    /\ spender' = [spender EXCEPT ![t.chain] = run[p].id]
    /\ answer'[p].token \in Token /\ answer'[p] \in Session
    /\ answer'[p].token.chain = t.chain /\ answer'[p].token.gen = n
    /\ answer'[p].left = Lifetime
    /\ \A q \in Proc \ {p} : answer'[q] = answer[q]
    /\ req'[p][r] = "answered" /\ Only(p, r)
    /\ UNCHANGED <<run, file, mem, idp, ended, commands, missed>>

Refuses(p, r) ==
    /\ run[p].at = "batch" /\ req[p][r] = "refresh" /\ ~Taken(mem[p].token)
    /\ req'[p][r] = "refused" /\ Only(p, r)
    /\ UNCHANGED <<run, file, mem, answer, provider, commands, missed>>

Renews(p, r) ==
    /\ run[p].at = "batch" /\ req[p][r] = "answered"
    /\ mem'[p] = answer[p] /\ answer'[p] = None
    /\ \A q \in Proc \ {p} : mem'[q] = mem[q] /\ answer'[q] = answer[q]
    /\ req'[p][r] = "sent" /\ Only(p, r)
    /\ UNCHANGED <<run, file, provider, commands, missed>>

Loses(p, r) ==
    /\ run[p].at = "batch" /\ req[p][r] \in {"refresh", "answered"}
    /\ answer'[p] = None
    /\ \A q \in Proc \ {p} : answer'[q] = answer[q]
    /\ req'[p][r] = "failed" /\ Only(p, r)
    /\ missed' = IF req[p][r] = "answered" THEN missed \cup {p} ELSE missed
    /\ UNCHANGED <<run, file, mem, provider, commands>>

LEMMA AskKind ==
    ASSUME TypeOK, SessionInv, NEW p \in Proc, NEW r \in Req, Asks(p, r)
    PROVE  \/ Takes(p, r) \/ (\E n \in 0 .. MaxRenewals : Grants(p, r, n))
           \/ Refuses(p, r) \/ Renews(p, r) \/ Loses(p, r)
  <1>1. req \in [Proc -> [Req -> Status]] /\ answer \in [Proc -> Session \cup {None}]
        /\ mem \in [Proc -> Kept]
    BY DEF TypeOK, Kept
  <1>2. CASE Bearer(p, r)
    <2>1. req'[p][r] \in {"refresh", "sent"} /\ Only(p, r)
      BY <1>1, <1>2, SetReqFacts DEF Bearer, Only, Status
    <2>2. \/ req'[p][r] = "refresh" /\ NeedsRefresh(mem[p])
          \/ req'[p][r] = "sent" /\ ~NeedsRefresh(mem[p])
      BY <1>1, <1>2, SetReqFacts DEF Bearer, Status
    <2>3. NeedsRefresh(mem[p]) => IsSession(mem[p])
      BY DEF NeedsRefresh
    <2> QED
      BY <1>2, <2>1, <2>2, <2>3 DEF Bearer, Takes, At, directory, history
  <1>3. CASE Refresh(p, r) /\ Taken(mem[p].token)
    <2>1. PICK n \in 0 .. MaxRenewals :
              LET t == mem[p].token IN
              /\ t \in Token
              /\ n = IF idp = "rotating" THEN t.gen + 1 ELSE t.gen
              /\ newest' = [newest EXCEPT ![t.chain] = n]
              /\ spender' = [spender EXCEPT ![t.chain] = run[p].id]
              /\ answer' = [answer EXCEPT ![p] = Renewed(t, n)]
              /\ Renewed(t, n) \in Session
              /\ Renewed(t, n).token \in Token
              /\ Renewed(t, n).token.chain = t.chain /\ Renewed(t, n).token.gen = n
              /\ Renewed(t, n).left = Lifetime
              /\ SetReq(p, r, "answered")
      BY <1>3, RefreshFacts
    <2>2. req'[p][r] = "answered" /\ Only(p, r)
      BY <1>1, <2>1, SetReqFacts DEF Only, Status
    <2>3. answer'[p] = Renewed(mem[p].token, n) /\ \A q \in Proc \ {p} : answer'[q] = answer[q]
      BY <1>1, <2>1
    <2>4. Grants(p, r, n)
      BY <1>3, <2>1, <2>2, <2>3 DEF Refresh, Grants, At, directory, history
    <2> QED
      BY <2>4
  <1>4. CASE Refresh(p, r) /\ ~Taken(mem[p].token)
    <2>1. SetReq(p, r, "refused") /\ UNCHANGED <<answer, newest, spender>>
      BY <1>4, RefusedFacts
    <2>2. req'[p][r] = "refused" /\ Only(p, r)
      BY <1>1, <2>1, SetReqFacts DEF Only, Status
    <2> QED
      BY <1>4, <2>1, <2>2 DEF Refresh, Refuses, At, directory, provider, history
  <1>5. CASE Renew(p, r)
    <2>1. req'[p][r] = "sent" /\ Only(p, r)
      BY <1>1, <1>5, SetReqFacts DEF Renew, Only, Status
    <2> QED
      BY <1>1, <1>5, <2>1 DEF Renew, Renews, At, directory, history
  <1>6. CASE LoseRefresh(p, r)
    <2>1. req'[p][r] = "failed" /\ Only(p, r)
      BY <1>1, <1>6, SetReqFacts DEF LoseRefresh, Only, Status
    <2> QED
      BY <1>1, <1>6, <2>1 DEF LoseRefresh, Loses, At, directory
  <1> QED
    BY <1>2, <1>3, <1>4, <1>5, <1>6 DEF Asks

(* What time and the end of a provider's session leave alone. *)
Passes ==
    /\ mem' \in [Proc -> Kept] /\ answer' \in [Proc -> Session \cup {None}]
    /\ IsSession(file') <=> IsSession(file)
    /\ IsSession(file) => file'.token = file.token
    /\ \A p \in Proc :
          /\ IsSession(mem'[p]) <=> IsSession(mem[p])
          /\ IsSession(mem[p]) => mem'[p].token = mem[p].token
          /\ IsSession(answer'[p]) <=> IsSession(answer[p])
          /\ IsSession(answer[p]) => /\ answer'[p].token = answer[p].token
                                     /\ answer'[p].left = answer[p].left
    /\ ended \subseteq ended'
    /\ UNCHANGED <<run, req, idp, newest, spender, commands, missed>>

LEMMA PassesKind == TypeOK /\ (Stays \/ EndSession \/ Tick) => Passes
  <1> SUFFICES ASSUME TypeOK, Stays \/ EndSession \/ Tick PROVE Passes
    OBVIOUS
  <1>1. CASE Stays \/ EndSession
    BY <1>1 DEF Stays, EndSession, Passes, TypeOK, Kept, directory, provider, history
  <1>2. CASE Tick
    BY <1>2, TickFacts DEF Passes, Tick, provider
  <1> QED
    BY <1>1, <1>2

(* The steps, one by one. *)
Effect ==
    \/ \E p \in Proc : Starts(p) \/ Advances(p) \/ Ends(p) \/ Clears(p)
    \/ \E p \in Proc, r \in Req :
          \/ Takes(p, r) \/ (\E n \in 0 .. MaxRenewals : Grants(p, r, n))
          \/ Refuses(p, r) \/ Renews(p, r) \/ Loses(p, r)
    \/ Passes

LEMMA NextEffect == TypeOK /\ SessionInv /\ [Next]_vars => Effect
  BY NextKind, AskKind, PassesKind DEF Kind, Effect
-----------------------------------------------------------------------------
(* The invariant holds *)

LEMMA InitInv == Init => IInv /\ ConfigWhole
  <1> SUFFICES ASSUME Init PROVE IInv /\ ConfigWhole
    OBVIOUS
  <1>1. \A p \in Proc : /\ run[p].at = "idle" /\ mem[p] = None /\ answer[p] = None
                        /\ \A r \in Req : req[p][r] = "todo"
    BY DEF Init, Idle, Todo
  <1>2. ~IsSession(None)
    BY DEF IsSession
  <1>3. \A c \in Chain : newest[c] = 0 /\ spender[c] = 0
    BY DEF Init
  <1>4. /\ Behind(file, newest)
        /\ file # Torn
    <2>1. CASE file = None
      BY <2>1, <1>2, MarkersAssumption DEF Behind
    <2>2. CASE \E n \in 0 .. Lifetime : file = Fresh(0, n)
      <3>1. PICK n \in 0 .. Lifetime : file = Fresh(0, n)
        BY <2>2
      <3>2. 0 \in Chain
        BY BoundsAssumption DEF Chain
      <3>3. file \in Session /\ (file.token # None => file.token = [chain |-> 0, gen |-> 0])
        BY <3>1, <3>2, FreshType DEF Fresh
      <3> QED
        BY <3>2, <3>3, <1>3, MarkersAssumption DEF Behind
    <2> QED
      BY <2>1, <2>2 DEF Init
  <1>5. SessionInv /\ BatchInv /\ AnswerInv /\ KnowsInv /\ RefusedInv
    BY <1>1, <1>2 DEF SessionInv, BatchInv, AnswerInv, KnowsInv, RefusedInv
  <1>6. IdInv
    BY <1>1, <1>3 DEF IdInv, Init
  <1>7. BehindInv
    BY <1>1, <1>2, <1>3, <1>4 DEF BehindInv, Behind
  <1> QED
    BY <1>4, <1>5, <1>6, <1>7 DEF IInv, ConfigWhole

LEMMA IdStep == TypeOK /\ IInv /\ Effect => IdInv'
  <1> SUFFICES ASSUME TypeOK, IdInv, Effect PROVE IdInv'
    BY DEF IInv
  <1> USE DEF IdInv
  <1>1. CASE \E p \in Proc : Starts(p)
    BY <1>1 DEF Starts, Others, provider
  <1>2. CASE \E p \in Proc : Advances(p) \/ Ends(p) \/ Clears(p)
    BY <1>2 DEF Advances, Ends, Clears, Others, provider
  <1>3. CASE \E p \in Proc, r \in Req : \E n \in 0 .. MaxRenewals : Grants(p, r, n)
    BY <1>3 DEF Grants, TypeOK
  <1>4. CASE \E p \in Proc, r \in Req :
                Takes(p, r) \/ Refuses(p, r) \/ Renews(p, r) \/ Loses(p, r)
    BY <1>4 DEF Takes, Refuses, Renews, Loses, provider
  <1>5. CASE Passes
    BY <1>5 DEF Passes
  <1> QED
    BY <1>1, <1>2, <1>3, <1>4, <1>5 DEF Effect

LEMMA BatchStep == TypeOK /\ IInv /\ Effect => BatchInv'
  <1> SUFFICES ASSUME TypeOK, BatchInv, Effect PROVE BatchInv'
    BY DEF IInv
  <1> USE DEF BatchInv
  <1>1. CASE \E p \in Proc : Starts(p) \/ Advances(p) \/ Ends(p) \/ Clears(p)
    BY <1>1 DEF Starts, Advances, Ends, Clears, Others
  <1>2. CASE \E p \in Proc, r \in Req : Takes(p, r)
    BY <1>2 DEF Takes, Only
  <1>3. CASE \E p \in Proc, r \in Req : \E n \in 0 .. MaxRenewals : Grants(p, r, n)
    BY <1>3 DEF Grants, Only
  <1>4. CASE \E p \in Proc, r \in Req : Refuses(p, r) \/ Renews(p, r) \/ Loses(p, r)
    BY <1>4 DEF Refuses, Renews, Loses, Only
  <1>5. CASE Passes
    BY <1>5 DEF Passes
  <1> QED
    BY <1>1, <1>2, <1>3, <1>4, <1>5 DEF Effect

LEMMA SessionStep == TypeOK /\ IInv /\ Effect => SessionInv'
  <1> SUFFICES ASSUME TypeOK, IInv, Effect PROVE SessionInv'
    OBVIOUS
  <1> USE DEF SessionInv, IInv
  <1>1. CASE \E p \in Proc : Starts(p) \/ Advances(p) \/ Ends(p) \/ Clears(p)
    BY <1>1 DEF Starts, Advances, Ends, Clears, Others, BatchInv
  <1>2. CASE \E p \in Proc, r \in Req : Takes(p, r)
    BY <1>2 DEF Takes, Only
  <1>3. CASE \E p \in Proc, r \in Req : \E n \in 0 .. MaxRenewals : Grants(p, r, n)
    BY <1>3 DEF Grants, Only
  <1>4. CASE \E p \in Proc, r \in Req : Refuses(p, r) \/ Loses(p, r)
    BY <1>4 DEF Refuses, Loses, Only
  <1>5. CASE \E p \in Proc, r \in Req : Renews(p, r)
    BY <1>5 DEF Renews, Only, AnswerInv
  <1>6. CASE Passes
    BY <1>6 DEF Passes
  <1> QED
    BY <1>1, <1>2, <1>3, <1>4, <1>5, <1>6 DEF Effect

LEMMA BehindStep == TypeOK /\ IInv /\ Effect => BehindInv'
  <1> SUFFICES ASSUME TypeOK, BehindInv, AnswerInv, SessionInv, Effect PROVE BehindInv'
    BY DEF IInv
  <1> USE DEF BehindInv
  <1>1. CASE \E p \in Proc : Starts(p) \/ Clears(p)
    BY <1>1 DEF Starts, Clears, Others, provider
  <1>2. CASE \E p \in Proc : Ends(p)
    BY <1>2 DEF Ends, Others, provider, Behind, IsSession
  <1>3. CASE \E p \in Proc : Advances(p)
    <2>1. PICK p \in Proc : Advances(p)
      BY <1>3
    <2>2. Behind(Static, newest) /\ Behind(Torn, newest)
      BY DEF Behind, IsSession
    <2>3. mem'[p] \in Session /\ (mem'[p].token # None => mem'[p].token.gen = 0)
          => Behind(mem'[p], newest)
      BY DEF Behind, Session, Token, TypeOK
    <2> QED
      BY <2>1, <2>2, <2>3 DEF Advances, Others, provider
  <1>4. CASE \E p \in Proc, r \in Req : \E n \in 0 .. MaxRenewals : Grants(p, r, n)
    <2>1. PICK p \in Proc, r \in Req, n \in 0 .. MaxRenewals : Grants(p, r, n)
      BY <1>4
    <2> DEFINE t == mem[p].token
    <2>2. t \in Token /\ t # None /\ IsSession(mem[p])
      BY <2>1 DEF Grants, Taken, SessionInv
    <2>3. /\ newest \in [Chain -> 0 .. MaxRenewals]
          /\ newest' = [newest EXCEPT ![t.chain] = n]
          /\ t.gen <= newest[t.chain] /\ t.chain \in Chain /\ t.gen \in Nat
      BY <2>1, <2>2 DEF Grants, TypeOK, Behind, Token
    <2>4. n >= newest[t.chain] /\ (idp # "rotating" => n = 0)
      BY <2>1, <2>3 DEF Grants, Taken
    <2>5. \A c \in Chain : newest[c] <= newest'[c]
      BY <2>3, <2>4
    <2>6. ASSUME NEW s \in File, Behind(s, newest) PROVE Behind(s, newest')
      BY <2>3, <2>5, <2>6 DEF Behind, File, Session, Token, IsSession
    <2>7. /\ file \in File /\ \A q \in Proc : mem[q] \in File /\ answer[q] \in File
      BY DEF TypeOK, File
    <2>8. Behind(answer'[p], newest')
      BY <2>1, <2>3 DEF Grants, Behind
    <2> QED
      BY <2>1, <2>3, <2>4, <2>6, <2>7, <2>8 DEF Grants
  <1>5. CASE \E p \in Proc, r \in Req : Takes(p, r) \/ Refuses(p, r)
    BY <1>5 DEF Takes, Refuses, provider
  <1>6. CASE \E p \in Proc, r \in Req : Renews(p, r) \/ Loses(p, r)
    BY <1>6 DEF Renews, Loses, provider, Behind, IsSession
  <1>7. CASE Passes
    BY <1>7 DEF Passes, Behind
  <1> QED
    BY <1>1, <1>2, <1>3, <1>4, <1>5, <1>6, <1>7 DEF Effect

LEMMA AnswerStep == TypeOK /\ IInv /\ Effect => AnswerInv'
  <1> SUFFICES ASSUME TypeOK, AnswerInv, BatchInv, SessionInv, Effect PROVE AnswerInv'
    BY DEF IInv
  <1> USE DEF AnswerInv
  <1>1. CASE \E p \in Proc : Starts(p) \/ Advances(p) \/ Ends(p) \/ Clears(p)
    BY <1>1 DEF Starts, Advances, Ends, Clears, Others, BatchInv
  <1>2. CASE \E p \in Proc, r \in Req : Takes(p, r)
    BY <1>2 DEF Takes, Only
  <1>3. CASE \E p \in Proc, r \in Req : \E n \in 0 .. MaxRenewals : Grants(p, r, n)
    <2>1. PICK p \in Proc, r \in Req, n \in 0 .. MaxRenewals : Grants(p, r, n)
      BY <1>3
    <2>2. IsSession(answer'[p])
      BY <2>1, MarkersAssumption DEF Grants, IsSession
    <2>3. mem[p].token # None /\ answer'[p].token.chain = mem[p].token.chain
      BY <2>1 DEF Grants, Taken
    <2> QED
      BY <2>1, <2>2, <2>3 DEF Grants, Only
  <1>4. CASE \E p \in Proc, r \in Req : Refuses(p, r)
    BY <1>4 DEF Refuses, Only
  <1>5. CASE \E p \in Proc, r \in Req : Renews(p, r) \/ Loses(p, r)
    <2>1. PICK p \in Proc, r \in Req : Renews(p, r) \/ Loses(p, r)
      BY <1>5
    <2>2. \A q \in Req : req'[p][q] # "answered"
      BY <2>1 DEF Renews, Loses, Only, BatchInv
    <2> QED
      BY <2>1, <2>2 DEF Renews, Loses, Only
  <1>6. CASE Passes
    BY <1>6 DEF Passes, SessionInv
  <1> QED
    BY <1>1, <1>2, <1>3, <1>4, <1>5, <1>6 DEF Effect

LEMMA KnowsStep == TypeOK /\ IInv /\ Effect => KnowsInv'
  <1> SUFFICES ASSUME TypeOK, IInv, Effect PROVE KnowsInv'
    OBVIOUS
  <1> USE DEF KnowsInv
  <1>0. IdInv /\ BatchInv /\ AnswerInv /\ SessionInv
    BY DEF IInv
  <1>00. KnowsInv
    BY DEF IInv
  <1>1. CASE \E p \in Proc : Starts(p) \/ Ends(p)
    BY <1>1, <1>00 DEF Starts, Ends, Others, provider
  <1>2. CASE \E p \in Proc : Advances(p)
    <2>1. PICK p \in Proc : Advances(p)
      BY <1>2
    <2>2. \A c \in Chain : spender'[c] # run'[p].id
      BY <2>1, <1>0 DEF Advances, IdInv, provider
    <2>3. mem'[p] \in File
      BY <2>1 DEF Advances, TypeOK, File
    <2>4. IsSession(mem'[p]) /\ mem'[p].token # None => mem'[p].token.chain \in Chain
      BY <2>3 DEF IsSession, File, Session, Token
    <2> QED
      BY <2>1, <2>2, <2>4, <1>00 DEF Advances, Others, provider
  <1>3. CASE \E p \in Proc : Clears(p)
    BY <1>3, <1>00 DEF Clears, provider
  <1>4. CASE \E p \in Proc, r \in Req : Takes(p, r)
    BY <1>4, <1>00 DEF Takes, Only, provider
  <1>5. CASE \E p \in Proc, r \in Req : \E n \in 0 .. MaxRenewals : Grants(p, r, n)
    <2>1. PICK p \in Proc, r \in Req, n \in 0 .. MaxRenewals : Grants(p, r, n)
      BY <1>5
    <2> DEFINE t == mem[p].token
    <2>2. /\ newest \in [Chain -> 0 .. MaxRenewals] /\ spender \in [Chain -> 0 .. MaxCommands]
          /\ t.chain \in Chain
          /\ newest' = [newest EXCEPT ![t.chain] = n]
          /\ spender' = [spender EXCEPT ![t.chain] = run[p].id]
      BY <2>1 DEF Grants, TypeOK, Token
    <2>3. ASSUME NEW q \in Proc \ {p},
                 run[q].at = "batch", IsSession(mem[q]), mem[q].token # None,
                 spender'[mem[q].token.chain] = run[q].id
          PROVE  /\ spender[mem[q].token.chain] = run[q].id
                 /\ newest'[mem[q].token.chain] = newest[mem[q].token.chain]
      <3>1. run[p].id # run[q].id
        BY <2>1, <2>3, <1>0 DEF Grants, IdInv
      <3>2. mem[q].token.chain \in Chain
        BY <2>3 DEF TypeOK, IsSession, Session, Token
      <3> QED
        BY <2>2, <2>3, <3>1, <3>2
    <2>4. answer'[p].token.gen = newest'[t.chain] /\ req'[p][r] = "answered"
      BY <2>1, <2>2 DEF Grants
    <2> QED
      BY <2>1, <2>3, <2>4, <1>00 DEF Grants, Only
  <1>6. CASE \E p \in Proc, r \in Req : Refuses(p, r)
    BY <1>6, <1>00 DEF Refuses, Only, provider
  <1>7. CASE \E p \in Proc, r \in Req : Renews(p, r)
    <2>1. PICK p \in Proc, r \in Req : Renews(p, r)
      BY <1>7
    <2>2. \A q \in Req : req'[p][q] # "answered"
      BY <2>1, <1>0 DEF Renews, Only, BatchInv
    <2>3. answer[p].token.chain = mem[p].token.chain /\ mem[p].token # None
          /\ IsSession(mem[p])
      BY <2>1, <1>0 DEF Renews, AnswerInv, SessionInv
    <2> QED
      BY <2>1, <2>2, <2>3, <1>00 DEF Renews, Only, provider
  <1>8. CASE \E p \in Proc, r \in Req : Loses(p, r)
    <2>1. PICK p \in Proc, r \in Req : Loses(p, r)
      BY <1>8
    <2>2. \A q \in Req : req'[p][q] # "answered"
      BY <2>1, <1>0 DEF Loses, Only, BatchInv
    <2>3. p \notin missed' => \A q \in Req : req[p][q] # "answered"
      BY <2>1, <1>0 DEF Loses, BatchInv
    <2> QED
      BY <2>1, <2>2, <2>3, <1>00 DEF Loses, Only, provider
  <1>9. CASE Passes
    <2>1. \A p \in Proc : (\E r \in Req : req[p][r] = "answered") => IsSession(answer[p])
      BY <1>0 DEF AnswerInv
    <2> QED
      BY <1>9, <2>1, <1>00 DEF Passes
  <1> QED
    BY <1>1, <1>2, <1>3, <1>4, <1>5, <1>6, <1>7, <1>8, <1>9 DEF Effect

LEMMA RefusedStep == TypeOK /\ IInv /\ Effect => RefusedInv'
  <1> SUFFICES ASSUME TypeOK, RefusedInv, BatchInv, BehindInv, SessionInv, Effect
               PROVE  RefusedInv'
    BY DEF IInv
  <1> USE DEF RefusedInv
  <1>1. CASE \E p \in Proc : Starts(p) \/ Advances(p) \/ Ends(p) \/ Clears(p)
    BY <1>1 DEF Starts, Advances, Ends, Clears, Others, BatchInv, provider, Taken
  <1>2. CASE \E p \in Proc, r \in Req : Takes(p, r)
    BY <1>2 DEF Takes, Only, provider, Taken
  <1>3. CASE \E p \in Proc, r \in Req : \E n \in 0 .. MaxRenewals : Grants(p, r, n)
    <2>1. PICK p \in Proc, r \in Req, n \in 0 .. MaxRenewals : Grants(p, r, n)
      BY <1>3
    <2> DEFINE t == mem[p].token
    <2>2. /\ newest \in [Chain -> 0 .. MaxRenewals]
          /\ t.chain \in Chain /\ t.gen \in Nat
          /\ newest' = [newest EXCEPT ![t.chain] = n]
          /\ UNCHANGED <<mem, idp, ended>>
      BY <2>1 DEF Grants, TypeOK, Token
    <2>3. idp = "rotating" => n = newest[t.chain] + 1
      BY <2>1 DEF Grants, Taken
    <2>4. ASSUME NEW q \in Proc, IsSession(mem[q]), ~Taken(mem[q].token)
          PROVE  ~Taken(mem[q].token)'
      <3>1. CASE mem[q].token = None \/ mem[q].token.chain \in ended
        BY <3>1, <2>2 DEF Taken
      <3>2. CASE mem[q].token # None /\ mem[q].token.chain \notin ended
        <4>1. idp = "rotating" /\ mem[q].token.gen # newest[mem[q].token.chain]
          BY <3>2, <2>4 DEF Taken
        <4>2. mem[q].token.chain \in Chain /\ mem[q].token.gen \in Nat
          BY <3>2, <2>4 DEF TypeOK, IsSession, Session, Token
        <4>3. mem[q].token.gen < newest[mem[q].token.chain]
          BY <4>1, <4>2, <3>2, <2>2, <2>4 DEF BehindInv, Behind
        <4>4. newest'[mem[q].token.chain] >= newest[mem[q].token.chain]
          BY <4>1, <4>2, <2>2, <2>3
        <4>5. newest'[mem[q].token.chain] \in Nat /\ newest[mem[q].token.chain] \in Nat
          BY <4>2, <2>2
        <4> QED
          BY <4>1, <4>2, <4>3, <4>4, <4>5, <2>2 DEF Taken
      <3> QED
        BY <3>1, <3>2
    <2>5. \A q \in Req : req[p][q] # "refused"
      BY <2>1 DEF Grants
    <2>6. ASSUME NEW q \in Proc, NEW k \in Req, req'[q][k] = "refused"
          PROVE  /\ q # p /\ req'[q] = req[q]
                 /\ IsSession(mem[q]) /\ ~Taken(mem[q].token)
      BY <2>1, <2>5, <2>6 DEF Grants, Only, SessionInv
    <2> QED
      BY <2>4, <2>6, <2>2
  <1>4. CASE \E p \in Proc, r \in Req : Refuses(p, r)
    BY <1>4 DEF Refuses, Only, provider, Taken, BatchInv
  <1>5. CASE \E p \in Proc, r \in Req : Renews(p, r)
    BY <1>5 DEF Renews, Only, provider, Taken
  <1>6. CASE \E p \in Proc, r \in Req : Loses(p, r)
    BY <1>6 DEF Loses, Only, provider, Taken
  <1>7. CASE Passes
    BY <1>7 DEF Passes, Taken, SessionInv
  <1> QED
    BY <1>1, <1>2, <1>3, <1>4, <1>5, <1>6, <1>7 DEF Effect

LEMMA StepInv == TypeOK /\ IInv /\ [Next]_vars => IInv'
  <1> SUFFICES ASSUME TypeOK, IInv, [Next]_vars PROVE IInv'
    OBVIOUS
  <1>1. Effect
    BY NextEffect DEF IInv
  <1> QED
    BY <1>1, SessionStep, IdStep, BatchStep, BehindStep, AnswerStep, KnowsStep, RefusedStep
    DEF IInv

-----------------------------------------------------------------------------
(* What follows *)

LEMMA RefusedExplained == TypeOK /\ IInv => RefusalExplained
  <1> SUFFICES ASSUME TypeOK, IInv, NEW p \in Proc, NEW r \in Req, req[p][r] = "refused",
                      mem[p].token # None, mem[p].token.chain \notin ended,
                      p \notin missed, spender[mem[p].token.chain] = run[p].id
               PROVE  FALSE
    BY DEF RefusalExplained, IInv, RefusedInv, Taken
  <1>1. run[p].at = "batch" /\ IsSession(mem[p])
    BY DEF IInv, BatchInv, SessionInv
  <1>2. /\ idp = "rotating" /\ mem[p].token.gen # newest[mem[p].token.chain]
        /\ \A q \in Req : req[p][q] # "answered"
    BY DEF IInv, RefusedInv, Taken
  <1> QED
    BY <1>1, <1>2 DEF IInv, KnowsInv

LEMMA SentInTime ==
    ASSUME TypeOK, IInv, [Next]_vars, NEW p \in Proc, NEW r \in Req,
           req[p][r] # "sent", req'[p][r] = "sent",
           IsSession(mem'[p]), mem'[p].late <= Margin, mem'[p].late < Lifetime
    PROVE  Valid(mem'[p]) > 0
  <1>1. Effect
    BY NextEffect DEF IInv
  <1>2. Takes(p, r) \/ Renews(p, r)
    BY <1>1 DEF Effect, Starts, Advances, Ends, Clears, Others, Takes, Grants, Refuses, Renews,
       Loses, Only, Passes
  <1>3. CASE Takes(p, r)
    <2>1. mem'[p] = mem[p] /\ ~NeedsRefresh(mem[p])
      BY <1>3 DEF Takes
    <2>2. mem[p] \in Session
      BY <2>1 DEF TypeOK, IsSession
    <2> QED
      BY <2>1, <2>2, TimesAssumption DEF NeedsRefresh, Session, Valid
  <1>4. CASE Renews(p, r)
    <2>1. mem'[p] = answer[p] /\ answer[p].left = Lifetime /\ answer[p] \in Session
      BY <1>4 DEF Renews, IInv, AnswerInv, TypeOK, IsSession
    <2> QED
      BY <2>1, TimesAssumption DEF Session, Valid
  <1> QED
    BY <1>2, <1>3, <1>4

-----------------------------------------------------------------------------

(* Every variable of the client, the files it shares and the provider keeps
   its type: the timers and expiries (device.rs, loopback.rs, auth/mod.rs) and
   the chains of refresh tokens in particular. *)
THEOREM ClientTypeCorrect == Spec => []TypeOK
  <1>1. Init => TypeOK /\ IInv
    BY InitType, InitInv
  <1>2. TypeOK /\ IInv /\ [Next]_vars => (TypeOK /\ IInv)'
    BY StepType, StepInv DEF IInv
  <1> QED
    BY <1>1, <1>2, PTL DEF Spec

(* Whatever ends a command at whatever step, the configuration stays whole
   unless a save is under way, or was cut off, or ran into another one
   (config.rs:104-118, main.rs:52-87). *)
THEOREM ConfigStaysWhole == Spec => []ConfigWhole
  <1>1. Init => TypeOK /\ ConfigWhole
    BY InitType, InitInv
  <1>2. TypeOK /\ ConfigWhole /\ [Next]_vars => ConfigWhole'
    BY StepWhole
  <1> QED
    BY <1>1, <1>2, ClientTypeCorrect, PTL DEF Spec

(* However many requests a sync makes at once, and however many commands share
   the directory, none of them spends the refresh token of another request of
   its own command: SyncClient::bearer holds the mutex across the refresh
   (client.rs:36-41). *)
THEOREM RefusalsExplained == Spec => []RefusalExplained
  <1>1. Init => TypeOK /\ IInv
    BY InitType, InitInv
  <1>2. TypeOK /\ IInv /\ [Next]_vars => (TypeOK /\ IInv)'
    BY StepType, StepInv DEF IInv
  <1>3. TypeOK /\ IInv => RefusalExplained
    BY RefusedExplained
  <1> QED
    BY <1>1, <1>2, <1>3, PTL DEF Spec

(* The margin of needs_refresh (mod.rs:20-23, 75-78) makes up for expires_at
   being counted from the arrival of the tokens: none has run out when a
   request goes out with it. *)
THEOREM BearersInTime == Spec => BearerInTime
  <1>1. Init => TypeOK /\ IInv
    BY InitType, InitInv
  <1>2. TypeOK /\ IInv /\ [Next]_vars => (TypeOK /\ IInv)'
    BY StepType, StepInv DEF IInv
  <1> DEFINE Sent ==
        \A p \in Proc, r \in Req :
          LET s == mem'[p] IN
          /\ req[p][r] # "sent" /\ req'[p][r] = "sent"
          /\ IsSession(s) /\ s.late <= Margin /\ s.late < Lifetime
          => Valid(s) > 0
  <1>3. TypeOK /\ IInv /\ [Next]_vars => [Sent]_vars
    BY SentInTime
  <1> QED
    BY <1>1, <1>2, <1>3, PTL DEF Spec, BearerInTime
=============================================================================
