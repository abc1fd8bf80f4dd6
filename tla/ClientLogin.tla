---------------------------- MODULE ClientLogin ----------------------------
(***************************************************************************)
(* How the command line client gets, keeps and uses its credentials        *)
(* (main.rs, config.rs, auth/ and SyncClient::bearer).                     *)
(*                                                                         *)
(* The processes share one sync directory: `cloudsync init` and `login`    *)
(* write .cloudsync/config.toml, `push`, `pull` and `status` (here: sync)  *)
(* read it once and from then on keep their tokens in memory, where all    *)
(* requests under way share them behind a mutex.                           *)
(*                                                                         *)
(* Time is counted in ticks.  Instead of a clock and points in time, which *)
(* would never come back to an earlier state, a timer or an expiry is what *)
(* is left of it; Tick takes one off all of them, in memory, on disk and   *)
(* at the provider, and they stay at 0.                                    *)
(***************************************************************************)
EXTENDS Integers

CONSTANTS
    Proc,               \* processes of the client in this directory
    Job,                \* per process: the commands it is started with
    Req,                \* requests of one batch of a sync
    None,               \* no file, no credentials, no refresh token
    Static,             \* a configuration with the shared token
    Torn,               \* a configuration that is not whole
    Lifetime,           \* of an access token
    Margin,             \* REFRESH_MARGIN_SECS
    LoginTimeout,       \* LOGIN_TIMEOUT of the loopback flow
    CodeLifetime,       \* expires_in of a device code
    Interval,           \* first polling interval
    SlowDown,           \* what slow_down adds to it
    MaxCommands,        \* bound on the commands that are started
    MaxRenewals         \* bound on the rotations of one chain of tokens

ASSUME TimesAssumption ==
    {Lifetime, Margin, LoginTimeout, CodeLifetime, Interval, SlowDown} \subseteq Nat
ASSUME JobAssumption == Job \in [Proc -> SUBSET {"init", "loopback", "device", "sync"}]
ASSUME BoundsAssumption == {MaxCommands, MaxRenewals} \subseteq Nat
VARIABLES
    dir,        \* there is a .cloudsync directory
    file,       \* .cloudsync/config.toml
    db,         \* the process that has sync.redb open
    run,        \* per process: its command and the step it is at
    flow,       \* per process: timers and device code of its login
    mem,        \* per process: the credentials it holds
    answer,     \* per process: the refreshed tokens on their way to it
    req,        \* per process: the requests of its batch
    idp,        \* the provider, as configured
    newest,     \*   the rotation of each chain that it takes
    spender,    \*   the command that rotated each chain last
    ended,      \*   chains that it has ended
    commands,   \* commands started so far, which number them and their chains
    hurt,       \* history: device logins that failed, waited or were slowed down
                \*   once approved
    missed,     \* history: processes that lost refreshed tokens
    spoiled     \* history: a save was cut off, or ran into another one

directory == <<dir, file, db>>
provider == <<idp, newest, spender, ended>>
history == <<hurt, missed, spoiled>>
vars == <<directory, run, flow, mem, answer, req, provider, commands, history>>

-----------------------------------------------------------------------------

Chain == 0 .. MaxCommands

\* A refresh token is the chain of the login it came from, and its place in it.
Token == [chain : Chain, gen : 0 .. MaxRenewals]

\* What is left until expires_at, which the client counts from the arrival of
\* the answer; and how long the answer had been on its way by then.
Session == [token : Token \cup {None}, left : 0 .. Lifetime, late : 0 .. Lifetime]

ASSUME MarkersAssumption ==
    /\ None # Static /\ None # Torn /\ Static # Torn
    /\ \A x \in {None, Static, Torn} : x \notin Session

\* The first tokens of a chain.
Fresh(chain, left) ==
    [token |-> IF idp = "silent" THEN None ELSE [chain |-> chain, gen |-> 0],
     left |-> left, late |-> 0]

IsSession(s) == s \notin {None, Static, Torn}

\* What is left of the access token itself.
Valid(s) == s.left - s.late

LoginStep == {"mkdir", "info", "discovery", "browser", "listen", "exchange", "ask", "issued",
              "sleep", "poll", "granted", "open_config", "write"}
SyncStep == {"load", "health", "batch"}
Step == LoginStep \cup SyncStep \cup {"idle", "open_db"}

\* Steps that wait for the server or the provider.
Network == {"info", "discovery", "exchange", "ask", "issued", "poll", "granted", "health"}

\* Steps at an await inside loopback::run: its timeout is looked at there.
Timed == {"info", "discovery", "listen", "exchange", "granted"}

Status == {"todo", "refresh", "answered", "sent", "failed", "refused"}

Idle == [cmd |-> "none", at |-> "idle", first |-> FALSE, id |-> 0]
NoFlow == [left |-> 0, sleep |-> 0, interval |-> 0, codeLeft |-> 0, code |-> "none"]
Todo == [r \in Req |-> "todo"]

At(p, step) == run[p].at = step
Goto(p, step) == run' = [run EXCEPT ![p].at = step]

\* The process exits: its memory is gone and its database is closed.
End(p) ==
    /\ run' = [run EXCEPT ![p] = Idle]
    /\ flow' = [flow EXCEPT ![p] = NoFlow]
    /\ mem' = [mem EXCEPT ![p] = None]
    /\ answer' = [answer EXCEPT ![p] = None]
    /\ req' = [req EXCEPT ![p] = Todo]
    /\ db' = IF db = p THEN None ELSE db
    /\ missed' = missed \ {p}

\* A device login whose code is approved.
Redeeming(p) ==
    /\ run[p].cmd = "device"
    /\ flow[p].code = "approved" \/ At(p, "granted")

\* A provider that rotates takes a refresh token once; "silent" gives none.
\* "off" is a server without OIDC.  The directory is new, or has the tokens of
\* an earlier login, chain 0.
Init ==
    /\ idp \in {"off", "plain", "rotating", "silent"}
    /\ dir \in BOOLEAN
    /\ \/ ~dir /\ file = None
       \/ dir /\ \E n \in 0 .. Lifetime : file = Fresh(0, n)
    /\ db = None
    /\ run = [p \in Proc |-> Idle]
    /\ flow = [p \in Proc |-> NoFlow]
    /\ mem = [p \in Proc |-> None]
    /\ answer = [p \in Proc |-> None]
    /\ req = [p \in Proc |-> Todo]
    /\ newest = [c \in Chain |-> 0]
    /\ spender = [c \in Chain |-> 0]
    /\ ended = {}
    /\ commands = 0
    /\ hurt = {}
    /\ missed = {}
    /\ spoiled = FALSE

-----------------------------------------------------------------------------
(* Commands *)

Start(p, cmd, step) ==
    /\ At(p, "idle")
    /\ cmd \in Job[p]
    /\ commands < MaxCommands
    /\ commands' = commands + 1
    /\ run' = [run EXCEPT ![p] = [cmd |-> cmd, at |-> step, first |-> ~dir,
                                  id |-> commands + 1]]
    /\ hurt' = hurt \ {p}
    /\ UNCHANGED <<directory, flow, mem, answer, req, provider, missed, spoiled>>

\* init refuses a directory that has a .cloudsync, whatever is in it.
StartInit(p) == ~dir /\ Start(p, "init", "mkdir")

\* login takes any directory.  resolve_mode is left open.
StartLogin(p) == \E mode \in {"loopback", "device"} : Start(p, mode, "mkdir")

\* push, pull and status.
StartSync(p) == dir /\ Start(p, "sync", "load")

\* Plausible bug: the configuration is created along with its directory, so
\* that missing permissions show before the user signs in.
MakeDirAndFile(p) ==
    /\ At(p, "mkdir")
    /\ dir' = TRUE
    /\ file' = IF file = None THEN Torn ELSE file
    /\ Goto(p, IF run[p].cmd = "init" THEN "open_config" ELSE "info")
    /\ mem' = IF run[p].cmd = "init" THEN [mem EXCEPT ![p] = Static] ELSE mem
    /\ flow' = IF run[p].cmd = "loopback" THEN [flow EXCEPT ![p].left = LoginTimeout] ELSE flow
    /\ UNCHANGED <<db, answer, req, provider, commands, history>>

\* The directory is made before anything is asked, and stays when the login
\* fails.  The timeout of the loopback flow begins here.
MakeDir(p) ==
    /\ At(p, "mkdir")
    /\ dir' = TRUE
    /\ Goto(p, IF run[p].cmd = "init" THEN "open_config" ELSE "info")
    /\ mem' = IF run[p].cmd = "init" THEN [mem EXCEPT ![p] = Static] ELSE mem
    /\ flow' = IF run[p].cmd = "loopback" THEN [flow EXCEPT ![p].left = LoginTimeout] ELSE flow
    /\ UNCHANGED <<file, db, answer, req, provider, commands, history>>

\* A request fails, a system call returns an error, the user gives up, or the
\* process is killed.  A save that is cut off leaves part of the file, also of
\* one that another save has filled meanwhile.
Abort(p) ==
    /\ ~At(p, "idle")
    /\ End(p)
    /\ hurt' = IF Redeeming(p) THEN hurt \cup {p} ELSE hurt
    /\ file' \in IF At(p, "write") THEN {file, Torn} ELSE {file}
    /\ spoiled' = (spoiled \/ At(p, "write"))
    /\ UNCHANGED <<dir, provider, commands>>

-----------------------------------------------------------------------------
(* Login: what both flows begin with *)

\* get_auth_info of the server: whether it knows a provider.
AuthInfo == idp # "off"

FetchAuthInfo(p) ==
    /\ At(p, "info")
    /\ \/ /\ AuthInfo
          /\ Goto(p, "discovery")
          /\ UNCHANGED <<db, flow, mem, answer, req, missed>>
       \/ ~AuthInfo /\ End(p)
    /\ UNCHANGED <<dir, file, provider, commands, hurt, spoiled>>

\* loopback listens and prints the address to sign in at; device asks for a code.
FetchDiscovery(p) ==
    /\ At(p, "discovery")
    /\ \/ /\ run[p].cmd = "loopback"
          /\ Goto(p, "browser")
          /\ flow' = [flow EXCEPT ![p].code = "pending"]
       \/ /\ run[p].cmd = "device"
          /\ Goto(p, "ask")
          /\ UNCHANGED flow
    /\ UNCHANGED <<directory, mem, answer, req, provider, commands, history>>

\* The user signs in, in the browser or with the code on another device.
Approve(p) ==
    /\ run[p].at \in {"browser", "listen", "sleep", "poll"}
    /\ flow[p].code = "pending"
    /\ run[p].cmd = "device" => flow[p].codeLeft > 0
    /\ flow' = [flow EXCEPT ![p].code = "approved"]
    /\ UNCHANGED <<directory, run, mem, answer, req, provider, commands, history>>

\* The provider grants tokens: a chain of its own for every login.
Grant(p) ==
    /\ Goto(p, "granted")
    /\ mem' = [mem EXCEPT ![p] = Fresh(run[p].id, Lifetime)]
    /\ flow' = [flow EXCEPT ![p].code = "none"]

\* The tokens arrive; only now are they counted from.
ReceiveToken(p) ==
    /\ At(p, "granted")
    /\ Goto(p, "open_config")
    /\ flow' = [flow EXCEPT ![p] = NoFlow]
    /\ UNCHANGED <<directory, mem, answer, req, provider, commands, history>>

-----------------------------------------------------------------------------
(* Login: the loopback flow *)

\* webbrowser::open starts the browser, or fails to: both are the same to the
\* login.  It is no await: while it blocks, the timeout is not looked at.
OpenBrowser(p) ==
    /\ At(p, "browser")
    /\ Goto(p, "listen")
    /\ UNCHANGED <<directory, flow, mem, answer, req, provider, commands, history>>

\* wait_for_callback takes one connection.  It brings the code of this login ...
AcceptCallback(p) ==
    /\ At(p, "listen")
    /\ flow[p].code = "approved"
    /\ Goto(p, "exchange")
    /\ UNCHANGED <<directory, flow, mem, answer, req, provider, commands, history>>

\* ... or it is closed again, or it has no code, an error, or the state of a
\* login given up before: then it was the only one all the same.
AcceptOther(p) ==
    /\ At(p, "listen")
    /\ End(p)
    /\ UNCHANGED <<dir, file, provider, commands, hurt, spoiled>>

ExchangeCode(p) ==
    /\ At(p, "exchange")
    /\ Grant(p)
    /\ UNCHANGED <<directory, answer, req, provider, commands, history>>

\* Plausible bug: the timeout covers the wait for the browser only.
TimeoutListening(p) ==
    /\ run[p].cmd = "loopback" /\ At(p, "listen")
    /\ flow[p].left = 0
    /\ End(p)
    /\ UNCHANGED <<dir, file, provider, commands, hurt, spoiled>>

\* The timeout drops the flow at whichever await it is.
Timeout(p) ==
    /\ run[p].cmd = "loopback" /\ run[p].at \in Timed
    /\ flow[p].left = 0
    /\ End(p)
    /\ UNCHANGED <<dir, file, provider, commands, hurt, spoiled>>

-----------------------------------------------------------------------------
(* Login: the device flow *)

\* request_device_code: the provider makes the code ...
IssueCode(p) ==
    /\ At(p, "ask")
    /\ Goto(p, "issued")
    /\ flow' = [flow EXCEPT ![p].code = "pending", ![p].codeLeft = CodeLifetime]
    /\ UNCHANGED <<directory, mem, answer, req, provider, commands, history>>

\* ... and its answer comes, is shown to the user, and starts the timers.
ShowCode(p) ==
    /\ At(p, "issued")
    /\ Goto(p, "sleep")
    /\ flow' = [flow EXCEPT ![p].left = CodeLifetime, ![p].sleep = Interval,
                            ![p].interval = Interval]
    /\ UNCHANGED <<directory, mem, answer, req, provider, commands, history>>

\* The user refuses.
Deny(p) ==
    /\ run[p].cmd = "device" /\ run[p].at \in {"sleep", "poll"}
    /\ flow[p].code = "pending"
    /\ flow' = [flow EXCEPT ![p].code = "denied"]
    /\ UNCHANGED <<directory, run, mem, answer, req, provider, commands, history>>

\* Plausible bug: gives up when the time left is not enough for one more poll
\* after this one.
WakeEarlyEnd(p) ==
    /\ At(p, "sleep") /\ flow[p].sleep = 0
    /\ \/ /\ flow[p].left <= flow[p].interval
          /\ End(p)
       \/ /\ flow[p].left > flow[p].interval
          /\ Goto(p, "poll")
          /\ UNCHANGED <<db, flow, mem, answer, req, missed>>
    /\ UNCHANGED <<dir, file, provider, commands, hurt, spoiled>>

\* The deadline is looked at after each sleep, before each poll.
Wake(p) ==
    /\ At(p, "sleep") /\ flow[p].sleep = 0
    /\ \/ /\ flow[p].left = 0
          /\ End(p)
       \/ /\ flow[p].left > 0
          /\ Goto(p, "poll")
          /\ UNCHANGED <<db, flow, mem, answer, req, missed>>
    /\ UNCHANGED <<dir, file, provider, commands, hurt, spoiled>>

\* One poll: authorization_pending and slow_down go on, the rest is final.  A
\* poll too early may be told to slow down although the code is approved.
Poll(p) ==
    /\ At(p, "poll")
    /\ \/ /\ flow[p].code = "approved" /\ flow[p].codeLeft > 0
          /\ Grant(p)
          /\ UNCHANGED <<db, answer, req, missed, hurt>>
       \/ /\ flow[p].code = "pending" /\ flow[p].codeLeft > 0
          /\ Goto(p, "sleep")
          /\ \E i \in {flow[p].interval, flow[p].interval + SlowDown} :
                flow' = [flow EXCEPT ![p].interval = i, ![p].sleep = i]
          /\ UNCHANGED <<db, mem, answer, req, missed, hurt>>
       \/ /\ flow[p].code = "approved" /\ flow[p].codeLeft > 0
          /\ Goto(p, "sleep")
          /\ LET i == flow[p].interval + SlowDown
             IN  flow' = [flow EXCEPT ![p].interval = i, ![p].sleep = i]
          /\ hurt' = hurt \cup {p}
          /\ UNCHANGED <<db, mem, answer, req, missed>>
       \/ /\ flow[p].code = "denied" \/ flow[p].codeLeft = 0
          /\ End(p)
          /\ UNCHANGED hurt
    /\ UNCHANGED <<dir, file, provider, commands, spoiled>>

-----------------------------------------------------------------------------
(* ClientConfig::save and load, and the database *)

\* write_secure truncates the file ...
OpenConfig(p) ==
    /\ At(p, "open_config")
    /\ file' = Torn
    /\ spoiled' = FALSE
    /\ Goto(p, "write")
    /\ UNCHANGED <<dir, db, flow, mem, answer, req, provider, commands, hurt, missed>>

\* ... and fills it.  When another save has written to it in between, the longer
\* of the two sticks out of the other.
WriteConfig(p) ==
    /\ At(p, "write")
    /\ file' \in IF file = Torn /\ ~spoiled THEN {mem[p]} ELSE {mem[p], Torn}
    /\ spoiled' = (file' = Torn)
    /\ \/ run[p].first /\ Goto(p, "open_db")
             /\ UNCHANGED <<db, flow, mem, answer, req, missed>>
       \/ ~run[p].first /\ End(p)
    /\ UNCHANGED <<dir, provider, commands, hurt>>

LoadConfig(p) ==
    /\ At(p, "load")
    /\ \/ /\ file \notin {None, Torn}
          /\ mem' = [mem EXCEPT ![p] = file]
          /\ Goto(p, "open_db")
          /\ UNCHANGED <<db, flow, answer, req, missed>>
       \/ file \in {None, Torn} /\ End(p)
    /\ UNCHANGED <<dir, file, provider, commands, hurt, spoiled>>

\* One process at a time has the database open.  init and login only make it.
OpenDb(p) ==
    /\ At(p, "open_db")
    /\ \/ /\ run[p].cmd = "sync" /\ db = None
          /\ db' = p
          /\ Goto(p, "health")
          /\ UNCHANGED <<flow, mem, answer, req, missed>>
       \/ /\ run[p].cmd # "sync" \/ db # None
          /\ End(p)
    /\ UNCHANGED <<dir, file, provider, commands, hurt, spoiled>>

Health(p) ==
    /\ At(p, "health")
    /\ Goto(p, "batch")
    /\ UNCHANGED <<directory, flow, mem, answer, req, provider, commands, history>>

-----------------------------------------------------------------------------
(* Bearer tokens of a sync *)

SetReq(p, r, status) == req' = [req EXCEPT ![p][r] = status]

\* Plausible bug: refreshes when the token has expired, not before.
NeedsRefreshLate(s) == IsSession(s) /\ s.left = 0

NeedsRefresh(s) == IsSession(s) /\ s.left <= Margin

\* Plausible bug: the lock is given back before the refresh is awaited.
BearerUnlocked(p, r) ==
    /\ At(p, "batch") /\ req[p][r] = "todo"
    /\ SetReq(p, r, IF NeedsRefresh(mem[p]) THEN "refresh" ELSE "sent")
    /\ UNCHANGED <<directory, run, flow, mem, answer, provider, commands, history>>

\* SyncClient::bearer holds the mutex until the refresh is over.
Bearer(p, r) ==
    /\ At(p, "batch") /\ req[p][r] = "todo"
    /\ \A q \in Req : req[p][q] \notin {"refresh", "answered"}
    /\ SetReq(p, r, IF NeedsRefresh(mem[p]) THEN "refresh" ELSE "sent")
    /\ UNCHANGED <<directory, run, flow, mem, answer, provider, commands, history>>

\* The provider decides.  One that does not rotate takes a token again.
Refresh(p, r) ==
    LET t == mem[p].token
        taken == /\ t # None
                 /\ t.chain \notin ended
                 /\ idp = "rotating" => t.gen = newest[t.chain]
        next == IF idp = "rotating" THEN t.gen + 1 ELSE t.gen
    IN  /\ At(p, "batch") /\ req[p][r] = "refresh"
        /\ \/ /\ taken /\ next <= MaxRenewals
              /\ newest' = [newest EXCEPT ![t.chain] = next]
              /\ spender' = [spender EXCEPT ![t.chain] = run[p].id]
              /\ answer' = [answer EXCEPT ![p] =
                    [token |-> [t EXCEPT !.gen = next], left |-> Lifetime, late |-> 0]]
              /\ SetReq(p, r, "answered")
           \/ /\ ~taken
              /\ SetReq(p, r, "refused")
              /\ UNCHANGED <<answer, newest, spender>>
        /\ UNCHANGED <<directory, run, flow, mem, idp, ended, commands, history>>

\* The answer arrives: the new tokens are kept, in memory only.
Renew(p, r) ==
    /\ At(p, "batch") /\ req[p][r] = "answered"
    /\ mem' = [mem EXCEPT ![p] = answer[p]]
    /\ answer' = [answer EXCEPT ![p] = None]
    /\ SetReq(p, r, "sent")
    /\ UNCHANGED <<directory, run, flow, provider, commands, history>>

\* The request to the provider or its answer is lost.
LoseRefresh(p, r) ==
    /\ At(p, "batch") /\ req[p][r] \in {"refresh", "answered"}
    /\ SetReq(p, r, "failed")
    /\ answer' = [answer EXCEPT ![p] = None]
    /\ missed' = IF req[p][r] = "answered" THEN missed \cup {p} ELSE missed
    /\ UNCHANGED <<directory, run, flow, mem, provider, commands, hurt, spoiled>>

\* join_all: all requests of a batch end before the next one begins.  An error
\* ends the file it is about, not the command, unless it was the list's.
NextBatch(p) ==
    /\ At(p, "batch")
    /\ \A r \in Req : req[p][r] \in {"sent", "failed", "refused"}
    /\ \/ /\ req' = [req EXCEPT ![p] = Todo]
          /\ UNCHANGED <<db, run, flow, mem, answer, missed>>
       \/ End(p)
    /\ UNCHANGED <<dir, file, provider, commands, hurt, spoiled>>

\* The provider ends a session somebody holds tokens of.
EndSession ==
    /\ \E s \in {file} \cup {mem[p] : p \in Proc} :
          /\ IsSession(s) /\ s.token # None
          /\ ended' = ended \cup {s.token.chain}
    /\ UNCHANGED <<directory, run, flow, mem, answer, req, idp, newest, spender,
                   commands, history>>

-----------------------------------------------------------------------------
(* Time *)

Less(n) == IF n = 0 THEN 0 ELSE n - 1
Age(s) == IF IsSession(s) THEN [s EXCEPT !.left = Less(@)] ELSE s
\* Tokens on their way get older before the client begins to count.
Delay(s) == IF IsSession(s) /\ s.late < Lifetime THEN [s EXCEPT !.late = @ + 1] ELSE s

\* A timer that has run down is served before time goes on.
Due(p) ==
    \/ At(p, "sleep") /\ flow[p].sleep = 0
    \/ run[p].cmd = "loopback" /\ run[p].at \in Timed /\ flow[p].left = 0

Tick ==
    /\ \A p \in Proc : ~Due(p)
    /\ file' = Age(file)
    /\ mem' = [p \in Proc |-> IF At(p, "granted") THEN Delay(mem[p]) ELSE Age(mem[p])]
    /\ answer' = [p \in Proc |-> Delay(answer[p])]
    /\ flow' = [p \in Proc |-> [flow[p] EXCEPT !.left = Less(@), !.sleep = Less(@),
                                               !.codeLeft = Less(@)]]
    /\ hurt' = hurt \cup {p \in Proc : Redeeming(p) /\ ~At(p, "sleep")}
    /\ UNCHANGED <<dir, db, run, req, provider, commands, missed, spoiled>>

-----------------------------------------------------------------------------

\* What the process does by itself.
Local(p) ==
    \/ MakeDir(p) \/ Timeout(p) \/ Wake(p)
    \/ OpenConfig(p) \/ WriteConfig(p) \/ LoadConfig(p) \/ OpenDb(p)

\* What needs an answer of the server or the provider.
Remote(p) ==
    \/ FetchAuthInfo(p) \/ FetchDiscovery(p) \/ ExchangeCode(p) \/ ReceiveToken(p)
    \/ IssueCode(p) \/ ShowCode(p) \/ Poll(p) \/ Health(p)

Next ==
    \/ \E p \in Proc :
        \/ StartInit(p) \/ StartLogin(p) \/ StartSync(p) \/ Abort(p)
        \/ Local(p) \/ Remote(p)
        \/ OpenBrowser(p)
        \/ Approve(p) \/ Deny(p) \/ AcceptCallback(p) \/ AcceptOther(p)
        \/ NextBatch(p)
        \/ \E r \in Req : Bearer(p, r) \/ Refresh(p, r) \/ Renew(p, r) \/ LoseRefresh(p, r)
    \/ EndSession
    \/ Tick

Spec == Init /\ [][Next]_vars

\* Processes run, and time passes however often they poll.  Nothing interrupts
\* webbrowser::open, so that it returns is an assumption.  The device flow has no
\* timeout around a request, so that its requests are answered is another one;
\* nothing is assumed of the answers and connections a loopback login waits for.
FairSpec ==
    /\ Spec
    /\ SF_vars(Tick)
    /\ \A p \in Proc : WF_vars(Local(p))
    /\ \A p \in Proc : WF_vars(OpenBrowser(p))
    /\ \A p \in Proc : WF_vars(run[p].cmd = "device" /\ Remote(p))

-----------------------------------------------------------------------------
(* Properties *)

TypeOK ==
    /\ dir \in BOOLEAN
    /\ file \in Session \cup {None, Static, Torn}
    /\ db \in Proc \cup {None}
    /\ run \in [Proc -> [cmd : {"none", "init", "loopback", "device", "sync"},
                         at : Step, first : BOOLEAN, id : 0 .. MaxCommands]]
    /\ flow \in [Proc -> [left : Nat, sleep : Nat, interval : Nat, codeLeft : Nat,
                          code : {"none", "pending", "approved", "denied"}]]
    /\ mem \in [Proc -> Session \cup {None, Static}]
    /\ answer \in [Proc -> Session \cup {None}]
    /\ req \in [Proc -> [Req -> Status]]
    /\ newest \in [Chain -> 0 .. MaxRenewals]
    /\ spender \in [Chain -> 0 .. MaxCommands]
    /\ ended \subseteq Chain
    /\ commands \in 0 .. MaxCommands
    /\ hurt \cup missed \subseteq Proc
    /\ spoiled \in BOOLEAN

\* A request never goes out with a token that has run out already (mod.rs:20),
\* as long as its tokens were no longer on their way than the margin: the
\* margin makes up for expires_at being counted from their arrival.
BearerInTime ==
    [][\A p \in Proc, r \in Req :
          LET s == mem'[p] IN
          /\ req[p][r] # "sent" /\ req'[p][r] = "sent"
          /\ IsSession(s) /\ s.late <= Margin /\ s.late < Lifetime
          => Valid(s) > 0]_vars

\* A refresh is refused only when there is no refresh token, when the provider
\* has ended the session, or when it rotates and the token was spent by an
\* earlier command, which took the new one with it, or its answer was lost.
\* Requests under way at the same time never spend each other's token.
RefusalExplained ==
    \A p \in Proc, r \in Req :
        req[p][r] = "refused" =>
            LET t == mem[p].token IN
            \/ t = None
            \/ t.chain \in ended
            \/ /\ idp = "rotating"
               /\ p \in missed \/ spender[t.chain] # run[p].id

\* Whatever ends a command, the configuration stays whole, unless a save is
\* under way, or was cut off, or ran into another one.
ConfigWhole == file = Torn => spoiled \/ \E p \in Proc : At(p, "write")

\* A login ends.  The loopback flow does so whoever does not answer, once the
\* browser is started.
LoginEnds ==
    \A p \in Proc :
        run[p].cmd \in {"loopback", "device"} ~> At(p, "idle")

\* A device code that is approved before the last poll in its lifetime is
\* redeemed, however often the provider asked to slow down before, unless the
\* request for it fails, takes its time or is told to slow down itself.
ApprovalRedeemed ==
    \A p \in Proc :
        At(p, "sleep") /\ flow[p].code = "approved" /\ flow[p].sleep < flow[p].codeLeft
            ~> At(p, "open_config") \/ p \in hurt
=============================================================================
