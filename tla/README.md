# cloudsync in TLA+

cloudsync keeps directories of several machines in step with a self-hosted
server: a command line client pushes and pulls files, a browser page uploads
them, and the server stores contents under their hash and metadata in redb.
This directory holds TLA+ models of that program, the TLC configurations that
check them on small instances, and TLAPS proofs of what matters most. Paths
below are relative to `src/crates` of the repository; `server/` stands for
`cloudsync-server/src/`, `client/` for `cloudsync-client/src/`.

## Inventory

| Component | Source | State | Operations | Correct when | Module |
|---|---|---|---|---|---|
| Storage core | `server/service.rs`, `storage.rs`, `db/*.rs` | tables `files`, `uploads`, `user_usage`; blob and staging directories | `create_file`, `get_file`, `delete_file`, `create_upload`, `replace_chunk`, `finalize_upload` | rows keep their blob and its content, versions grow, quota held, each blob charged once, sessions finalized once, tenants apart | `TenantStore` |
| HTTP API | `server/app.rs` | none of its own | routes, request validation, `get_file` streaming | every request reaches the service with checked arguments | part of `TenantStore` |
| Migration and start-up | `server/migrations/`, `app.rs` 631-668 | schema version, table `files` | re-key rows at start-up | every row kept once and under one tenant, before anything is served, under any crash | `ServerStart` |
| Tenant admission | `server/app.rs` 485-547, `db/db_tenants.rs` | table `tenants` | admit on first request | never more than `max_tenant_count` tenants, nobody refused who is one | `ServerStart` |
| Authentication | `server/auth.rs`, `app.rs` | none | checks of one request | the request gets the account of its token or cookie | parts of `TokenValidator`, `WebLogin` |
| OIDC caches | `server/oidc.rs` | discovery and JWKS caches | validate, invalidate, refetch | rotated keys are picked up, stale entries do not last, every request ends | `TokenValidator` |
| Browser login | `server/oidc_web.rs`, `ui.rs` | cookies | login, callback, logout | a code meets its own verifier only, logout ends every session, logins succeed | `WebLogin` |
| Browser uploader | `cloudsync-server/static/upload.js` | one hasher, chunk workers | hash, init, send chunks, finalize | announces the hash of the file it sends, every upload ends | `BrowserUpload` |
| Sync engine | `client/sync/*.rs`, `db.rs`, `scanner.rs`, `client.rs` | sync records, local files, `.part` files | `push`, `pull` | records truthful, edits not lost, uploads and downloads complete | `SyncClient` |
| Sync status | `client/sync/status.rs` | none | `status` | what it prints of a file the server has foretells what a pull would do | part of `SyncClient` |
| Client login | `client/auth/*.rs`, `main.rs`, `client.rs` 40-60 | tokens in memory, timers | loopback and device login, `bearer`, `refresh` | no expired token is sent, no token is spent twice by accident, an approved code is redeemed, logins end | `ClientLogin` |
| Client configuration | `client/config.rs`, `main.rs` | `.cloudsync/config.toml` | `init`, `save`, `load` | what is on disk is whole | `ClientLogin` |
| Server configuration, command lines, deployment | `server/config.rs`, `cli.rs`, ... | - | parsing | - | not modelled: values become CONSTANTS |

How the parts interact, and what is hard:

- Handlers run on tokio's multi-threaded runtime and call the service
  synchronously. They meet in redb, which has one write transaction at a time
  and shows readers the last commit, and in the file system, where nothing is
  locked. Hard: effects on disk before, after and without a transaction;
  failures and crashes between them; the state a handler read in a transaction
  that is over.
- The client runs one sync at a time per machine, because redb refuses to
  open its database twice. Machines meet only on the server. Hard: the user
  edits files while a command runs, commands are interrupted and resumed,
  answers get lost, the list a pull works on gets older.
- The page runs one JavaScript turn at a time; the uploads of several files
  interleave at every `await`. Hard: they share the hasher.
- Bearer tokens are validated in async functions that hold no lock while they ask
  the identity provider. Hard: answers are stored late and in any order, keys
  rotate, and a future can be dropped at any `await`.
- The tabs of a browser share their cookies, and the server keeps nothing between
  login and callback. Hard: tabs overwrite and clear each other's state cookie,
  answers are lost after a code was spent.
- Commands in one directory share `config.toml`, which `init` and `login` write
  without a lock, and which a sync reads once. The requests of a sync share the
  tokens it read behind a mutex. Hard: a save is cut off or meets another one,
  requests refresh at once, answers are late or lost, the provider rotates
  refresh tokens or ends the session, a timer runs out during any await.
- The server process is started again after a crash, maybe with another
  configuration. Hard: what an interrupted start left.

`PROJECT.json` lists the hazards line by line.

## Modules

| Module | Role |
|---|---|
| `VersionedFiles` | abstract: what rows and blobs promise to the clients of the server |
| `TenantStore` | detailed: the storage core; refines `VersionedFiles` |
| `TenantStoreProofs` | proofs about `TenantStore`: types, blobs, sessions and tenants |
| `TenantStoreContents` | proofs about `TenantStore`: what rows hold, versions, the refinement, charges and the quota |
| `SyncClient`, `SyncClientProofs` | push, pull and status of several machines over an atomic server, with proofs |
| `ServerStart`, `ServerStartProofs` | start-up, migration and tenant admission, with proofs |
| `BrowserUpload`, `BrowserUploadProofs` | the upload page, with proofs |
| `TokenValidator`, `TokenValidatorProofs` | the validation of bearer tokens and its caches, with proofs |
| `WebLogin`, `WebLoginProofs` | login, callback and logout of one browser with several tabs, with proofs |
| `ClientLogin`, `ClientLoginProofs` | the command line client's logins, its configuration and its tokens, with proofs |
| `MCTenantStore`, `MCSyncClient`, `MCServerStart`, `MCBrowserUpload`, `MCTokenValidator`, `MCWebLogin`, `MCClientLogin` | the finite constants of the runs |

Definitions whose comment begins with "Plausible bug" or "Mutant of" are not
part of the model: each is a changed form of the definition after it that one of
the properties excludes (`PROJECT.json`, "mutants").

### TenantStore

State: the tables `files`, `uploads`, `usage`; the directories as `blob[t][c]`
(length of the file named by the hash of `c`, or `Absent`), `stagingDirs` and
`chunk[u][i]`; per worker the program counter, the request and the locals that
outlive a step. One action per place where another handler or a crash can come
between two effects: `CreateFile` (quota check under the write transaction),
`OpenBlob`, `FillBlob`, `CreateCommit`; `DeleteFile` (read transaction),
`DeleteWrite` (write transaction); `GetFile`, `ServeBlob`; `CreateUpload`,
`MakeDir`; `ReplaceChunk`, `OpenChunk`, `FillChunk`, `AddChunk`;
`FinalizeUpload`, `CopyChunk`, `Persist`, `FinalizeCommit`, `UnlinkChunks`,
`RemoveDir`; `UnlinkChunks` removes one chunk file at a time, so that a failure or
a crash leaves any of them. `IoError` is an error at any step of a handler that
`Faults` names: a read of a table, `begin_write`, a system call or a commit.
`Crash` ends the process: tables and files survive. A crash half way through
`storage::write` needs `fill_blob` in `Faults` as an error there does, since both
leave the same short file (Findings). What a write transaction has
changed needs no copy before its commit: nobody else can change the tables, so it
is computed at the commit.

A content is its own hash. A chunk body is named by the content it was cut from;
the pieces of one content, complete and in order, are that content, and any
mixture is another one. `list_files` and `get_upload` only read and are no actions.
Sums of sizes are counted byte by byte (`TotalBytes`), which needs no recursion.

Properties: `TypeOK`; `QuotaHeld`, `ChargedAtMostOnce`, `ChargedExceptByCrash`
(the charge of a tenant against its quota, and against what is on disk);
`ReferencedBlobExists`, `RowIntact`, `DownloadIntact` (rows and their bytes);
`ReceivedChunkOnDisk`, `SessionStaysGone` (sessions); `TenantIsolation`;
`WriterReleased` (liveness); `VersionMonotonic` (does not hold, see Findings);
`KeepsFiles`, the refinement of `VersionedFiles`.

### SyncClient

State: for every machine the local files (`.part` files are files of the same
directory, named by `PartOf`, and the scanner finds them like any other), the
conflict copies, the sync records, and the command under way; on the server the
rows, with every content a path had, and the upload sessions. The server takes
each request at once or not at all, which is what the properties of `TenantStore`
give its callers. Actions follow `push` (`StartPush`, `PushNext`, `CreateFile`;
`ResumeUpload`, `InitUpload` or, when a lost `get_upload` gives a live session up
for a new one, `GetUploadFails`; `ReadChunks`, `SendChunk`, `Finalize`; then
`StartDeletions`, `DeleteNext`) and `pull` (`StartPull`, `PullNext`,
`SaveConflict`, `Fetch`, `Install`, `SaveRecord`, `Finish`), each request with the
action that loses it or its answer. `Kill` ends a client, `Edit` is the user.

A content is a sequence of blocks and its own hash. A request and the saving of
its answer are one step: nobody else reads the record, and a process that ends in
between is a request whose answer is lost. Abstractions: a file is at most one
batch of chunks (the code sends batches of five and records nothing in between);
conflict copies get names nothing else uses, and are not pushed in their turn; a
`.part` file is pushed, but not pulled into a `.part` file of its own; the size,
the reading and the hash of a file that is pushed are one step, and a file that
cannot be read ends the command or is passed over.

`status` changes nothing: `StatusOf` is the line it prints for a file, and
`PullDoes` what `pull` would do with it. `StatusForetellsPull` relates the two for
five of the lines: "new (server)" and "update (server)" are fetched, a "conflict"
gets a copy, an "update (local)" is left alone, and what has "no update" keeps its
bytes, though they may be fetched again. It says nothing of "new (local)" and
"deleted (local)", for which `status` does not look at the server (Findings).

Properties: `TypeOK`, `RecordTruthful`, `WholeFiles`, `TrackedEditKept`,
`StatusForetellsPull` (`status` compares hashes, `pull` versions);
`EventuallyPushed` and `EventuallyPulledOrFull` (liveness). `RecordTruthful` and
`EventuallyPushed` are about files below the chunk size, see Findings.

### ServerStart

State: the rows as `[ns, path, old]`, where `ns` is the namespace of the key or
`None`, the schema version, the table `tenants`, the step and configuration of the
process, the requests, the write transaction. `Start` picks a configuration,
`Migrate` reads, `Rekey` commits all rows at once, `Inc` commits the version, and
only then requests are served: `Receive`, `BeginAdmission` (waits for the write
transaction), `CheckAdmission` (tenant first, then the count), `CommitAdmission`,
`Handle`, `Respond`. `Fail` is an error of redb, `Crash` ends the process.
`Handle` stands for the handlers of `TenantStore`: it puts a row of the request's
tenant or changes none.

Properties: `TypeOK`, `ServedMigrated`, `OldTogether`, `OldKept`, `TenantLimit`,
`AdmittedServed`, `RowsOfAdmitted`.

### BrowserUpload

State: per file the step of its `uploadFile`, the chunks read, the announced hash,
the next chunk and the chunks in flight of `runWithConcurrency`; the shared hasher
with what it was fed since `init`; on the server the chunks of each session, the
stored contents and what is under each path. `InitHasher`, `Update` and `Digest`
are the turns of `hashFile`; `InitUpload`, `PutChunk`, `RunOne`, `Finalize`,
`GiveUp` those of `uploadFile`; `ReadFails`, `InitUploadFails`, `PutChunkFails`
and `FinalizeFails` lose a read, a request or an answer. The server's part is
`Accepts`: a complete session whose content has the announced hash, or a hash that
is stored already with the announced size.

`overlap` and `fault` are history variables, for properties that must say why
something went wrong: `AloneHashesItself`, `FailureExplained`. The others are
`TypeOK`, `MixtureRefused`, `EveryUploadEnds` (liveness), and `AnnouncesOwnHash`,
which does not hold.

### TokenValidator

State: the provider's keys and discovery document, the two caches, and per request
its step and the locals of `validate`. Keys are numbers in the order the provider
makes them; a token is the `kid` of its header and whether its signature and
claims are right. The steps are the awaits of `oidc.rs`: `ReadWellKnown`,
`AnswerDoc` (what the provider answers, at that moment), `StoreDoc` (when the
answer is stored, which may be much later), `ReadJwks`, `AnswerKeys`, `StoreKeys`,
and `Verify`, which decides or empties the cache and reads it again (`Retry`).
`Discover` is the same way without a token, for the login page. `FetchFails` is a
fetch that fails, `Drop` a closed connection. An entry that is too old is no
entry: `ExpireWellKnown` and `ExpireJwks` take it away at any time after it was
stored, since nothing but its age is read. A restart of the server is the same.

`known` and `late` are history: whether the token's key was published from its
arrival on, and whether another request held an answer without it when this one
emptied the cache. Properties: `TypeOK`, `KeyRefusedByRace`, `EventuallyExact`
(the verdicts become those of a validator without caches) and `ValidationEnds`
(liveness).

### WebLogin

State: the browser's three cookies, per login the step it is at, the state cookie
that went along with its callback and whether a text in it contains the separator
`|`; at the provider the codes that were exchanged. A login stands for its state,
its verifier and the account its user signs in with. A request takes the cookies
along when it is sent (`SendCallback`, `SendError`), the handler reads only those
(`HandleCallback`, `HandleError`, `HandleNothing` for a callback without error,
code or state, `Exchange`, `Validate`), and its answer changes
the browser's when it arrives (`LoginArrives`, `SessionArrives`, `ErrorArrives`),
or is lost (`SessionLost`); `Reload` sends a callback again. `LoginSubmit` and
`Logout` are the handlers of `ui.rs`, `Identity` is `cookie_auth_layer`. Signing
is not modelled: a cookie that the browser has is one the server made.

`exchanges`, `disturbed`, `fault` and `out` are history variables. Properties:
`TypeOK`, `OwnVerifier`, `LoggedOut`, and `LoneLoginSucceeds` and
`SomeTabSucceeds` (liveness).

### ClientLogin

State: of the directory, whether `.cloudsync` is there, what `config.toml` holds
(the tokens of an OIDC login, `Static`, or `Torn` when it is not whole) and which
process has `sync.redb` open; per process its command and step, the timers of its
login, the credentials in its memory, and the requests of its batch; at the
provider which refresh token of each chain it takes next, and the chains it has
ended. A login begins a chain of refresh tokens, and a rotation moves it on.

Actions: `StartInit`, `StartLogin`, `StartSync`, `MakeDir`; then `FetchAuthInfo`,
`FetchDiscovery` and, for the loopback flow, `OpenBrowser` (which blocks, so that
the timeout of the login does not cut it short), `AcceptCallback`, `AcceptOther`,
`ExchangeCode`, `Timeout`, for the device flow `IssueCode`, `ShowCode`, `Wake`,
`Poll`, and for both `Approve`, `ReceiveToken`; `OpenConfig` (truncates),
`WriteConfig`, `OpenDb`. A sync goes through `LoadConfig`, `OpenDb`, `Health`, and
each of its requests through `Bearer`, `Refresh` and `Renew` or `LoseRefresh`, batch
after batch (`NextBatch`). `Abort` is an error or the end of the process at any
step; while it saves, it leaves the file torn, or as another save has left it.
`EndSession` is the provider's, of a session in the file or in a process's memory,
`Deny` the user's. `Poll` may be told to slow down although the code is approved.
`StartLogin` takes either flow: which one the flags and the terminal pick is left
open.

Time is what is left of each timer and each token, and `Tick` takes one off all of
them, but not while a timer that has run down waits to be served. The client counts
`expires_at` from the arrival of an answer; `late` is how long it was on its way,
so that a token's own end is earlier than the client believes.

Abstractions: one directory, found at once (`find_sync_root` also searches the
directories above); two runs of the client that sync exclude each other by the
database, so that a second one is only in the model as a login beside a sync; the
verifier and the state parameter are in the model only in that the callback of
another login ends this one.

Properties: `BearerInTime` (action property), `RefusalExplained`, `ConfigWhole`,
and `LoginEnds` and `ApprovalRedeemed` (liveness). `hurt`, `missed` and `spoiled`
are history variables for their exceptions.

## Runs

| Run | Shows |
|---|---|
| `store_faults` | all operations that write, two workers, an upload of up to two chunks, an error at any step of a handler but inside `storage::write`, one crash: `ChargedAtMostOnce`, `ReferencedBlobExists`, `QuotaHeld`, `RowIntact`, `ReceivedChunkOnDisk`, `SessionStaysGone` |
| `store_refines` | two tenants, everything but deletes, one crash, fairness: `KeepsFiles` (the refinement), `DownloadIntact`, `ChargedExceptByCrash`, `TenantIsolation`, `WriterReleased` |
| `sync_small` | files below the chunk size; one machine pushes, one pushes and pulls: `RecordTruthful`, `StatusForetellsPull`, `TrackedEditKept`, `EventuallyPushed`, `EventuallyPulledOrFull` |
| `sync_chunked` | two-chunk files on two machines that push and pull: `TypeOK`, `WholeFiles` |
| `server_start` | three starts, each with any of three default tenants and the limit 1 or 2, two workers: all properties of `ServerStart` |
| `browser_upload` | three drops of two three-chunk files and an empty one, two workers per file: all properties of `BrowserUpload` that hold |
| `token_validator` | two requests, two keys, three discovery documents, four kinds of token: all properties of `TokenValidator` that hold |
| `web_login` | two tabs and one reload: all properties of `WebLogin` |
| `client_login` | two processes, one that runs `init` and loopback logins, one that runs device logins and syncs of two requests at once; every kind of provider, whose interval is 0 until it says slow down: all properties of `ClientLogin` |
| `delete_race`, `resume_never`, `mixed_hash` | counterexamples, see Findings |

TLAPS proves the type invariants, and the runs do not repeat them but for
`sync_chunked`: that of `SyncClient` also ties an upload to its file.

Bounds, and why they are enough for what the runs ask:

- Store: one path, since paths never meet; two contents of sizes 1 and 2 under a
  quota of 2, so that a reservation, a charge and a refusal all happen; sessions
  that announce size 1, which is right for one content and too short for the
  other; one or two chunks, since a session's chunks are alike;
  versions up to `MaxVersion`, enough for an overwrite of an overwrite; one
  crash, since a second one finds no state that the first did not. Workers are
  interchangeable, and symmetry is used for safety only. One session at a time is
  open in `store_faults`, so `QuotaHeld` sees a reservation against single-request
  puts; the sum over several sessions is only as good as `TenantUploads`.
- `store_faults` leaves `get_file` to `store_refines`, since it changes nothing,
  and a `storage::write` that fails half way to the proofs, since it breaks
  `RowIntact` (Findings).
- Store without deletes in `store_refines`: `DeleteWrite` does not refine
  `VersionedFiles`, which is the finding of `delete_race`. Without I/O errors,
  since a torn blob breaks what it promises of contents (Findings).
- Sync: one file and its `.part` file, contents of one and two blocks (a download
  that goes on with another version needs two lengths), three edits, and one
  mishap: a lost request or answer, or a killed client. `sync_chunked` has
  `ChunkSize` 1 and two-block contents, so every upload has two chunks.
- Start-up: two old paths can end up apart, two workers race, and three tenants
  are one more than the larger limit; three starts interrupt a migration twice.
- Page: two files of one length with a common tail can be mistaken for each other;
  three chunks for two workers make one worker take a second chunk; three drops
  let a file be dropped again.
- Validator: one rotation and one change of the document make every entry and
  every answer under way an old one; a third request would hold one more of the
  same answers. Entries of documents and keys expire any number of times.
- Login: two tabs are all it takes to overwrite and clear each other's cookie.
  `SomeTabSucceeds` is about any number of tabs, and two is what was checked.
- Client: a lifetime of two ticks with a margin of one has a fresh token, one to
  refresh and an expired one. A device code of two ticks, polled at once at first,
  is redeemed after one `slow_down` and comes to its deadline after two; two commands
  are two logins whose saves meet, or a login and the sync that uses its tokens, and
  two renewals a rotation after a rotation.

The bounded store, start-up, page and logins stop when they reach their bounds, and a
page with no uploads does nothing: these configurations turn the deadlock check
off. In the sync runs a machine can always start a command, and it is on.

### Fairness

- `TenantStore`: weak fairness of a handler's steps. Handlers are
  synchronous and the runtime runs them. A handler that waits for the write
  transaction is promised nothing, since redb wakes waiters in any order; the
  liveness properties only say that a transaction ends.
- `SyncClient`: weak fairness of a command's steps, and strong fairness of
  starting a command. Nothing in the code starts commands; the user does, again
  and again, and the properties say what repeated commands achieve.
- `TokenValidator`: weak fairness of a request's steps, the provider's answers
  included, and of the ageing of each cache. The code sets no timeout, so that the
  provider answers or fails is an assumption about the provider.
- `WebLogin`: weak fairness of handlers, requests and answers. What users do is
  not fair; `SomeTabSucceeds` says in its antecedent that they sign in.
- `ClientLogin`: strong fairness of time, which stops for a timer that has run down
  and goes on between the polls however short their interval is; weak fairness of
  each process's own steps, of `OpenBrowser`, and of the answers to the requests of
  a device login. Nothing ends `webbrowser::open` (`client/auth/loopback.rs` 91) or
  a request of the device flow, so that they return is an assumption; nothing is
  assumed of the answers and the connection a loopback login waits for, since its
  timeout ends it.
- `ServerStart` is checked for safety only and states no fairness.
- `BrowserUpload`: weak fairness of each file's next turn, failing ones
  included. A browser ends every read and request with an answer or an error.

## Proofs

TLAPS proves the following for all values of the constants: every safety
invariant and every action property of the passing runs, and the refinement. The
assumptions are those of the modules: sizes, limits and bounds are natural
numbers, `None`, `Static` and `Torn` are no members of the other sets (`None` is no
row either), a file of the page is a sequence, and upload ids, stored contents and
the paths of a server's first start are finitely many: ids and hashes have a fixed
length, and a table has finitely many rows. Where a theorem needs more, it says so
in an `ASSUME` of its own:

| Theorem | Hypothesis | Why it is needed |
|---|---|---|
| `RowsStayIntact`, `DownloadsIntact`, `KeepsTheFiles` | `"fill_blob" \notin Faults` | a write that fails half way leaves a short blob, which the next put takes for the content (Findings) |
| `VersionsNeverFall`, `KeepsTheFiles` | `"delete_file" \notin Ops` | run `delete_race`: a delete undoes a put that is committed while it waits |
| `ChargedButForCrashes` | `Faults` has none of `fill_blob`, `create_commit`, `finalize_commit` | a commit that fails leaves its blob uncharged as a crash does, but any number of times |
| `RecordsTellTheTruth`, `StatusIsRight`, `TrackedEditsKept` | `SmallFiles`: contents are below the chunk size | a resumed upload may finalize another content than its record names (Findings) |

- `TenantStoreProofs!TypeCorrect`: `Spec => []TypeOK`. `TypeOK` is not inductive:
  that a commit writes a row needs that the request is one of `create_file`, that
  a finalize finds its session needs that nobody could delete it meanwhile. The
  invariant `TypeInv` adds `RequestOK` (the checks a request passed still hold at
  each later step), `LockOK` (exactly the worker in a locked step holds the write
  transaction) and `FinalizingOwn` (the session read under the lock is there).
  One lemma per action; three lemmas carry what replying, going to the next step
  and taking the lock have in common.
- `TenantStoreProofs!BlobNeverMissing`: `Spec => []ReferencedBlobExists`.
  `BlobInv` adds what a handler between its steps knows about the blob its row
  will name. Blobs never go away (`BlobsStay`), so what was seen on disk under the
  lock is there at the commit; a failing or crashing write leaves a short file,
  never none.
- `TenantStoreProofs!ReceivedChunksKept`, `FinalizedStaysGone`,
  `TenantsIsolated`: the session properties. `SessionInv` says that an id is drawn
  once (`IdsUnique`), that a live session is known, that a handler between two
  writes of a chunk works for a session of its own tenant that is live or gone for
  good, and that cleanup works on one that is gone. Frame lemmas name the actions
  that can change chunk files, directories, ids and sessions.
- `TenantStoreContents!RowsStayIntact` and `DownloadsIntact`. `IntactInv` says that
  every blob is whole but one that a handler fills at the moment, and that a handler
  about to commit or to serve a row has seen a whole one; no file is written over,
  since who opens one for writing has found none under the write transaction.
- `VersionsNeverFall` and `KeepsTheFiles`: with `NoDeletes` (no handler is in the
  middle of a delete) rows change only in the commits of puts, each of which is a put
  of `VersionedFiles`; every other step changes nothing its clients see.
- `ChargedOnce`, `QuotaNeverExceeded`, `ChargedButForCrashes`: sums. The lemmas on
  `TotalBytes` say what one more or one less summand does. `Charged` is what a tenant
  is charged plus what the holder of the write transaction will charge when it
  commits, `Volume` the bytes stored plus those of the file it makes next: the two
  move together (`BooksStep`), but for crashes and failures, which may drop the first
  only. `ChargeInv` and `FreeInv` bound their difference from both sides.
  `QuotaInv` bounds `Charged` and the reservations of the contents not yet stored by
  the quota, so that `finalize_upload`, which looks at no quota, spends what
  `create_upload` has reserved. `FoundInv` keeps what the handler saw when it looked
  for the blob, and that a tenant with a session has a usage record.
- `SyncClientProofs!TypeCorrect`: `TypeInv` adds what each stage of a command says of
  its file, hash and upload. Lemmas then say, once for all actions, what a step can do
  to the rows (`RowsStep`), the sessions, the disks (`LocalStep`) and the records
  (`RecordStep`), and where the file of a command comes from (`PullMoves`,
  `PushMoves`); the invariants below are proved from these and never look at an
  action.
- `SyncClientProofs!FilesStayWhole`, with chunked uploads: `WholeInv` follows contents
  from disk to command, session, row, list and back.
- `SyncClientProofs!RecordsTellTheTruth`, `StatusIsRight`, `TrackedEditsKept`:
  `SmallInv` says that all contents on their way are below the chunk size, so that no
  command is at a stage of an upload, and that what is listed, fetched and recorded
  was put under the version it carries (`AsPut`). `status` agrees with `pull` because
  a record is never ahead of the list, and level with it only with the same hash.
- `ServerStartProofs`: `StartTypeCorrect`, `ServesMigrated`, `OldRowsTogether`,
  `OldRowsKept`, `RowsAreOfAdmitted`, `LimitKept`, `AdmittedIsServed`. The invariant
  `IInv` adds `BootInv` (where the rows are at each step of start-up), `OldInv` (old rows
  share one namespace, which may be none) and `AdmissionInv` (the worker between
  its check and its commit holds the write transaction, its tenant is new and
  there is a free place), which is what makes racing first requests harmless. For
  `OldRowsKept`, `Apart` says that rows with and without a namespace never meet in
  the table, so that no row is moved onto another one.
- `TokenValidatorProofs`: `ValidatorTypeCorrect`, and `RefusedByRaceOnly`, which
  is `Spec => []KeyRefusedByRace`. `IInv` adds `KnownInv` (the key of a known token
  is published), `VerdictInv`, and `RetryInv`: once a request has emptied the cache
  with no older answer under way, the entry, the answers still to be stored and
  what it has read itself all have its key. Most steps are `Quiet`: they bring
  nothing to the cache and read no keys, and one lemma keeps the invariant for all
  of them.

- `WebLoginProofs`: `LoginTypeCorrect`, `CodesMeetOwnVerifier` and
  `LogoutComplete`, which are `OwnVerifier` and `LoggedOut` for any number of tabs.
  `IInv` adds that a callback past the comparison of states was sent with its own
  login's cookie, and that logged out means that both session cookies are gone.
- `BrowserUploadProofs`: `UploadTypeCorrect`, `AloneHashed`, `MixturesRefused` and
  `FailuresExplained`, for files of any length and any number of workers. `IInv` adds
  `HashInv` (a file that hashes alone has fed the hasher exactly what it has read)
  and `SendInv` (without a failed request every chunk that was taken is under way
  or received, and all are taken before the workers stop).
- `ClientLoginProofs`: `ClientTypeCorrect`, `ConfigStaysWhole`, `RefusalsExplained`
  and `BearersInTime`. A refused refresh is explained by `IInv`: command numbers are
  unique (`IdInv`), the mutex lets one request of a batch refresh (`BatchInv`), no
  token is ahead of the provider (`BehindInv`), the answer on its way is the
  successor of the token in memory (`AnswerInv`), and so a command that rotated
  last and missed nothing holds the newest token or has it on its way
  (`KnowsInv`). Steps are first sorted by what they do to tokens (`Effect`), and
  each conjunct is proved once per effect.

Only model-checked: liveness (`WriterReleased`, `EventuallyPushed`,
`EventuallyPulledOrFull`, `EveryUploadEnds`, `EventuallyExact`, `ValidationEnds`,
`LoneLoginSucceeds`, `SomeTabSucceeds`, `LoginEnds`, `ApprovalRedeemed`): it rests on
fairness and ENABLED, which are out of the prover's reach. Contents are compared,
never hashed, so nothing about BLAKE3 or JWT cryptography is modelled or proved.

## Findings

Runs that end in a counterexample, each against what the repository says:

- `delete_race` (`VersionMonotonic`): `delete` writes back the row it read before
  its write transaction; a put committed in between is lost, and the version goes
  back.
- `resume_never` (`EventuallyPushed`): the record of a first chunked upload has
  the file's hash before the first chunk is sent; once interrupted, the file
  is skipped by every later push.
- `mixed_hash` (`AnnouncesOwnHash`): files dropped together share one hasher, and
  announce hashes of mixed bytes. The server refuses the mixture, so that
  dropping several files fails, unless the mixture is a stored content of the same
  size: then one file's path gets another file's content, and the page shows
  "done".

Seen while modelling, without a run of their own:

- The retry for an unknown `kid` empties the cache and reads it again
  (`server/oidc.rs` 118-119), and may find there the answer of another request from
  before the rotation (182-183): it fetches nothing and refuses a token whose key
  is published. `KeyRefusedByRace` says that this is the only way.
- A rotated refresh token is kept in memory only (`client/auth/mod.rs` 113), so
  that with a provider that rotates, the next command starts from a spent token and
  the user has to log in again; even with one that does not, every command
  refreshes anew. `docs/plan-keycloak-login.md` 259 has "persist new { access_token,
  refresh_token, expires_at } to config", and 368 tests for it.
  `RefusalExplained` has a token spent by an earlier command as its exception.
- A first login that fails leaves `.cloudsync` behind, and `init` then says "Already
  initialized" (`client/main.rs` 18-20, 58-61).
- The configuration is truncated and filled in place (`client/config.rs` 111): a crash in
  between, or the saves of two logins that overlap, leave one that cannot be read.
  `ConfigWhole` says that these are the only ways.
- The help of `init` calls it and `login` mutually exclusive in one directory
  (`client/cli.rs` 13); `login` replaces what `init` has saved (`client/main.rs` 55-57).
- A comment says that the lock of the tokens is released before an await
  (`client/client.rs` 17-18); `bearer` holds it across the refresh, which is what
  keeps concurrent requests from spending one token twice.
- The loopback page says that cloudsync is signing the user in before the code is
  looked at (`client/auth/loopback.rs` 188).
- `storage::write` fills a blob at its final name. With `fill_blob` added to the
  `Faults` of `StoreFaults.cfg`, TLC shows a failed write whose short file is taken for the
  blob by the next put of that content.
- A resumed upload finalizes the content its session was opened for, and the sync
  record names the file as it is now (`push.rs` 110-118, 207-214): `RecordTruthful`
  does not hold in the chunked instance.
- `pull` replaces a file that has no sync record without comparing it with anything
  (`pull.rs` 35-42), though `status` calls it "new (local)"; and it brings back what
  `status` calls "deleted (local)" when the server has a newer version.
  `TrackedEditKept` and `StatusForetellsPull` leave both out.
- `return_to`, `sub` and `email` may contain the `|` that separates the fields of
  the cookies, though a comment says that they never do (`oidc_web.rs` 76-78): the
  callback then finds an expired session, or the session cookie is none.
- An error answer of the provider is taken before its state is compared, and it
  clears the state cookie of whichever tab it is of (`oidc_web.rs` 388-400).
  `LoneLoginSucceeds` leaves out the logins another tab disturbs.
- A `.part` file that is complete is answered with 416 for ever;
  `EventuallyPulledOrFull` says that this is the only way a pull misses a file.
- A session whose staging directory could not be made, and an upload that is never
  finalized, keep their reservation. The roadmap plans the purge.

## Not modelled

- `find_sync_root`'s search of the directories above, the older form of the
  configuration file, command lines and progress bars.
- The server's configuration, which ends up as CONSTANTS; routing, body limits,
  status codes, JSON and the HTML pages, which change no state; logging.
- Deployment: the Keycloak realm, Caddy, Docker, observability.
- Cryptography: BLAKE3, JWT signatures, the signing of cookies, PKCE.
- A provider that accepts a connection and never answers, except for a loopback
  login. The server sets no timeout (`server/oidc.rs` 156), and nothing would end the
  request.

## Plan

Done: `VersionedFiles`, `TenantStore`, `SyncClient`, `ServerStart`,
`BrowserUpload`, `TokenValidator`, `WebLogin`, `ClientLogin`, and the proofs of
their invariants and action properties. What is left is proofs:

1. Narrower hypotheses: `VersionMonotonic` with deletes as long as no put is
   committed while one waits, and `RecordTruthful` with chunked files whose uploads
   are not resumed.
2. What `VersionedFiles` itself promises, as theorems about it that the refinement
   carries over to the store.
