---------------------------- MODULE TenantStore ----------------------------
(***************************************************************************)
(* The storage core of cloudsync-server: TenantFileService (service.rs)    *)
(* over the redb tables (db/*.rs) and the blob and staging directories     *)
(* (storage.rs).                                                           *)
(*                                                                         *)
(* Each worker is a request slot of the multi-threaded server.  A handler  *)
(* is split where another handler, or a crash, can come between two of its *)
(* effects: a read transaction, a write transaction, and every file system *)
(* operation are steps of their own.  redb admits one write transaction at *)
(* a time (begin_write blocks), readers see the last commit, and a write   *)
(* transaction that is dropped leaves no trace.  Nobody but its holder can *)
(* change the tables while a write transaction is open, so what the holder *)
(* read at its start is still in the tables when it commits, and its       *)
(* uncommitted rows need no copy: they are computed at the commit.         *)
(*                                                                         *)
(* A content is identified with its hash.  A chunk body is named by the    *)
(* content it was cut from: the pieces of one content, complete and in     *)
(* order, are that content, and any mixture hashes to something else.      *)
(***************************************************************************)
EXTENDS Integers, FiniteSets, Sequences, FiniteSetsExt

CONSTANTS
    Tenant,         \* tenant ids
    Path,           \* file paths
    Content,        \* file contents
    Size,           \* Size[c]: length of content c in bytes
    UploadId,       \* the nanoids create_upload may draw
    ClaimedSize,    \* values of total_size a client may announce
    MaxUploadSize,  \* max_upload_file_size of the configuration
    MaxChunkCount,  \* MAX_CHUNK_COUNT of app.rs
    Quota,          \* default_user_quota_bytes
    Worker,         \* request slots
    Ops,            \* the operations clients call
    Faults,         \* the steps at which a system call may fail
    MaxCrashes,     \* bound on server crashes
    MaxVersion,     \* bound: no new create_file once a row has this version
    None,           \* no row, no request, nobody
    Torn            \* a chunk file whose bytes are nobody's piece

Absent == -1        \* no such file, no such usage record
Index == 0..(MaxChunkCount - 1)

ASSUME SizeAssumption ==
    /\ Size \in [Content -> Nat]
    /\ ClaimedSize \subseteq Nat
    /\ MaxUploadSize \in Nat
    /\ MaxChunkCount \in Nat \ {0}
    /\ Quota \in Nat
    /\ MaxCrashes \in Nat
    /\ MaxVersion \in Nat

ASSUME NoneAssumption ==
    /\ None \notin Worker
    /\ None \notin Content
    /\ Torn \notin Content
    /\ Torn # None

\* An id is 21 letters of an alphabet, and a content is named by its hash.
ASSUME FiniteAssumption ==
    /\ IsFiniteSet(UploadId)
    /\ IsFiniteSet(Content)
    /\ Content # {}

VARIABLES
    files,        \* table "files":   files[t][p] is None or a row
    uploads,      \* table "uploads": uploads[u] is None or a session
    usage,        \* table "usages":  charged bytes, or Absent
    blob,         \* blob[t][c]: length of the file named by c's hash, or Absent
    stagingDirs,  \* upload ids with a staging directory
    chunk,        \* chunk[u][i]: the chunk file, None if there is none
    minted,       \* upload ids drawn so far
    writer,       \* the worker that holds the write transaction
    pc, req,      \* per worker: next step, and request
    row,          \* per worker: the row a read transaction returned
    exist,        \* per worker: whether the blob was there already
    temp,         \* per worker: the pieces in its temporary file
    crashes       \* crashes so far

tables == <<files, uploads, usage>>
disk == <<blob, stagingDirs, chunk>>
locals == <<row, exist, temp>>
vars == <<files, uploads, usage, blob, stagingDirs, chunk, minted, writer,
          pc, req, row, exist, temp, crashes>>
-----------------------------------------------------------------------------
(* Rows, sessions and requests.                                            *)

Row == [version: Nat \ {0}, content: Content, is_deleted: BOOLEAN]
ASSUME RowAssumption == None \notin Row

Upload == [tenant: Tenant, path: Path, total_hash: Content,
           total_size: ClaimedSize, chunk_count: 1..MaxChunkCount,
           chunks_received: SUBSET Index]

CreateFileRequest ==
    [op: {"create_file"}, tenant: Tenant, path: Path, content: Content]
DeleteFileRequest == [op: {"delete_file"}, tenant: Tenant, path: Path]
GetFileRequest == [op: {"get_file"}, tenant: Tenant, path: Path]
InitUploadRequest ==
    [op: {"create_upload"}, tenant: Tenant, path: Path, total_hash: Content,
     total_size: ClaimedSize, chunk_count: 0..(MaxChunkCount + 1),
     upload_id: UploadId]
ReplaceChunkRequest ==
    [op: {"replace_chunk"}, tenant: Tenant, upload_id: UploadId,
     index: 0..MaxChunkCount, body: Content]
FinalizeRequest ==
    [op: {"finalize_upload"}, tenant: Tenant, upload_id: UploadId]

Request == CreateFileRequest \cup DeleteFileRequest \cup GetFileRequest
             \cup InitUploadRequest \cup ReplaceChunkRequest
             \cup FinalizeRequest

\* The steps of the handlers.  The first step of a handler has its name.
FirstStep == {"create_file", "delete_file", "get_file", "create_upload",
              "replace_chunk", "finalize_upload"}
\* The steps during which a handler holds the write transaction.
LockedStep == {"open_blob", "fill_blob", "create_commit", "copy_chunks",
               "finalize_commit"}
Step == FirstStep \cup LockedStep \cup
        {"idle", "serve_blob", "delete_write", "make_dir", "open_chunk",
         "fill_chunk", "add_chunk", "unlink_chunks", "remove_dir"}

TypeOK ==
    /\ files \in [Tenant -> [Path -> Row \cup {None}]]
    /\ uploads \in [UploadId -> Upload \cup {None}]
    /\ usage \in [Tenant -> Nat \cup {Absent}]
    /\ blob \in [Tenant -> [Content -> Nat \cup {Absent}]]
    /\ stagingDirs \subseteq UploadId
    /\ chunk \in [UploadId -> [Index -> Content \cup {None, Torn}]]
    /\ minted \subseteq UploadId
    /\ writer \in Worker \cup {None}
    /\ pc \in [Worker -> Step]
    /\ req \in [Worker -> Request \cup {None}]
    /\ row \in [Worker -> Row \cup {None}]
    /\ exist \in [Worker -> BOOLEAN]
    /\ temp \in [Worker -> Seq(Content \cup {Torn})]
    /\ crashes \in 0..MaxCrashes

Init ==
    /\ files = [t \in Tenant |-> [p \in Path |-> None]]
    /\ uploads = [u \in UploadId |-> None]
    /\ usage = [t \in Tenant |-> Absent]
    /\ blob = [t \in Tenant |-> [c \in Content |-> Absent]]
    /\ stagingDirs = {}
    /\ chunk = [u \in UploadId |-> [i \in Index |-> None]]
    /\ minted = {}
    /\ writer = None
    /\ pc = [w \in Worker |-> "idle"]
    /\ req = [w \in Worker |-> None]
    /\ row = [w \in Worker |-> None]
    /\ exist = [w \in Worker |-> FALSE]
    /\ temp = [w \in Worker |-> <<>>]
    /\ crashes = 0
-----------------------------------------------------------------------------
(* Control: what every handler does.                                       *)

At(w, step) == pc[w] = step
Goto(w, step) == pc' = [pc EXCEPT ![w] = step]

\* The handler returns, with a result or an error.
Reply(w) ==
    /\ Goto(w, "idle")
    /\ req' = [req EXCEPT ![w] = None]
    /\ row' = [row EXCEPT ![w] = None]
    /\ exist' = [exist EXCEPT ![w] = FALSE]
    /\ temp' = [temp EXCEPT ![w] = <<>>]

\* begin_write succeeds: no other write transaction is open.
WriterFree == writer = None
BeginWrite(w, step, found) ==
    /\ WriterFree
    /\ writer' = w
    /\ exist' = [exist EXCEPT ![w] = found]
    /\ Goto(w, step)
    /\ UNCHANGED <<req, row, temp>>

\* Mutant of Abort: the write transaction outlives the handler.
AbortKeepsWriter(w) ==
    /\ Reply(w)
    /\ UNCHANGED <<writer, tables, minted, crashes>>

\* The handler drops its write transaction uncommitted and returns an error.
Abort(w) ==
    /\ writer' = None
    /\ Reply(w)
    /\ UNCHANGED <<tables, minted, crashes>>

ExistStoragePath(t, c) == blob[t][c] # Absent

\* check_quota: an existing blob costs nothing; otherwise the bytes charged,
\* the bytes asked for and the bytes all open uploads announce must fit.
\* The sums are u64 and checked_add turns an overflow into QuotaExceeded,
\* which is what a sum above Quota, a u64 itself, gives here.
UsageOf(t) == IF usage[t] = Absent THEN 0 ELSE usage[t]
TenantUploads(t) == {u \in UploadId : uploads[u] # None /\ uploads[u].tenant = t}

\* The sum of size over S, counted byte by byte: <<x, i>> is byte i of x.
TotalBytes(size, S) == Cardinality(UNION {{x} \X (1..size[x]) : x \in S})
ReservedBytes(t) ==
    TotalBytes([u \in TenantUploads(t) |-> uploads[u].total_size], TenantUploads(t))

\* Mutant of CheckQuota: open uploads reserve nothing.
CheckQuotaNoReservations(t, c, size) ==
    ExistStoragePath(t, c) \/ UsageOf(t) + size <= Quota

CheckQuota(t, c, size) ==
    \/ ExistStoragePath(t, c)
    \/ UsageOf(t) + size + ReservedBytes(t) <= Quota

\* get_usage writes a record of 0 bytes when the tenant has none.
InitUsage(t) == [usage EXCEPT ![t] = UsageOf(t)]
Charge(t, size) == [usage EXCEPT ![t] = UsageOf(t) + size]

\* put_table: version 1, or one more than the row it replaces, deleted or not.
PutTable(t, p, c) ==
    [files EXCEPT ![t][p] =
       [version    |-> IF @ = None THEN 1 ELSE @.version + 1,
        content    |-> c,
        is_deleted |-> FALSE]]

\* Mutant of OwnUpload: the tenant of the session is not compared.
AnyUpload(t, u) == uploads[u] # None

\* get and get_tx of the uploads table: only the tenant's own session.
OwnUpload(t, u) == uploads[u] # None /\ uploads[u].tenant = t
-----------------------------------------------------------------------------
(* A request arrives.                                                      *)

\* validate_upload_request_body
ValidateUploadRequestBody(r) ==
    /\ r.total_size <= MaxUploadSize
    /\ r.chunk_count \in 1..MaxChunkCount

\* What the HTTP layer lets through to the service.  The id nanoid will draw
\* for create_upload is fixed here; MaxVersion only bounds the state space.
Admissible(r) ==
    /\ r.op \in Ops
    /\ r.op = "create_file" =>
         LET old == files[r.tenant][r.path]
         IN  old # None => old.version < MaxVersion
    /\ r.op = "create_upload" =>
         /\ ValidateUploadRequestBody(r)
         /\ r.upload_id \notin minted

Receive(w, r) ==
    /\ At(w, "idle")
    /\ Admissible(r)
    /\ req' = [req EXCEPT ![w] = r]
    /\ Goto(w, r.op)
    /\ minted' = IF r.op = "create_upload" THEN minted \cup {r.upload_id}
                                           ELSE minted
    /\ UNCHANGED <<tables, disk, writer, locals, crashes>>
-----------------------------------------------------------------------------
(* create_file: the blob is written before the commit.                     *)

\* Mutants of CreateFile: the row is committed and the blob left for later; an
\* existing blob is written again.
CreateFileRowFirst(w) ==
    /\ At(w, "create_file")
    /\ BeginWrite(w, "create_commit",
                  ExistStoragePath(req[w].tenant, req[w].content))
    /\ UNCHANGED <<tables, disk, minted, crashes>>
CreateFileRewrites(w) ==
    /\ At(w, "create_file")
    /\ CheckQuota(req[w].tenant, req[w].content, Size[req[w].content])
    /\ BeginWrite(w, "open_blob",
                  ExistStoragePath(req[w].tenant, req[w].content))
    /\ UNCHANGED <<tables, disk, minted, crashes>>

CreateFile(w) ==
    /\ At(w, "create_file")
    /\ WriterFree
    /\ LET t == req[w].tenant
           c == req[w].content
       IN  \/ /\ ExistStoragePath(t, c)
              /\ BeginWrite(w, "create_commit", TRUE)
           \/ /\ ~ExistStoragePath(t, c)
              /\ CheckQuota(t, c, Size[c])
              /\ BeginWrite(w, "open_blob", FALSE)
           \/ /\ ~CheckQuota(t, c, Size[c])
              /\ Reply(w)
              /\ UNCHANGED writer
    /\ UNCHANGED <<tables, disk, minted, crashes>>

\* storage::write is std::fs::write: it creates or truncates the file at its
\* final name and then fills it.
OpenBlob(w) ==
    /\ At(w, "open_blob")
    /\ blob' = [blob EXCEPT ![req[w].tenant][req[w].content] = 0]
    /\ Goto(w, "fill_blob")
    /\ UNCHANGED <<tables, stagingDirs, chunk, minted, writer, req, locals, crashes>>

FillBlob(w) ==
    /\ At(w, "fill_blob")
    /\ LET t == req[w].tenant
           c == req[w].content
       IN  \E n \in blob[t][c]..Size[c] :
             /\ n = Size[c] \/ n > blob[t][c]
             /\ blob' = [blob EXCEPT ![t][c] = n]
             /\ Goto(w, IF n = Size[c] THEN "create_commit" ELSE "fill_blob")
    /\ UNCHANGED <<tables, stagingDirs, chunk, minted, writer, req, locals, crashes>>

\* Mutant of CreateCommit: a blob that existed is charged again.
CreateCommitChargesAlways(w) ==
    /\ At(w, "create_commit")
    /\ LET t == req[w].tenant
           c == req[w].content
       IN  /\ files' = PutTable(t, req[w].path, c)
           /\ usage' = Charge(t, Size[c])
    /\ writer' = None
    /\ Reply(w)
    /\ UNCHANGED <<uploads, disk, minted, crashes>>

CreateCommit(w) ==
    /\ At(w, "create_commit")
    /\ LET t == req[w].tenant
           c == req[w].content
       IN  /\ files' = PutTable(t, req[w].path, c)
           /\ usage' = IF exist[w] THEN InitUsage(t) ELSE Charge(t, Size[c])
    /\ writer' = None
    /\ Reply(w)
    /\ UNCHANGED <<uploads, disk, minted, crashes>>
-----------------------------------------------------------------------------
(* delete_file: the row is read in a read transaction and written back,    *)
(* marked, in a write transaction begun later.                             *)

DeleteFile(w) ==
    /\ At(w, "delete_file")
    /\ LET found == files[req[w].tenant][req[w].path]
       IN  \/ /\ found = None
              /\ Reply(w)
           \/ /\ found # None
              /\ row' = [row EXCEPT ![w] = [found EXCEPT !.is_deleted = TRUE]]
              /\ Goto(w, "delete_write")
              /\ UNCHANGED <<req, exist, temp>>
    /\ UNCHANGED <<tables, disk, minted, writer, crashes>>

DeleteWrite(w) ==
    /\ At(w, "delete_write")
    /\ WriterFree
    /\ files' = [files EXCEPT ![req[w].tenant][req[w].path] = row[w]]
    /\ Reply(w)
    /\ UNCHANGED <<uploads, usage, disk, minted, writer, crashes>>

(* get_file: the row is looked up, then ServeFile opens the blob it names. *)

GetFile(w) ==
    /\ At(w, "get_file")
    /\ LET found == files[req[w].tenant][req[w].path]
       IN  \/ /\ found = None
              /\ Reply(w)
           \/ /\ found # None
              /\ row' = [row EXCEPT ![w] = found]
              /\ Goto(w, "serve_blob")
              /\ UNCHANGED <<req, exist, temp>>
    /\ UNCHANGED <<tables, disk, minted, writer, crashes>>

ServeBlob(w) ==
    /\ At(w, "serve_blob")
    /\ Reply(w)
    /\ UNCHANGED <<tables, disk, minted, writer, crashes>>
-----------------------------------------------------------------------------
(* create_upload: the session is committed before its directory is made.   *)

CreateUpload(w) ==
    /\ At(w, "create_upload")
    /\ WriterFree
    /\ LET r == req[w]
       IN  \/ /\ CheckQuota(r.tenant, r.total_hash, r.total_size)
              /\ uploads' = [uploads EXCEPT ![r.upload_id] =
                   [tenant |-> r.tenant, path |-> r.path,
                    total_hash |-> r.total_hash, total_size |-> r.total_size,
                    chunk_count |-> r.chunk_count, chunks_received |-> {}]]
              /\ usage' = InitUsage(r.tenant)
              /\ Goto(w, "make_dir")
              /\ UNCHANGED <<req, locals>>
           \/ /\ ~CheckQuota(r.tenant, r.total_hash, r.total_size)
              /\ Reply(w)
              /\ UNCHANGED <<uploads, usage>>
    /\ UNCHANGED <<files, disk, minted, writer, crashes>>

MakeDir(w) ==
    /\ At(w, "make_dir")
    /\ stagingDirs' = stagingDirs \cup {req[w].upload_id}
    /\ Reply(w)
    /\ UNCHANGED <<tables, blob, chunk, minted, writer, crashes>>
-----------------------------------------------------------------------------
(* replace_chunk: a read transaction, the chunk file, and only then the    *)
(* write transaction of add_chunk.  No lock is held on the chunk file.     *)

\* Mutant of ReplaceChunk: the index is recorded and no chunk file written.
ReplaceChunkRecordsFirst(w) ==
    /\ At(w, "replace_chunk")
    /\ OwnUpload(req[w].tenant, req[w].upload_id)
    /\ req[w].index < uploads[req[w].upload_id].chunk_count
    /\ Goto(w, "add_chunk")
    /\ UNCHANGED <<tables, disk, minted, writer, req, locals, crashes>>

ReplaceChunk(w) ==
    /\ At(w, "replace_chunk")
    /\ LET r == req[w]
       IN  \/ /\ OwnUpload(r.tenant, r.upload_id)
              /\ r.index < uploads[r.upload_id].chunk_count
              /\ Goto(w, "open_chunk")
              /\ UNCHANGED <<req, locals>>
           \/ /\ OwnUpload(r.tenant, r.upload_id) =>
                   r.index >= uploads[r.upload_id].chunk_count
              /\ Reply(w)
    /\ UNCHANGED <<tables, disk, minted, writer, crashes>>

\* std::fs::write creates or truncates the chunk file, unless its directory
\* is gone or was never made.
OpenChunk(w) ==
    /\ At(w, "open_chunk")
    /\ LET r == req[w]
       IN  \/ /\ r.upload_id \in stagingDirs
              /\ chunk' = [chunk EXCEPT ![r.upload_id][r.index] = Torn]
              /\ Goto(w, "fill_chunk")
              /\ UNCHANGED <<req, locals>>
           \/ /\ r.upload_id \notin stagingDirs
              /\ Reply(w)
              /\ UNCHANGED chunk
    /\ UNCHANGED <<tables, blob, stagingDirs, minted, writer, crashes>>

\* The bytes reach the file, unless it was unlinked meanwhile.  Over another
\* body that a concurrent call wrote, they may leave that body's tail.
FillChunk(w) ==
    /\ At(w, "fill_chunk")
    /\ LET r   == req[w]
           old == chunk[r.upload_id][r.index]
       IN  \E new \in {r.body, Torn, None} :
             /\ new = None <=> old = None
             /\ new = Torn => old \notin {Torn, r.body}
             /\ chunk' = [chunk EXCEPT ![r.upload_id][r.index] = new]
    /\ Goto(w, "add_chunk")
    /\ UNCHANGED <<tables, blob, stagingDirs, minted, writer, req, locals, crashes>>

\* Mutant of AddChunk: a session that is not there is inserted.
AddChunkUpserts(w) ==
    /\ At(w, "add_chunk")
    /\ WriterFree
    /\ LET r == req[w]
       IN  uploads' = [uploads EXCEPT ![r.upload_id] =
             IF @ # None THEN [@ EXCEPT !.chunks_received = @ \cup {r.index}]
             ELSE [tenant |-> r.tenant, path |-> CHOOSE p \in Path : TRUE,
                   total_hash |-> r.body, total_size |-> Size[r.body],
                   chunk_count |-> MaxChunkCount, chunks_received |-> {r.index}]]
    /\ Reply(w)
    /\ UNCHANGED <<files, usage, disk, minted, writer, crashes>>

AddChunk(w) ==
    /\ At(w, "add_chunk")
    /\ WriterFree
    /\ LET r == req[w]
       IN  uploads' = IF OwnUpload(r.tenant, r.upload_id)
                      THEN [uploads EXCEPT ![r.upload_id].chunks_received =
                                             @ \cup {r.index}]
                      ELSE uploads
    /\ Reply(w)
    /\ UNCHANGED <<files, usage, disk, minted, writer, crashes>>
-----------------------------------------------------------------------------
(* finalize_upload: under one write transaction the chunk files are copied *)
(* into a temporary file, which is checked and renamed to the blob.        *)

FinalizeUpload(w) ==
    /\ At(w, "finalize_upload")
    /\ WriterFree
    /\ LET t == req[w].tenant
           u == req[w].upload_id
           complete == /\ OwnUpload(t, u)
                       /\ Cardinality(uploads[u].chunks_received)
                            = uploads[u].chunk_count
           stored == blob[t][uploads[u].total_hash]
       IN  \/ /\ complete
              /\ stored = Absent
              /\ BeginWrite(w, "copy_chunks", FALSE)
           \/ /\ complete
              /\ stored = uploads[u].total_size
              /\ BeginWrite(w, "finalize_commit", TRUE)
           \/ /\ complete => stored \notin {Absent, uploads[u].total_size}
              /\ Reply(w)
              /\ UNCHANGED writer
    /\ UNCHANGED <<tables, disk, minted, crashes>>

\* reassemble_chunks, one chunk file at a time.
CopyChunk(w) ==
    /\ At(w, "copy_chunks")
    /\ LET u    == req[w].upload_id
           next == Len(temp[w])
       IN  /\ next < uploads[u].chunk_count
           /\ \/ /\ chunk[u][next] # None
                 /\ temp' = [temp EXCEPT ![w] = Append(@, chunk[u][next])]
                 /\ UNCHANGED <<tables, minted, writer, pc, req, row, exist, crashes>>
              \/ /\ chunk[u][next] = None
                 /\ Abort(w)
    /\ UNCHANGED disk

\* Mutant of Persist: only the length of the temporary file is compared.
PersistUnverified(w) ==
    /\ At(w, "copy_chunks")
    /\ LET up == uploads[req[w].upload_id]
       IN  /\ Len(temp[w]) = up.chunk_count
           /\ blob' = [blob EXCEPT ![req[w].tenant][up.total_hash] = up.total_size]
    /\ Goto(w, "finalize_commit")
    /\ UNCHANGED <<tables, minted, writer, req, locals, crashes, stagingDirs, chunk>>

\* The length and the hash of the temporary file are compared with what the
\* session announced; persist renames it in one step.
Persist(w) ==
    /\ At(w, "copy_chunks")
    /\ LET t == req[w].tenant
           up == uploads[req[w].upload_id]
           c == up.total_hash
           verified == /\ \A i \in 1..Len(temp[w]) : temp[w][i] = c
                       /\ Size[c] = up.total_size
       IN  /\ Len(temp[w]) = up.chunk_count
           /\ \/ /\ verified
                 /\ blob' = [blob EXCEPT ![t][c] = Size[c]]
                 /\ Goto(w, "finalize_commit")
                 /\ UNCHANGED <<tables, minted, writer, req, locals, crashes>>
              \/ /\ ~verified
                 /\ Abort(w)
                 /\ UNCHANGED blob
    /\ UNCHANGED <<stagingDirs, chunk>>

\* Mutant of FinalizeCommit: the stored bytes are not charged.
FinalizeCommitForFree(w) ==
    /\ At(w, "finalize_commit")
    /\ LET t == req[w].tenant
           u == req[w].upload_id
       IN  /\ files' = PutTable(t, uploads[u].path, uploads[u].total_hash)
           /\ uploads' = [uploads EXCEPT ![u] = None]
    /\ writer' = None
    /\ Goto(w, "unlink_chunks")
    /\ UNCHANGED <<usage, disk, minted, req, locals, crashes>>

FinalizeCommit(w) ==
    /\ At(w, "finalize_commit")
    /\ LET t == req[w].tenant
           u == req[w].upload_id
       IN  /\ files' = PutTable(t, uploads[u].path, uploads[u].total_hash)
           /\ uploads' = [uploads EXCEPT ![u] = None]
           /\ usage' = IF exist[w] THEN usage
                       ELSE [usage EXCEPT ![t] = @ + uploads[u].total_size]
    /\ writer' = None
    /\ Goto(w, "unlink_chunks")
    /\ UNCHANGED <<disk, minted, req, locals, crashes>>

\* remove_dir_all unlinks the chunk files one by one, and the directory after
\* them, which stays if a late replace_chunk has put a file there again.
UnlinkChunks(w) ==
    /\ At(w, "unlink_chunks")
    /\ LET u == req[w].upload_id
       IN  \/ \E i \in Index :
                /\ chunk[u][i] # None
                /\ chunk' = [chunk EXCEPT ![u][i] = None]
                /\ UNCHANGED pc
          \/ /\ \A i \in Index : chunk[u][i] = None
             /\ Goto(w, "remove_dir")
             /\ UNCHANGED chunk
    /\ UNCHANGED <<tables, blob, stagingDirs, minted, writer, req, locals, crashes>>

RemoveDir(w) ==
    /\ At(w, "remove_dir")
    /\ LET u == req[w].upload_id
           empty == \A i \in Index : chunk[u][i] = None
       IN  stagingDirs' = IF empty THEN stagingDirs \ {u} ELSE stagingDirs
    /\ Reply(w)
    /\ UNCHANGED <<tables, blob, chunk, minted, writer, crashes>>
-----------------------------------------------------------------------------
(* Failures.                                                               *)

\* A file system call, a read of the tables, begin_write or a commit returns an
\* error.  The handler replies: with that error, or, when it is remove_dir_all
\* that fails, with success, the error logged and the rest of the staging
\* directory left.  A write transaction it holds is dropped.
FailingStep == Step \ {"idle"}
IoError(w) ==
    /\ pc[w] \in FailingStep \cap Faults
    /\ writer' = IF writer = w THEN None ELSE writer
    /\ Reply(w)
    /\ UNCHANGED <<tables, disk, minted, crashes>>

\* The server process dies and is started again: tables and disk survive.
\* It dies in the middle of storage::write only where that write may fail too:
\* both leave a short file under the name of the hash.
Crash ==
    /\ crashes < MaxCrashes
    /\ \A w \in Worker : At(w, "fill_blob") => "fill_blob" \in Faults
    /\ crashes' = crashes + 1
    /\ writer' = None
    /\ pc' = [w \in Worker |-> "idle"]
    /\ req' = [w \in Worker |-> None]
    /\ row' = [w \in Worker |-> None]
    /\ exist' = [w \in Worker |-> FALSE]
    /\ temp' = [w \in Worker |-> <<>>]
    /\ UNCHANGED <<tables, disk, minted>>
-----------------------------------------------------------------------------
Handle(w) ==
    \/ CreateFile(w) \/ OpenBlob(w) \/ FillBlob(w) \/ CreateCommit(w)
    \/ DeleteFile(w) \/ DeleteWrite(w)
    \/ GetFile(w) \/ ServeBlob(w)
    \/ CreateUpload(w) \/ MakeDir(w)
    \/ ReplaceChunk(w) \/ OpenChunk(w) \/ FillChunk(w) \/ AddChunk(w)
    \/ FinalizeUpload(w) \/ CopyChunk(w) \/ Persist(w) \/ FinalizeCommit(w)
    \/ UnlinkChunks(w) \/ RemoveDir(w)

Next ==
    \/ \E w \in Worker :
         \/ \E r \in Request : Receive(w, r)
         \/ Handle(w)
         \/ IoError(w)
    \/ Crash

Spec == Init /\ [][Next]_vars

\* The runtime keeps polling a handler that can take its next step.  A handler
\* waiting in begin_write is promised nothing: redb wakes waiters in any order.
FairSpec == Spec /\ \A w \in Worker : WF_vars(Handle(w))
-----------------------------------------------------------------------------
(* What the handlers guarantee, whatever the requests and their order.     *)

\* check_quota counts what open uploads announced, so that no interleaving of
\* create_file and finalize_upload charges a tenant more than its quota.
QuotaHeld == \A t \in Tenant : UsageOf(t) <= Quota

\* Deduplication: create_file and finalize_upload charge a blob once, however
\* often it is put, also when crashes and failures left blobs uncharged.
Stored(t) == {c \in Content : ExistStoragePath(t, c)}
ChargedAtMostOnce ==
    \A t \in Tenant : UsageOf(t) <= TotalBytes(Size, Stored(t))

\* What is stored is charged.  Between write transactions the charges are the
\* bytes under the storage directory, except that each crash may have left one
\* blob, written before the commit that would have charged it, for free.
LargestSize == Max({Size[c] : c \in Content})
FreeBytes(t) == TotalBytes(blob[t], Stored(t)) - UsageOf(t)
ChargedExceptByCrash ==
    WriterFree => \A t \in Tenant : FreeBytes(t) \in 0..(crashes * LargestSize)

\* create_file and finalize_upload commit a row after its blob is in place,
\* so a crash between the two can leave a blob without a row, never a row
\* without a blob, and delete_file takes no blob away.
ReferencedBlobExists ==
    \A t \in Tenant, p \in Path :
        files[t][p] # None => ExistStoragePath(t, files[t][p].content)

\* A row names a complete file: what is stored under a hash has that hash.
RowIntact ==
    \A t \in Tenant, p \in Path :
        files[t][p] # None =>
            blob[t][files[t][p].content] = Size[files[t][p].content]

\* get_file opens the blob after its read transaction, without any lock, and
\* still serves all of what the row it read named: puts of the same content,
\* deletes and overwrites in between do not touch that file.
DownloadIntact ==
    \A w \in Worker : At(w, "serve_blob") =>
        blob[req[w].tenant][row[w].content] = Size[row[w].content]

\* replace_chunk writes the chunk file before add_chunk records the index, and
\* finalize_upload removes files only after it deleted the session: every
\* index in chunks_received has its file, after any crash, so finalize_upload
\* of a complete session never stops at a chunk that is missing.
ReceivedChunkOnDisk ==
    \A u \in UploadId : uploads[u] # None =>
        \A i \in uploads[u].chunks_received :
            u \in stagingDirs /\ chunk[u][i] # None

\* A finalized session stays gone: add_chunk, begun before finalize_upload and
\* committed after it, must not write the session it once read back.
SessionStaysGone ==
    [][\A u \in UploadId :
          /\ u \in minted
          /\ uploads[u] = None
          /\ \A w \in Worker : At(w, "create_upload") => req[w].upload_id # u
          => uploads'[u] = None]_vars

\* A handler changes rows, sessions, charges and blobs of its own tenant only,
\* and chunk files of its own tenant's live sessions only.
TenantIsolation ==
    [][\A w \in Worker : Handle(w) =>
          LET t == req[w].tenant
          IN  /\ \A s \in Tenant \ {t} :
                    /\ files'[s] = files[s]
                    /\ usage'[s] = usage[s]
                    /\ blob'[s] = blob[s]
              /\ \A u \in UploadId :
                    uploads[u] # None /\ uploads[u].tenant # t =>
                        uploads'[u] = uploads[u] /\ chunk'[u] = chunk[u]]_vars

\* The version of a path never goes down: "monotonic versioning".
VersionMonotonic ==
    [][\A t \in Tenant, p \in Path :
          files[t][p] # None =>
              /\ files'[t][p] # None
              /\ files'[t][p].version >= files[t][p].version]_files

\* Every write transaction ends, so no handler blocks the others for ever.
WriterReleased == \A w \in Worker : writer = w ~> writer # w

\* The tables and the blob directory keep the promise of VersionedFiles: rows
\* change only by puts of contents stored completely before, one version up,
\* and by deletes that keep version and content.
Files == INSTANCE VersionedFiles WITH
             rows  <- files,
             store <- [t \in Tenant |-> {c \in Content : blob[t][c] = Size[c]}]
KeepsFiles == Files!Spec
=============================================================================
