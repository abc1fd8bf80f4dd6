------------------------- MODULE TenantStoreProofs --------------------------
(***************************************************************************)
(* Proofs about TenantStore, for any tenants, paths, contents, workers,    *)
(* failures and number of crashes: types, what each step leaves alone, no  *)
(* row without its blob, and upload sessions.                              *)
(***************************************************************************)
EXTENDS TenantStore, TLAPS

(* The strengthening of TypeOK that makes it inductive. *)

\* The request a handler works on is one of its own kind, and the checks it
\* passed on the way to its present step still hold of it.
RequestOK(w) ==
    /\ pc[w] \in {"create_file", "open_blob", "fill_blob", "create_commit"}
         => req[w] \in CreateFileRequest
    /\ pc[w] \in {"delete_file", "delete_write"} => req[w] \in DeleteFileRequest
    /\ pc[w] \in {"get_file", "serve_blob"} => req[w] \in GetFileRequest
    /\ pc[w] \in {"create_upload", "make_dir"}
         => req[w] \in InitUploadRequest /\ ValidateUploadRequestBody(req[w])
    /\ pc[w] \in {"replace_chunk", "open_chunk", "fill_chunk", "add_chunk"}
         => req[w] \in ReplaceChunkRequest
    /\ pc[w] \in {"open_chunk", "fill_chunk", "add_chunk"}
         => req[w].index \in Index
    /\ pc[w] \in {"finalize_upload", "copy_chunks", "finalize_commit",
                  "unlink_chunks", "remove_dir"}
         => req[w] \in FinalizeRequest
    /\ pc[w] \in {"delete_write", "serve_blob"} => row[w] \in Row

\* The worker in a locked step is the one that holds the write transaction.
LockOK == \A w \in Worker : pc[w] \in LockedStep <=> writer = w

\* The session a finalizing handler read under the lock is still there.
FinalizingOwn(w) ==
    pc[w] \in {"copy_chunks", "finalize_commit"}
      => OwnUpload(req[w].tenant, req[w].upload_id)

TypeInv ==
    /\ TypeOK
    /\ \A w \in Worker : RequestOK(w) /\ FinalizingOwn(w)
    /\ LockOK

-----------------------------------------------------------------------------
LEMMA TypeInvInit == Init => TypeInv
  BY SizeAssumption, NoneAssumption
  DEF Init, TypeInv, TypeOK, RequestOK, FinalizingOwn, LockOK, Step, FirstStep, LockedStep, Absent, Index

\* The operation a request names is its kind.
LEMMA RequestKind ==
  ASSUME NEW r \in Request
  PROVE  /\ r.op \in FirstStep
         /\ r.op = "create_file" => r \in CreateFileRequest
         /\ r.op = "delete_file" => r \in DeleteFileRequest
         /\ r.op = "get_file" => r \in GetFileRequest
         /\ r.op = "create_upload" => r \in InitUploadRequest
         /\ r.op = "replace_chunk" => r \in ReplaceChunkRequest
         /\ r.op = "finalize_upload" => r \in FinalizeRequest
  BY DEF Request, FirstStep, CreateFileRequest, DeleteFileRequest,
         GetFileRequest, InitUploadRequest, ReplaceChunkRequest, FinalizeRequest

LEMMA TypeInvReceive ==
  ASSUME TypeInv, NEW w \in Worker, NEW r \in Request, Receive(w, r)
  PROVE  TypeInv'
<1>1. r.op \in FirstStep
  BY RequestKind
<1>2. TypeOK'
  <2>1. pc' \in [Worker -> Step]
    BY <1>1 DEF TypeInv, TypeOK, Receive, Goto, Step
  <2>2. minted' \subseteq UploadId
    BY RequestKind DEF TypeInv, TypeOK, Receive, InitUploadRequest
  <2> QED
    BY <2>1, <2>2 DEF TypeInv, TypeOK, Receive, tables, disk, locals
<1>3. ASSUME NEW v \in Worker PROVE (RequestOK(v) /\ FinalizingOwn(v))'
  <2>1. CASE v = w
    BY <1>1, <2>1, RequestKind
    DEF TypeInv, TypeOK, Receive, Admissible, Goto, RequestOK, FinalizingOwn,
        ValidateUploadRequestBody, FirstStep
  <2>2. CASE v # w
    BY <2>2
    DEF TypeInv, TypeOK, Receive, Goto, tables, locals, RequestOK,
        FinalizingOwn, OwnUpload, ValidateUploadRequestBody
  <2> QED BY <2>1, <2>2
<1>4. LockOK'
  BY <1>1 DEF TypeInv, TypeOK, Receive, At, Goto, LockOK, LockedStep, FirstStep
<1> QED BY <1>2, <1>3, <1>4 DEF TypeInv

\* TypeOK in two parts: the workers' control state, and the rest.
ControlOK ==
    /\ pc \in [Worker -> Step]
    /\ req \in [Worker -> Request \cup {None}]
    /\ row \in [Worker -> Row \cup {None}]
    /\ exist \in [Worker -> BOOLEAN]
    /\ temp \in [Worker -> Seq(Content \cup {Torn})]

DataOK ==
    /\ files \in [Tenant -> [Path -> Row \cup {None}]]
    /\ uploads \in [UploadId -> Upload \cup {None}]
    /\ usage \in [Tenant -> Nat \cup {Absent}]
    /\ blob \in [Tenant -> [Content -> Nat \cup {Absent}]]
    /\ stagingDirs \subseteq UploadId
    /\ chunk \in [UploadId -> [Index -> Content \cup {None, Torn}]]
    /\ minted \subseteq UploadId
    /\ writer \in Worker \cup {None}
    /\ crashes \in 0..MaxCrashes

LEMMA TypeParts == TypeOK <=> ControlOK /\ DataOK
  BY DEF TypeOK, ControlOK, DataOK

LEMMA TypeInvNext ==
  ASSUME ControlOK', DataOK', LockOK',
         \A v \in Worker : RequestOK(v)' /\ FinalizingOwn(v)'
  PROVE  TypeInv'
  BY DEF TypeInv, TypeOK, ControlOK, DataOK

\* A worker that returns has nothing left to account for.
LEMMA ReplyKeeps ==
  ASSUME TypeInv, NEW w \in Worker, Reply(w)
  PROVE  /\ ControlOK'
         /\ pc'[w] = "idle"
         /\ \A v \in Worker : RequestOK(v)'
         /\ \A v \in Worker \ {w} : pc'[v] = pc[v] /\ req'[v] = req[v]
<1>1. ControlOK'
  BY TypeParts DEF TypeInv, ControlOK, Reply, Goto, Step
<1>2. ASSUME NEW v \in Worker PROVE RequestOK(v)'
  BY TypeParts
  DEF TypeInv, ControlOK, Reply, Goto, RequestOK, ValidateUploadRequestBody
<1> QED
  BY <1>1, <1>2, TypeParts DEF TypeInv, ControlOK, Reply, Goto

\* A worker that moves on with the request and the locals it has.
LEMMA GotoKeeps ==
  ASSUME TypeInv, NEW w \in Worker, NEW s \in Step, Goto(w, s),
         req' = req, ControlOK',
         \A v \in Worker \ {w} : row'[v] = row[v]
  PROVE  /\ pc'[w] = s
         /\ \A v \in Worker \ {w} : pc'[v] = pc[v] /\ RequestOK(v)'
  BY TypeParts
  DEF TypeInv, ControlOK, Goto, RequestOK, ValidateUploadRequestBody

LEMMA BeginWriteKeeps ==
  ASSUME TypeInv, NEW w \in Worker, NEW s \in LockedStep, NEW f \in BOOLEAN,
         BeginWrite(w, s, f)
  PROVE  /\ ControlOK'
         /\ LockOK'
         /\ writer' \in Worker \cup {None}
         /\ pc'[w] = s
         /\ \A v \in Worker \ {w} : pc'[v] = pc[v] /\ RequestOK(v)'
<1>1. s \in Step
  BY DEF Step
<1>2. ControlOK'
  BY <1>1, TypeParts DEF TypeInv, ControlOK, BeginWrite, Goto
<1>3. LockOK'
  BY NoneAssumption, TypeParts
  DEF TypeInv, ControlOK, LockOK, BeginWrite, WriterFree, Goto
<1> QED
  BY <1>1, <1>2, <1>3, GotoKeeps DEF BeginWrite

\* The sessions of finalizing workers stay when the step does not touch them.
LEMMA KeepsFinalizing ==
  ASSUME TypeInv, NEW w \in Worker, uploads' = uploads,
         NEW v \in Worker, pc'[v] = pc[v] /\ req'[v] = req[v] 
  PROVE  FinalizingOwn(v)'
  BY DEF TypeInv, FinalizingOwn, OwnUpload

\* A step that holds no lock and ends with Reply leaves the lock alone.
LEMMA ReplyUnlocked ==
  ASSUME TypeInv, NEW w \in Worker, Reply(w), pc[w] \notin LockedStep,
         writer' = writer
  PROVE  LockOK'
  BY TypeParts DEF TypeInv, ControlOK, LockOK, Reply, Goto, LockedStep

\* A step that held the lock gives it back.
LEMMA ReplyLocked ==
  ASSUME TypeInv, NEW w \in Worker, Reply(w), pc[w] \in LockedStep,
         writer' = None
  PROVE  LockOK'
  BY NoneAssumption, TypeParts
  DEF TypeInv, ControlOK, LockOK, Reply, Goto, LockedStep

LEMMA ReplyFinalizing ==
  ASSUME TypeInv, NEW w \in Worker, Reply(w), uploads' = uploads
  PROVE  \A v \in Worker : FinalizingOwn(v)'
  BY TypeParts
  DEF TypeInv, ControlOK, FinalizingOwn, OwnUpload, Reply, Goto

\* The four ways a step of a handler ends.
LEMMA TypeInvReply ==
  ASSUME TypeInv, NEW w \in Worker, Reply(w), DataOK', uploads' = uploads,
         \/ pc[w] \notin LockedStep /\ writer' = writer
         \/ pc[w] \in LockedStep /\ writer' = None
  PROVE  TypeInv'
  BY ReplyKeeps, ReplyUnlocked, ReplyLocked, ReplyFinalizing, TypeInvNext

LEMMA TypeInvAbort ==
  ASSUME TypeInv, NEW w \in Worker, Abort(w), pc[w] \in LockedStep,
         blob' = blob, stagingDirs' = stagingDirs, chunk' = chunk
  PROVE  TypeInv'
<1>1. DataOK'
  BY TypeParts DEF TypeInv, DataOK, Abort, tables
<1> QED
  BY <1>1, TypeInvReply DEF Abort, tables

LEMMA TypeInvGoto ==
  ASSUME TypeInv, NEW w \in Worker, NEW s \in Step, Goto(w, s),
         s \in LockedStep <=> pc[w] \in LockedStep,
         req' = req, \A v \in Worker \ {w} : row'[v] = row[v],
         writer' = writer, uploads' = uploads,
         ControlOK', DataOK', RequestOK(w)', FinalizingOwn(w)'
  PROVE  TypeInv'
<1>1. LockOK'
  BY TypeParts DEF TypeInv, ControlOK, LockOK, Goto
<1> QED
  BY <1>1, GotoKeeps, KeepsFinalizing, TypeInvNext

LEMMA TypeInvBeginWrite ==
  ASSUME TypeInv, NEW w \in Worker, NEW s \in LockedStep, NEW f \in BOOLEAN,
         BeginWrite(w, s, f), tables' = tables, disk' = disk,
         minted' = minted, crashes' = crashes,
         RequestOK(w)', FinalizingOwn(w)'
  PROVE  TypeInv'
<1>1. DataOK'
  BY BeginWriteKeeps, TypeParts DEF TypeInv, DataOK, tables, disk
<1> QED
  BY <1>1, BeginWriteKeeps, KeepsFinalizing, TypeInvNext DEF BeginWrite, tables

-----------------------------------------------------------------------------
(* TypeInv is preserved by every action. *)

LEMMA TypeInvCreateFile ==
  ASSUME TypeInv, NEW w \in Worker, CreateFile(w)
  PROVE  TypeInv'
<1>1. CASE Reply(w) /\ writer' = writer
  <2>1. DataOK'
    BY <1>1, TypeParts DEF TypeInv, DataOK, CreateFile, tables, disk
  <2> QED
    BY <1>1, <2>1, TypeInvReply DEF CreateFile, At, LockedStep, tables
<1>2. ASSUME NEW s \in {"create_commit", "open_blob"}, NEW f \in BOOLEAN,
             BeginWrite(w, s, f)
      PROVE  TypeInv'
  <2>1. s \in LockedStep
    BY DEF LockedStep
  <2>2. RequestOK(w)' /\ FinalizingOwn(w)'
    BY <2>1, <1>2, BeginWriteKeeps
    DEF TypeInv, RequestOK, FinalizingOwn, CreateFile, At, BeginWrite
  <2> QED
    BY <2>1, <2>2, <1>2, TypeInvBeginWrite DEF CreateFile
<1> QED
  BY <1>1, <1>2 DEF CreateFile

LEMMA TypeInvOpenBlob ==
  ASSUME TypeInv, NEW w \in Worker, OpenBlob(w)
  PROVE  TypeInv'
<1>1. RequestOK(w)' /\ FinalizingOwn(w)' /\ ControlOK'
  BY TypeParts
  DEF TypeInv, ControlOK, OpenBlob, At, Goto, RequestOK, FinalizingOwn, Step,
      LockedStep, locals
<1>2. DataOK'
  BY TypeParts DEF TypeInv, DataOK, OpenBlob, At, RequestOK, CreateFileRequest, tables
<1> QED
  BY <1>1, <1>2, TypeInvGoto DEF OpenBlob, At, Step, LockedStep, locals, tables

LEMMA TypeInvFillBlob ==
  ASSUME TypeInv, NEW w \in Worker, FillBlob(w)
  PROVE  TypeInv'
<1>1. PICK n \in blob[req[w].tenant][req[w].content]..Size[req[w].content] :
        /\ blob' = [blob EXCEPT ![req[w].tenant][req[w].content] = n]
        /\ Goto(w, IF n = Size[req[w].content] THEN "create_commit" ELSE "fill_blob")
  BY DEF FillBlob
<1>2. PICK s \in {"create_commit", "fill_blob"} : Goto(w, s)
  BY <1>1
<1>3. RequestOK(w)' /\ FinalizingOwn(w)' /\ ControlOK'
  BY <1>2, TypeParts
  DEF TypeInv, ControlOK, FillBlob, At, Goto, RequestOK, FinalizingOwn, Step,
      LockedStep, locals
<1>4. n \in Nat \cup {Absent}
  BY <1>1, SizeAssumption, TypeParts
  DEF TypeInv, DataOK, FillBlob, At, RequestOK, CreateFileRequest, Absent
<1>5. DataOK'
  BY <1>1, <1>4, TypeParts
  DEF TypeInv, DataOK, FillBlob, At, RequestOK, CreateFileRequest, tables
<1> QED
  BY <1>2, <1>3, <1>5, TypeInvGoto DEF FillBlob, At, Step, LockedStep, locals, tables

\* What put_table makes of the files table.
LEMMA PutTableType ==
  ASSUME TypeInv, NEW t \in Tenant, NEW p \in Path, NEW c \in Content
  PROVE  PutTable(t, p, c) \in [Tenant -> [Path -> Row \cup {None}]]
<1> DEFINE old == files[t][p]
           new == [version |-> IF old = None THEN 1 ELSE old.version + 1,
                   content |-> c, is_deleted |-> FALSE]
<1>1. old \in Row \cup {None}
  BY TypeParts DEF TypeInv, DataOK
<1>2. new \in Row
  BY <1>1 DEF Row
<1>3. PutTable(t, p, c) = [files EXCEPT ![t][p] = new]
  BY DEF PutTable
<1> QED
  BY <1>2, <1>3, TypeParts DEF TypeInv, DataOK

LEMMA UsageType ==
  ASSUME TypeInv, NEW t \in Tenant
  PROVE  /\ UsageOf(t) \in Nat
         /\ InitUsage(t) \in [Tenant -> Nat \cup {Absent}]
         /\ \A n \in Nat : Charge(t, n) \in [Tenant -> Nat \cup {Absent}]
  BY TypeParts DEF TypeInv, DataOK, UsageOf, InitUsage, Charge, Absent

LEMMA TypeInvCreateCommit ==
  ASSUME TypeInv, NEW w \in Worker, CreateCommit(w)
  PROVE  TypeInv'
<1>1. req[w].tenant \in Tenant /\ req[w].path \in Path /\ req[w].content \in Content
  BY DEF TypeInv, RequestOK, CreateCommit, At, CreateFileRequest
<1>2. files' \in [Tenant -> [Path -> Row \cup {None}]]
  BY <1>1, PutTableType DEF CreateCommit
<1>3. usage' \in [Tenant -> Nat \cup {Absent}]
  BY <1>1, UsageType, SizeAssumption DEF CreateCommit
<1>4. DataOK'
  BY <1>2, <1>3, TypeParts DEF TypeInv, DataOK, CreateCommit, disk
<1> QED
  BY <1>4, TypeInvReply DEF CreateCommit, At, LockedStep

LEMMA TypeInvRead ==
  ASSUME TypeInv, NEW w \in Worker, DeleteFile(w) \/ GetFile(w)
  PROVE  TypeInv'
<1> DEFINE found == files[req[w].tenant][req[w].path]
<1>1. DataOK'
  BY TypeParts DEF TypeInv, DataOK, DeleteFile, GetFile, tables, disk
<1>2. CASE Reply(w)
  BY <1>1, <1>2, TypeInvReply DEF DeleteFile, GetFile, At, LockedStep, tables
<1>3. CASE found # None /\ ~Reply(w)
  <2>1. found \in Row
    BY <1>3, TypeParts
    DEF TypeInv, DataOK, RequestOK, DeleteFile, GetFile, At, DeleteFileRequest, GetFileRequest
  <2>2. [found EXCEPT !.is_deleted = TRUE] \in Row
    BY <2>1 DEF Row
  <2>3. PICK s \in {"delete_write", "serve_blob"}, r \in Row :
          /\ Goto(w, s)
          /\ row' = [row EXCEPT ![w] = r]
          /\ s = "delete_write" <=> At(w, "delete_file")
          /\ s = "serve_blob" <=> At(w, "get_file")
    BY <1>3, <2>1, <2>2 DEF DeleteFile, GetFile, At
  <2>4. req' = req /\ exist' = exist /\ temp' = temp
    BY <1>3 DEF DeleteFile, GetFile
  <2>5. ControlOK'
    BY <2>3, <2>4, TypeParts DEF TypeInv, ControlOK, Goto, Step
  <2>6. RequestOK(w)' /\ FinalizingOwn(w)'
    BY <2>3, <2>4, TypeParts
    DEF TypeInv, ControlOK, Goto, At, RequestOK, FinalizingOwn
  <2> QED
    BY <1>1, <2>3, <2>4, <2>5, <2>6, TypeInvGoto, TypeParts
    DEF TypeInv, ControlOK, DeleteFile, GetFile, At, Step, LockedStep, tables
<1> QED
  BY <1>2, <1>3 DEF DeleteFile, GetFile

LEMMA TypeInvDeleteWrite ==
  ASSUME TypeInv, NEW w \in Worker, DeleteWrite(w)
  PROVE  TypeInv'
<1>1. DataOK'
  BY TypeParts
  DEF TypeInv, DataOK, DeleteWrite, RequestOK, At, DeleteFileRequest, disk
<1> QED
  BY <1>1, TypeInvReply DEF DeleteWrite, At, LockedStep

LEMMA TypeInvServeBlob ==
  ASSUME TypeInv, NEW w \in Worker, ServeBlob(w)
  PROVE  TypeInv'
<1>1. DataOK'
  BY TypeParts DEF TypeInv, DataOK, ServeBlob, tables, disk
<1> QED
  BY <1>1, TypeInvReply DEF ServeBlob, At, LockedStep, tables

LEMMA TypeInvMakeDir ==
  ASSUME TypeInv, NEW w \in Worker, MakeDir(w)
  PROVE  TypeInv'
<1>1. DataOK'
  BY TypeParts
  DEF TypeInv, DataOK, MakeDir, At, RequestOK, InitUploadRequest, tables
<1> QED
  BY <1>1, TypeInvReply DEF MakeDir, At, LockedStep, tables

LEMMA TypeInvReplaceChunk ==
  ASSUME TypeInv, NEW w \in Worker, ReplaceChunk(w)
  PROVE  TypeInv'
<1> DEFINE u == req[w].upload_id
<1>1. DataOK'
  BY TypeParts DEF TypeInv, DataOK, ReplaceChunk, tables, disk
<1>2. CASE Reply(w)
  BY <1>1, <1>2, TypeInvReply DEF ReplaceChunk, At, LockedStep, tables
<1>3. CASE /\ OwnUpload(req[w].tenant, u)
           /\ req[w].index < uploads[u].chunk_count
           /\ Goto(w, "open_chunk")
           /\ UNCHANGED <<req, locals>>
  <2>1. req[w] \in ReplaceChunkRequest
    BY DEF TypeInv, RequestOK, ReplaceChunk, At
  <2>2. uploads[u] \in Upload
    BY <1>3, <2>1, TypeParts DEF TypeInv, DataOK, OwnUpload, ReplaceChunkRequest
  <2>3. req[w].index \in Index
    BY <1>3, <2>1, <2>2, SizeAssumption DEF ReplaceChunkRequest, Upload, Index
  <2>4. ControlOK'
    BY <1>3, TypeParts DEF TypeInv, ControlOK, Goto, Step, locals
  <2>5. RequestOK(w)' /\ FinalizingOwn(w)'
    BY <1>3, <2>1, <2>3, TypeParts
    DEF TypeInv, ControlOK, Goto, RequestOK, FinalizingOwn, locals
  <2> QED
    BY <1>1, <1>3, <2>4, <2>5, TypeInvGoto
    DEF ReplaceChunk, At, Step, LockedStep, locals, tables
<1> QED
  BY <1>2, <1>3 DEF ReplaceChunk

LEMMA TypeInvOpenChunk ==
  ASSUME TypeInv, NEW w \in Worker, OpenChunk(w)
  PROVE  TypeInv'
<1>1. req[w].upload_id \in UploadId /\ req[w].index \in Index
  BY DEF TypeInv, RequestOK, OpenChunk, At, ReplaceChunkRequest
<1>2. DataOK'
  <2>1. chunk' \in [UploadId -> [Index -> Content \cup {None, Torn}]]
    <3>1. CASE chunk' = [chunk EXCEPT ![req[w].upload_id][req[w].index] = Torn]
      BY <1>1, <3>1, TypeParts DEF TypeInv, DataOK
    <3>2. CASE chunk' = chunk
      BY <3>2, TypeParts DEF TypeInv, DataOK
    <3> QED
      BY <3>1, <3>2 DEF OpenChunk
  <2> QED
    BY <2>1, TypeParts DEF TypeInv, DataOK, OpenChunk, tables
<1>3. CASE Reply(w)
  BY <1>2, <1>3, TypeInvReply DEF OpenChunk, At, LockedStep, tables
<1>4. CASE Goto(w, "fill_chunk") /\ UNCHANGED <<req, locals>>
  <2>1. ControlOK'
    BY <1>4, TypeParts DEF TypeInv, ControlOK, Goto, Step, locals
  <2>2. RequestOK(w)' /\ FinalizingOwn(w)'
    BY <1>4, TypeParts
    DEF TypeInv, ControlOK, OpenChunk, At, Goto, RequestOK, FinalizingOwn, locals
  <2> QED
    BY <1>2, <1>4, <2>1, <2>2, TypeInvGoto
    DEF OpenChunk, At, Step, LockedStep, locals, tables
<1> QED
  BY <1>3, <1>4 DEF OpenChunk

LEMMA TypeInvFillChunk ==
  ASSUME TypeInv, NEW w \in Worker, FillChunk(w)
  PROVE  TypeInv'
<1>1. /\ req[w].upload_id \in UploadId
      /\ req[w].index \in Index
      /\ req[w].body \in Content
  BY DEF TypeInv, RequestOK, FillChunk, At, ReplaceChunkRequest
<1>2. PICK new \in {req[w].body, Torn, None} :
        chunk' = [chunk EXCEPT ![req[w].upload_id][req[w].index] = new]
  BY DEF FillChunk
<1>3. DataOK'
  <2>1. new \in Content \cup {None, Torn}
    BY <1>1
  <2>2. chunk' \in [UploadId -> [Index -> Content \cup {None, Torn}]]
    BY <1>1, <1>2, <2>1, TypeParts DEF TypeInv, DataOK
  <2> QED
    BY <2>2, TypeParts DEF TypeInv, DataOK, FillChunk, tables
<1>4. ControlOK'
  BY TypeParts DEF TypeInv, ControlOK, FillChunk, Goto, Step, locals
<1>5. RequestOK(w)' /\ FinalizingOwn(w)'
  BY TypeParts
  DEF TypeInv, ControlOK, FillChunk, At, Goto, RequestOK, FinalizingOwn, locals
<1> QED
  BY <1>3, <1>4, <1>5, TypeInvGoto
  DEF FillChunk, At, Step, LockedStep, locals, tables

\* Two workers are never in locked steps together.
LEMMA OneLocked ==
  ASSUME TypeInv, NEW v \in Worker, NEW w \in Worker,
         pc[v] \in LockedStep, pc[w] \in LockedStep \/ WriterFree
  PROVE  v = w
  BY NoneAssumption DEF TypeInv, LockOK, WriterFree

LEMMA TypeInvCreateUpload ==
  ASSUME TypeInv, NEW w \in Worker, CreateUpload(w)
  PROVE  TypeInv'
<1> DEFINE r == req[w]
           s == [tenant |-> r.tenant, path |-> r.path,
                 total_hash |-> r.total_hash, total_size |-> r.total_size,
                 chunk_count |-> r.chunk_count, chunks_received |-> {}]
<1>1. r \in InitUploadRequest /\ r.chunk_count \in 1..MaxChunkCount
  BY DEF TypeInv, RequestOK, CreateUpload, At, ValidateUploadRequestBody
<1>2. CASE Reply(w) /\ UNCHANGED <<uploads, usage>>
  <2>1. DataOK'
    BY <1>2, TypeParts DEF TypeInv, DataOK, CreateUpload, disk
  <2> QED
    BY <1>2, <2>1, TypeInvReply DEF CreateUpload, At, LockedStep
<1>3. CASE /\ uploads' = [uploads EXCEPT ![r.upload_id] = s]
           /\ usage' = InitUsage(r.tenant)
           /\ Goto(w, "make_dir")
           /\ UNCHANGED <<req, locals>>
  <2>1. s \in Upload
    BY <1>1 DEF InitUploadRequest, Upload
  <2>2. usage' \in [Tenant -> Nat \cup {Absent}]
    BY <1>1, <1>3, UsageType DEF InitUploadRequest
  <2>3. DataOK'
    BY <1>1, <1>3, <2>1, <2>2, TypeParts
    DEF TypeInv, DataOK, CreateUpload, InitUploadRequest, disk
  <2>4. ControlOK'
    BY <1>3, TypeParts DEF TypeInv, ControlOK, Goto, Step, locals
  <2>5. \A v \in Worker : RequestOK(v)'
    <3>1. RequestOK(w)'
      BY <1>3, TypeParts
      DEF TypeInv, ControlOK, CreateUpload, At, Goto, RequestOK, locals,
          ValidateUploadRequestBody
    <3> QED
      BY <1>3, <2>4, <3>1, GotoKeeps DEF Step, locals
  <2>6. LockOK'
    BY <1>3, TypeParts
    DEF TypeInv, ControlOK, CreateUpload, At, LockOK, Goto, LockedStep
  <2>7. ASSUME NEW v \in Worker PROVE FinalizingOwn(v)'
    <3>1. pc[v] \notin LockedStep
      BY TypeParts, NoneAssumption DEF TypeInv, LockOK, CreateUpload, WriterFree
    <3> QED
      BY <1>3, <3>1, TypeParts
      DEF TypeInv, ControlOK, FinalizingOwn, Goto, LockedStep
  <2> QED
    BY <2>3, <2>4, <2>5, <2>6, <2>7, TypeInvNext
<1> QED
  BY <1>2, <1>3 DEF CreateUpload

LEMMA TypeInvAddChunk ==
  ASSUME TypeInv, NEW w \in Worker, AddChunk(w)
  PROVE  TypeInv'
<1> DEFINE r == req[w]
<1>1. r \in ReplaceChunkRequest /\ r.index \in Index
  BY DEF TypeInv, RequestOK, AddChunk, At
<1>2. uploads' \in [UploadId -> Upload \cup {None}]
  <2>1. CASE ~OwnUpload(r.tenant, r.upload_id)
    BY <2>1, TypeParts DEF TypeInv, DataOK, AddChunk
  <2>2. CASE OwnUpload(r.tenant, r.upload_id)
    <3>1. uploads[r.upload_id] \in Upload
      BY <1>1, <2>2, TypeParts DEF TypeInv, DataOK, OwnUpload, ReplaceChunkRequest
    <3>2. [uploads[r.upload_id] EXCEPT !.chunks_received = @ \cup {r.index}] \in Upload
      BY <1>1, <3>1 DEF Upload
    <3> QED
      BY <1>1, <2>2, <3>2, TypeParts
      DEF TypeInv, DataOK, AddChunk, ReplaceChunkRequest
  <2> QED BY <2>1, <2>2
<1>3. DataOK'
  BY <1>2, TypeParts DEF TypeInv, DataOK, AddChunk, disk
<1>4. LockOK'
  BY ReplyUnlocked DEF AddChunk, At, LockedStep
<1>5. ASSUME NEW v \in Worker PROVE FinalizingOwn(v)'
  <2>1. pc[v] \notin LockedStep
    BY NoneAssumption DEF TypeInv, LockOK, AddChunk, WriterFree
  <2> QED
    BY <2>1, ReplyKeeps DEF AddChunk, FinalizingOwn, LockedStep
<1> QED
  BY <1>3, <1>4, <1>5, ReplyKeeps, TypeInvNext DEF AddChunk

LEMMA TypeInvFinalizeUpload ==
  ASSUME TypeInv, NEW w \in Worker, FinalizeUpload(w)
  PROVE  TypeInv'
<1>1. CASE Reply(w) /\ UNCHANGED writer
  <2>1. DataOK'
    BY <1>1, TypeParts DEF TypeInv, DataOK, FinalizeUpload, tables, disk
  <2> QED
    BY <1>1, <2>1, TypeInvReply DEF FinalizeUpload, At, LockedStep, tables
<1>2. ASSUME NEW s \in {"copy_chunks", "finalize_commit"}, NEW f \in BOOLEAN,
             BeginWrite(w, s, f), OwnUpload(req[w].tenant, req[w].upload_id)
      PROVE  TypeInv'
  <2>1. s \in LockedStep
    BY DEF LockedStep
  <2>2. RequestOK(w)' /\ FinalizingOwn(w)'
    BY <2>1, <1>2, BeginWriteKeeps
    DEF TypeInv, RequestOK, FinalizingOwn, OwnUpload, FinalizeUpload, At, BeginWrite, tables
  <2> QED
    BY <2>1, <2>2, <1>2, TypeInvBeginWrite DEF FinalizeUpload
<1> QED
  BY <1>1, <1>2 DEF FinalizeUpload

LEMMA TypeInvCopyChunk ==
  ASSUME TypeInv, NEW w \in Worker, CopyChunk(w)
  PROVE  TypeInv'
<1> DEFINE u == req[w].upload_id
           next == Len(temp[w])
<1>1. CASE Abort(w)
  BY <1>1, TypeInvAbort DEF CopyChunk, At, LockedStep, disk
<1>2. CASE /\ chunk[u][next] # None
           /\ temp' = [temp EXCEPT ![w] = Append(@, chunk[u][next])]
           /\ UNCHANGED <<tables, minted, writer, pc, req, row, exist, crashes>>
  <2>1. u \in UploadId /\ uploads[u] \in Upload
    BY TypeParts
    DEF TypeInv, DataOK, RequestOK, FinalizingOwn, OwnUpload, CopyChunk, At, FinalizeRequest
  <2>2. next \in Index
    <3>1. next \in Nat
      BY TypeParts DEF TypeInv, ControlOK
    <3> QED
      BY <2>1, <3>1, SizeAssumption DEF CopyChunk, Upload, Index
  <2>3. chunk[u][next] \in Content \cup {Torn}
    BY <1>2, <2>1, <2>2, TypeParts DEF TypeInv, DataOK
  <2>4. ControlOK'
    BY <1>2, <2>3, TypeParts DEF TypeInv, ControlOK
  <2>5. DataOK'
    BY <1>2, TypeParts DEF TypeInv, DataOK, CopyChunk, tables, disk
  <2> QED
    BY <1>2, <2>4, <2>5, TypeInvNext
    DEF TypeInv, LockOK, RequestOK, FinalizingOwn, OwnUpload, tables,
        ValidateUploadRequestBody
<1> QED
  BY <1>1, <1>2 DEF CopyChunk

LEMMA TypeInvPersist ==
  ASSUME TypeInv, NEW w \in Worker, Persist(w)
  PROVE  TypeInv'
<1> DEFINE c == uploads[req[w].upload_id].total_hash
<1>1. CASE Abort(w) /\ blob' = blob
  BY <1>1, TypeInvAbort DEF Persist, At, LockedStep
<1>2. CASE /\ blob' = [blob EXCEPT ![req[w].tenant][c] = Size[c]]
           /\ Goto(w, "finalize_commit")
           /\ UNCHANGED <<tables, minted, writer, req, locals, crashes>>
  <2>1. req[w].tenant \in Tenant /\ c \in Content
    BY TypeParts
    DEF TypeInv, DataOK, RequestOK, FinalizingOwn, OwnUpload, Persist, At, FinalizeRequest, Upload
  <2>2. DataOK'
    BY <1>2, <2>1, SizeAssumption, TypeParts DEF TypeInv, DataOK, Persist, tables
  <2>3. ControlOK'
    BY <1>2, TypeParts DEF TypeInv, ControlOK, Goto, Step, LockedStep, locals
  <2>4. RequestOK(w)' /\ FinalizingOwn(w)'
    BY <1>2, TypeParts
    DEF TypeInv, ControlOK, Persist, At, Goto, RequestOK, FinalizingOwn, OwnUpload, locals, tables
  <2> QED
    BY <1>2, <2>2, <2>3, <2>4, TypeInvGoto
    DEF Persist, At, Step, LockedStep, locals, tables
<1> QED
  BY <1>1, <1>2 DEF Persist

LEMMA TypeInvFinalizeCommit ==
  ASSUME TypeInv, NEW w \in Worker, FinalizeCommit(w)
  PROVE  TypeInv'
<1> DEFINE t == req[w].tenant
           u == req[w].upload_id
<1>1. t \in Tenant /\ u \in UploadId /\ uploads[u] \in Upload
  BY TypeParts
  DEF TypeInv, DataOK, RequestOK, FinalizingOwn, OwnUpload, FinalizeCommit, At, FinalizeRequest
<1>2. files' \in [Tenant -> [Path -> Row \cup {None}]]
  BY <1>1, PutTableType DEF FinalizeCommit, Upload
<1>3. usage' \in [Tenant -> Nat \cup {Absent}]
  <2>1. uploads[u].total_size \in Nat
    BY <1>1, SizeAssumption DEF Upload
  <2>2. usage[t] + uploads[u].total_size \in Nat \cup {Absent}
    BY <1>1, <2>1, TypeParts DEF TypeInv, DataOK, Absent
  <2> QED
    BY <1>1, <2>2, TypeParts DEF TypeInv, DataOK, FinalizeCommit
<1>4. uploads' \in [UploadId -> Upload \cup {None}]
  BY <1>1, TypeParts DEF TypeInv, DataOK, FinalizeCommit
<1>5. DataOK'
  BY <1>2, <1>3, <1>4, TypeParts DEF TypeInv, DataOK, FinalizeCommit, disk
<1>6. ControlOK'
  BY TypeParts DEF TypeInv, ControlOK, FinalizeCommit, Goto, Step, locals
<1>7. \A v \in Worker : RequestOK(v)'
  <2>1. RequestOK(w)'
    BY TypeParts
    DEF TypeInv, ControlOK, FinalizeCommit, At, Goto, RequestOK, locals
  <2> QED
    BY <1>6, <2>1, GotoKeeps DEF FinalizeCommit, Step, locals
<1>8. LockOK'
  BY NoneAssumption, TypeParts
  DEF TypeInv, ControlOK, FinalizeCommit, At, LockOK, Goto, LockedStep
<1>9. ASSUME NEW v \in Worker PROVE FinalizingOwn(v)'
  <2>1. CASE v = w
    BY <2>1, TypeParts DEF TypeInv, ControlOK, FinalizeCommit, Goto, FinalizingOwn
  <2>2. CASE v # w
    <3>1. pc[v] \notin LockedStep
      BY <2>2, OneLocked DEF FinalizeCommit, At, LockedStep
    <3> QED
      BY <2>2, <3>1, TypeParts
      DEF TypeInv, ControlOK, FinalizeCommit, Goto, FinalizingOwn, LockedStep
  <2> QED BY <2>1, <2>2
<1> QED
  BY <1>5, <1>6, <1>7, <1>8, <1>9, TypeInvNext

LEMMA TypeInvUnlinkChunks ==
  ASSUME TypeInv, NEW w \in Worker, UnlinkChunks(w)
  PROVE  TypeInv'
<1>1. req[w].upload_id \in UploadId
  BY DEF TypeInv, UnlinkChunks, At, RequestOK, FinalizeRequest
<1>2. DataOK'
  <2> DEFINE ChunkFiles == [Index -> Content \cup {None, Torn}]
  <2>1. chunk \in [UploadId -> ChunkFiles]
    BY TypeParts DEF TypeInv, DataOK
  <2>2. \A u \in UploadId : \A i \in Index :
          [chunk[u] EXCEPT ![i] = None] \in ChunkFiles
    BY <2>1
  <2> HIDE DEF ChunkFiles
  <2>3. chunk' = chunk
        \/ \E i \in Index : chunk' = [chunk EXCEPT ![req[w].upload_id] =
                                        [chunk[req[w].upload_id] EXCEPT ![i] = None]]
    BY <1>1, <2>1 DEF UnlinkChunks
  <2>4. chunk' \in [UploadId -> ChunkFiles]
    BY <1>1, <2>1, <2>2, <2>3
  <2> USE DEF ChunkFiles
  <2> QED
    BY <2>4, TypeParts DEF TypeInv, DataOK, UnlinkChunks, tables
<1>3. PICK s \in {"unlink_chunks", "remove_dir"} : Goto(w, s)
  BY TypeParts DEF TypeInv, ControlOK, UnlinkChunks, At, Goto
<1>4. ControlOK'
  BY <1>3, TypeParts DEF TypeInv, ControlOK, UnlinkChunks, Goto, Step, locals
<1>5. RequestOK(w)' /\ FinalizingOwn(w)'
  BY <1>3, TypeParts
  DEF TypeInv, ControlOK, UnlinkChunks, At, Goto, RequestOK, FinalizingOwn, locals
<1> QED
  BY <1>2, <1>3, <1>4, <1>5, TypeInvGoto
  DEF UnlinkChunks, At, Step, LockedStep, locals, tables

LEMMA TypeInvRemoveDir ==
  ASSUME TypeInv, NEW w \in Worker, RemoveDir(w)
  PROVE  TypeInv'
<1>1. DataOK'
  BY TypeParts DEF TypeInv, DataOK, RemoveDir, tables
<1> QED
  BY <1>1, TypeInvReply DEF RemoveDir, At, LockedStep, tables

LEMMA TypeInvIoError ==
  ASSUME TypeInv, NEW w \in Worker, IoError(w)
  PROVE  TypeInv'
<1>1. DataOK'
  BY TypeParts DEF TypeInv, DataOK, IoError, tables, disk
<1>2. \/ pc[w] \notin LockedStep /\ writer' = writer
      \/ pc[w] \in LockedStep /\ writer' = None
  BY DEF TypeInv, LockOK, IoError
<1> QED
  BY <1>1, <1>2, TypeInvReply DEF IoError, tables

LEMMA TypeInvCrash ==
  ASSUME TypeInv, Crash
  PROVE  TypeInv'
<1>1. DataOK'
  BY SizeAssumption, TypeParts DEF TypeInv, DataOK, Crash, tables, disk
<1>2. ControlOK' /\ LockOK'
  BY NoneAssumption DEF ControlOK, LockOK, Crash, Step, LockedStep
<1>3. \A v \in Worker : RequestOK(v)' /\ FinalizingOwn(v)'
  BY DEF Crash, RequestOK, FinalizingOwn
<1> QED
  BY <1>1, <1>2, <1>3, TypeInvNext

LEMMA TypeInvStutter ==
  ASSUME TypeInv, UNCHANGED vars
  PROVE  TypeInv'
  BY DEF TypeInv, TypeOK, RequestOK, FinalizingOwn, OwnUpload, LockOK, vars,
         ValidateUploadRequestBody

LEMMA TypeInvStep == TypeInv /\ [Next]_vars => TypeInv'
<1> SUFFICES ASSUME TypeInv, [Next]_vars PROVE TypeInv'
  OBVIOUS
<1>1. ASSUME NEW w \in Worker, Handle(w) PROVE TypeInv'
  BY <1>1, TypeInvCreateFile, TypeInvOpenBlob, TypeInvFillBlob,
     TypeInvCreateCommit, TypeInvRead, TypeInvDeleteWrite, TypeInvServeBlob,
     TypeInvCreateUpload, TypeInvMakeDir, TypeInvReplaceChunk,
     TypeInvOpenChunk, TypeInvFillChunk, TypeInvAddChunk,
     TypeInvFinalizeUpload, TypeInvCopyChunk, TypeInvPersist,
     TypeInvFinalizeCommit, TypeInvUnlinkChunks, TypeInvRemoveDir DEF Handle
<1> QED
  BY <1>1, TypeInvReceive, TypeInvIoError, TypeInvCrash, TypeInvStutter DEF Next

\* Every reachable state is well typed: the tables hold rows and sessions, the
\* blob and chunk files are what the code can write, and every handler is in a
\* step its request allows.
THEOREM TypeCorrect == Spec => []TypeOK
<1>1. TypeInv => TypeOK
  BY DEF TypeInv
<1> QED
  BY <1>1, TypeInvInit, TypeInvStep, PTL DEF Spec

-----------------------------------------------------------------------------
(* Strengthening of ReferencedBlobExists.                                  *)

\* A handler about to commit a row has its blob in place already.
BlobOK(w) ==
    /\ pc[w] \in {"fill_blob", "create_commit"}
         => ExistStoragePath(req[w].tenant, req[w].content)
    /\ pc[w] = "finalize_commit"
         => ExistStoragePath(req[w].tenant, uploads[req[w].upload_id].total_hash)
    /\ pc[w] = "delete_write"
         => ExistStoragePath(req[w].tenant, row[w].content)

BlobInv == ReferencedBlobExists /\ \A w \in Worker : BlobOK(w)
-----------------------------------------------------------------------------
(* What every step leaves alone.                                           *)

\* A step of one worker, whatever it is.
WorkerStep(w) ==
    (\E r \in Request : Receive(w, r)) \/ Handle(w) \/ IoError(w)

LEMMA StepCases ==
  ASSUME [Next]_vars
  PROVE  (\E w \in Worker : WorkerStep(w)) \/ Crash \/ UNCHANGED vars
  BY DEF Next, WorkerStep

\* A worker's step is invisible in the other workers' state.
LEMMA OthersKept ==
  ASSUME TypeInv, NEW w \in Worker, WorkerStep(w), NEW v \in Worker, v # w
  PROVE  pc'[v] = pc[v] /\ req'[v] = req[v] /\ row'[v] = row[v] /\ exist'[v] = exist[v]
<1>1. CASE \E r \in Request : Receive(w, r)
  BY <1>1, TypeParts DEF TypeInv, ControlOK, Receive, Goto, locals
<1>2. CASE IoError(w)
  BY <1>2, TypeParts DEF TypeInv, ControlOK, IoError, Reply, Goto
<1>3. CASE Handle(w)
  <2>1. CASE CreateFile(w) \/ FinalizeUpload(w)
    BY <2>1, TypeParts
    DEF TypeInv, ControlOK, CreateFile, FinalizeUpload, BeginWrite, Reply, Goto
  <2>2. CASE OpenBlob(w) \/ FillBlob(w) \/ CreateCommit(w)
    BY <2>2, TypeParts
    DEF TypeInv, ControlOK, OpenBlob, FillBlob, CreateCommit, Reply, Goto, locals
  <2>3. CASE DeleteFile(w) \/ DeleteWrite(w) \/ GetFile(w) \/ ServeBlob(w)
    BY <2>3, TypeParts
    DEF TypeInv, ControlOK, DeleteFile, DeleteWrite, GetFile, ServeBlob, Reply, Goto
  <2>4. CASE CreateUpload(w) \/ MakeDir(w) \/ UnlinkChunks(w) \/ RemoveDir(w)
    BY <2>4, TypeParts
    DEF TypeInv, ControlOK, CreateUpload, MakeDir, UnlinkChunks, RemoveDir,
        Reply, Goto, locals
  <2>5. CASE ReplaceChunk(w) \/ OpenChunk(w) \/ FillChunk(w) \/ AddChunk(w)
    BY <2>5, TypeParts
    DEF TypeInv, ControlOK, ReplaceChunk, OpenChunk, FillChunk, AddChunk,
        Reply, Goto, locals
  <2>6. CASE CopyChunk(w) \/ Persist(w) \/ FinalizeCommit(w)
    BY <2>6, TypeParts
    DEF TypeInv, ControlOK, CopyChunk, Persist, FinalizeCommit, Abort,
        Reply, Goto, locals
  <2> QED
    BY <1>3, <2>1, <2>2, <2>3, <2>4, <2>5, <2>6 DEF Handle
<1> QED
  BY <1>1, <1>2, <1>3 DEF WorkerStep

\* Only three steps write the uploads table.
LEMMA SessionsKept ==
  ASSUME NEW w \in Worker, WorkerStep(w),
         ~CreateUpload(w), ~AddChunk(w), ~FinalizeCommit(w)
  PROVE  uploads' = uploads
  BY DEF WorkerStep, Receive, Handle, IoError, CreateFile, OpenBlob, FillBlob,
         CreateCommit, DeleteFile, DeleteWrite, GetFile, ServeBlob, MakeDir,
         ReplaceChunk, OpenChunk, FillChunk, FinalizeUpload, CopyChunk,
         Persist, UnlinkChunks, RemoveDir, Abort, tables

\* Nobody writes it while another worker finalizes.
LEMMA SessionsKeptUnderLock ==
  ASSUME TypeInv, NEW w \in Worker, WorkerStep(w), NEW v \in Worker, v # w,
         pc[v] = "finalize_commit"
  PROVE  uploads' = uploads
<1>1. writer = v
  BY DEF TypeInv, LockOK, LockedStep
<1>2. ~CreateUpload(w) /\ ~AddChunk(w)
  BY <1>1, NoneAssumption DEF CreateUpload, AddChunk, WriterFree
<1>3. ~FinalizeCommit(w)
  BY <1>1 DEF TypeInv, LockOK, LockedStep, FinalizeCommit, At
<1> QED
  BY <1>2, <1>3, SessionsKept

\* Only three steps write the files table.
LEMMA RowsKept ==
  ASSUME NEW w \in Worker, WorkerStep(w),
         ~CreateCommit(w), ~DeleteWrite(w), ~FinalizeCommit(w)
  PROVE  files' = files
  BY DEF WorkerStep, Receive, Handle, IoError, CreateFile, OpenBlob, FillBlob,
         CreateUpload, AddChunk, DeleteFile, GetFile, ServeBlob, MakeDir,
         ReplaceChunk, OpenChunk, FillChunk, FinalizeUpload, CopyChunk,
         Persist, UnlinkChunks, RemoveDir, Abort, tables

\* Only three steps write blob files.
LEMMA BlobsKept ==
  ASSUME NEW w \in Worker, WorkerStep(w),
         ~OpenBlob(w), ~FillBlob(w), ~Persist(w)
  PROVE  blob' = blob
  BY DEF WorkerStep, Receive, Handle, IoError, CreateFile, CreateCommit,
         DeleteFile, DeleteWrite, GetFile, ServeBlob, CreateUpload, MakeDir,
         ReplaceChunk, OpenChunk, FillChunk, AddChunk, FinalizeUpload,
         CopyChunk, FinalizeCommit, UnlinkChunks, RemoveDir, disk
-----------------------------------------------------------------------------
(* No row without its blob.                                                *)

\* A blob, once it is there, stays.
LEMMA BlobsStay ==
  ASSUME TypeInv, [Next]_vars, NEW t \in Tenant, NEW c \in Content,
         ExistStoragePath(t, c)
  PROVE  ExistStoragePath(t, c)'
<1>1. ASSUME NEW w \in Worker, OpenBlob(w) PROVE blob'[t][c] # Absent
  BY <1>1, TypeParts DEF TypeInv, DataOK, OpenBlob, ExistStoragePath, Absent
<1>2. ASSUME NEW w \in Worker, FillBlob(w) PROVE blob'[t][c] # Absent
  <2>1. blob[t][c] \in Nat
    BY TypeParts DEF TypeInv, DataOK, ExistStoragePath
  <2>2. req[w].tenant \in Tenant /\ req[w].content \in Content
    BY <1>2 DEF TypeInv, RequestOK, FillBlob, At, CreateFileRequest
  <2>3. PICK n \in blob[req[w].tenant][req[w].content]..Size[req[w].content] :
          blob' = [blob EXCEPT ![req[w].tenant][req[w].content] = n]
    BY <1>2 DEF FillBlob
  <2>4. blob[req[w].tenant][req[w].content] \in Int
    BY <2>2, TypeParts DEF TypeInv, DataOK, Absent
  <2>5. Size[req[w].content] \in Int
    BY <2>2, SizeAssumption
  <2>6. n \in Int /\ n >= blob[req[w].tenant][req[w].content]
    BY <2>4, <2>5
  <2>7. CASE t = req[w].tenant /\ c = req[w].content
    BY <2>1, <2>3, <2>6, <2>7, TypeParts DEF TypeInv, DataOK, Absent
  <2>8. CASE ~(t = req[w].tenant /\ c = req[w].content)
    BY <2>3, <2>8, TypeParts DEF TypeInv, DataOK, ExistStoragePath
  <2> QED BY <2>7, <2>8
<1>3. ASSUME NEW w \in Worker, Persist(w) PROVE blob'[t][c] # Absent
  <2> DEFINE h == uploads[req[w].upload_id].total_hash
  <2>1. req[w].tenant \in Tenant /\ h \in Content
    BY <1>3, TypeParts
    DEF TypeInv, DataOK, RequestOK, FinalizingOwn, OwnUpload, Persist, At,
        FinalizeRequest, Upload
  <2>2. CASE blob' = blob
    BY <2>2 DEF ExistStoragePath
  <2>3. CASE blob' = [blob EXCEPT ![req[w].tenant][h] = Size[h]]
    <3>1. Size[h] # Absent
      BY <2>1, SizeAssumption DEF Absent
    <3> QED
      BY <2>1, <2>3, <3>1, TypeParts DEF TypeInv, DataOK, ExistStoragePath
  <2> QED
    BY <1>3, <2>2, <2>3 DEF Persist
<1>4. CASE UNCHANGED vars \/ Crash
  BY <1>4 DEF vars, Crash, disk, ExistStoragePath
<1> QED
  BY <1>1, <1>2, <1>3, <1>4, StepCases, BlobsKept DEF ExistStoragePath

\* A worker's own obligation carries over another worker's step.
LEMMA BlobOKOthers ==
  ASSUME TypeInv, BlobInv, NEW w \in Worker, WorkerStep(w),
         NEW v \in Worker, v # w
  PROVE  BlobOK(v)'
<1>1. [Next]_vars
  BY DEF Next, WorkerStep
<1>2. pc'[v] = pc[v] /\ req'[v] = req[v] /\ row'[v] = row[v]
  BY OthersKept
<1>3. CASE pc[v] \in {"fill_blob", "create_commit"}
  <2>1. req[v].tenant \in Tenant /\ req[v].content \in Content
    BY <1>3 DEF TypeInv, RequestOK, CreateFileRequest
  <2> QED
    BY <1>1, <1>2, <1>3, <2>1, BlobsStay DEF BlobInv, BlobOK, ExistStoragePath
<1>4. CASE pc[v] = "finalize_commit"
  <2>1. /\ req[v].tenant \in Tenant
        /\ uploads[req[v].upload_id].total_hash \in Content
    BY <1>4, TypeParts
    DEF TypeInv, DataOK, RequestOK, FinalizingOwn, OwnUpload, FinalizeRequest, Upload
  <2>2. uploads' = uploads
    BY <1>4, SessionsKeptUnderLock
  <2> QED
    BY <1>1, <1>2, <1>4, <2>1, <2>2, BlobsStay DEF BlobInv, BlobOK, ExistStoragePath
<1>5. CASE pc[v] = "delete_write"
  <2>1. req[v].tenant \in Tenant /\ row[v].content \in Content
    BY <1>5 DEF TypeInv, RequestOK, DeleteFileRequest, Row
  <2> QED
    BY <1>1, <1>2, <1>5, <2>1, BlobsStay DEF BlobInv, BlobOK, ExistStoragePath
<1> QED
  BY <1>2, <1>3, <1>4, <1>5 DEF BlobOK

\* The worker that moves reaches its next step with its blob in place.
LEMMA BlobOKSelf ==
  ASSUME TypeInv, BlobInv, NEW w \in Worker, WorkerStep(w)
  PROVE  BlobOK(w)'
<1>1. CASE \E r \in Request : Receive(w, r)
  BY <1>1, RequestKind, TypeParts
  DEF TypeInv, ControlOK, Receive, Goto, BlobOK, FirstStep
<1>2. CASE IoError(w)
  BY <1>2, TypeParts DEF TypeInv, ControlOK, IoError, Reply, Goto, BlobOK
<1>3. CASE Handle(w)
  <2>1. CASE CreateFile(w)
    BY <2>1, TypeParts
    DEF TypeInv, ControlOK, CreateFile, BeginWrite, Reply, Goto, BlobOK,
        ExistStoragePath, disk
  <2>2. CASE OpenBlob(w)
    <3>1. req[w].tenant \in Tenant /\ req[w].content \in Content
      BY <2>2 DEF TypeInv, RequestOK, OpenBlob, At, CreateFileRequest
    <3>2. blob'[req[w].tenant][req[w].content] # Absent
      BY <2>2, <3>1, TypeParts DEF TypeInv, DataOK, OpenBlob, Absent
    <3> QED
      BY <2>2, <3>2, TypeParts
      DEF TypeInv, ControlOK, OpenBlob, Goto, BlobOK, ExistStoragePath
  <2>3. CASE FillBlob(w)
    <3>1. req[w].tenant \in Tenant /\ req[w].content \in Content
      BY <2>3 DEF TypeInv, RequestOK, FillBlob, At, CreateFileRequest
    <3>2. ExistStoragePath(req[w].tenant, req[w].content)
      BY <2>3 DEF BlobInv, BlobOK, FillBlob, At
    <3>3. blob'[req[w].tenant][req[w].content] # Absent
      BY <2>3, <3>1, <3>2, BlobsStay DEF Next, WorkerStep, ExistStoragePath, FillBlob
    <3> QED
      BY <2>3, <3>3, TypeParts
      DEF TypeInv, ControlOK, FillBlob, Goto, BlobOK, ExistStoragePath
  <2>4. CASE CreateCommit(w) \/ DeleteWrite(w) \/ GetFile(w) \/ ServeBlob(w)
    BY <2>4, TypeParts
    DEF TypeInv, ControlOK, CreateCommit, DeleteWrite, GetFile, ServeBlob,
        Reply, Goto, BlobOK
  <2>5. CASE DeleteFile(w)
    <3>1. req[w].tenant \in Tenant /\ req[w].path \in Path
      BY <2>5 DEF TypeInv, RequestOK, DeleteFile, At, DeleteFileRequest
    <3>2. CASE Reply(w)
      BY <3>2, TypeParts DEF TypeInv, ControlOK, Reply, Goto, BlobOK
    <3>3. CASE ~Reply(w)
      <4>1. files[req[w].tenant][req[w].path] \in Row
        BY <2>5, <3>1, <3>3, TypeParts DEF TypeInv, DataOK, DeleteFile
      <4>2. row'[w].content = files[req[w].tenant][req[w].path].content
        <5> DEFINE found == files[req[w].tenant][req[w].path]
        <5>1. row' = [row EXCEPT ![w] = [found EXCEPT !.is_deleted = TRUE]]
          BY <2>5, <3>3 DEF DeleteFile
        <5>2. row \in [Worker -> Row \cup {None}]
          BY TypeParts DEF TypeInv, ControlOK
        <5>3. row'[w] = [found EXCEPT !.is_deleted = TRUE]
          BY <5>1, <5>2
        <5>4. found \in Row
          BY <4>1
        <5> HIDE DEF found
        <5>5. [found EXCEPT !.is_deleted = TRUE].content = found.content
          BY <5>4 DEF Row
        <5> QED
          BY <5>3, <5>5 DEF found
      <4>3. ExistStoragePath(req[w].tenant, row'[w].content)
        BY <2>5, <3>1, <3>3, <4>2 DEF BlobInv, ReferencedBlobExists, DeleteFile
      <4> QED
        BY <2>5, <3>3, <4>3, TypeParts
        DEF TypeInv, ControlOK, DeleteFile, Goto, BlobOK, ExistStoragePath, disk
    <3> QED BY <3>2, <3>3
  <2>6. CASE CreateUpload(w) \/ MakeDir(w) \/ UnlinkChunks(w) \/ RemoveDir(w)
    BY <2>6, TypeParts
    DEF TypeInv, ControlOK, CreateUpload, MakeDir, UnlinkChunks, At, RemoveDir,
        Reply, Goto, BlobOK
  <2>7. CASE ReplaceChunk(w) \/ OpenChunk(w) \/ FillChunk(w) \/ AddChunk(w)
    BY <2>7, TypeParts
    DEF TypeInv, ControlOK, ReplaceChunk, OpenChunk, FillChunk, AddChunk,
        Reply, Goto, BlobOK
  <2>8. CASE FinalizeUpload(w)
    <3>1. CASE Reply(w)
      BY <3>1, TypeParts DEF TypeInv, ControlOK, Reply, Goto, BlobOK
    <3>2. CASE ~Reply(w)
      <4>1. req[w].upload_id \in UploadId /\ uploads[req[w].upload_id] \in Upload
        BY <2>8, <3>2, TypeParts
        DEF TypeInv, DataOK, RequestOK, FinalizeUpload, At, OwnUpload, FinalizeRequest
      <4>2. uploads[req[w].upload_id].total_size # Absent
        BY <4>1, SizeAssumption DEF Upload, Absent
      <4> QED
        BY <2>8, <3>2, <4>2, TypeParts
        DEF TypeInv, ControlOK, FinalizeUpload, BeginWrite, Goto, BlobOK,
            ExistStoragePath, disk, tables
    <3> QED BY <3>1, <3>2
  <2>9. CASE CopyChunk(w)
    BY <2>9, TypeParts
    DEF TypeInv, ControlOK, CopyChunk, At, Abort, Reply, Goto, BlobOK
  <2>10. CASE Persist(w)
    <3>1. CASE Abort(w)
      BY <3>1, TypeParts DEF TypeInv, ControlOK, Abort, Reply, Goto, BlobOK
    <3>2. CASE ~Abort(w)
      <4>1. /\ req[w].tenant \in Tenant
            /\ uploads[req[w].upload_id].total_hash \in Content
        BY <2>10, TypeParts
        DEF TypeInv, DataOK, RequestOK, FinalizingOwn, OwnUpload, Persist, At,
            FinalizeRequest, Upload
      <4>2. blob'[req[w].tenant][uploads[req[w].upload_id].total_hash] # Absent
        BY <2>10, <3>2, <4>1, SizeAssumption, TypeParts
        DEF TypeInv, DataOK, Persist, Absent
      <4> QED
        BY <2>10, <3>2, <4>2, TypeParts
        DEF TypeInv, ControlOK, Persist, Goto, BlobOK, ExistStoragePath, tables
    <3> QED BY <3>1, <3>2
  <2>11. CASE FinalizeCommit(w)
    BY <2>11, TypeParts DEF TypeInv, ControlOK, FinalizeCommit, Goto, BlobOK
  <2> QED
    BY <1>3, <2>1, <2>2, <2>3, <2>4, <2>5, <2>6, <2>7, <2>8, <2>9, <2>10,
       <2>11 DEF Handle
<1> QED
  BY <1>1, <1>2, <1>3 DEF WorkerStep

\* Rows are committed for blobs in place only.
LEMMA RowsBacked ==
  ASSUME TypeInv, BlobInv, NEW w \in Worker, WorkerStep(w)
  PROVE  ReferencedBlobExists'
<1>1. [Next]_vars
  BY DEF Next, WorkerStep
<1>2. ASSUME NEW t \in Tenant, NEW p \in Path, files'[t][p] # None,
             files'[t][p] = files[t][p]
      PROVE  blob'[t][files'[t][p].content] # Absent
  <2>1. files[t][p] \in Row
    BY <1>2, TypeParts DEF TypeInv, DataOK
  <2>2. files[t][p].content \in Content
    BY <2>1 DEF Row
  <2> QED
    BY <1>1, <1>2, <2>2, BlobsStay DEF BlobInv, ReferencedBlobExists, ExistStoragePath
<1>3. ASSUME NEW s \in Tenant, NEW q \in Path, NEW c \in Content,
             ExistStoragePath(s, c), files' = PutTable(s, q, c)
      PROVE  ReferencedBlobExists'
  <2>1. SUFFICES ASSUME NEW t \in Tenant, NEW p \in Path, files'[t][p] # None
                 PROVE  blob'[t][files'[t][p].content] # Absent
    BY DEF ReferencedBlobExists, ExistStoragePath
  <2>2. CASE t = s /\ p = q
    <3>1. files'[t][p].content = c
      BY <1>3, <2>2, TypeParts DEF TypeInv, DataOK, PutTable
    <3> QED
      BY <1>1, <1>3, <2>2, <3>1, BlobsStay DEF ExistStoragePath
  <2>3. CASE ~(t = s /\ p = q)
    <3>1. files'[t][p] = files[t][p]
      BY <1>3, <2>3, TypeParts DEF TypeInv, DataOK, PutTable
    <3> QED
      BY <1>2, <2>1, <3>1 DEF ExistStoragePath
  <2> QED
    BY <2>2, <2>3
<1>4. CASE CreateCommit(w)
  <2>1. /\ req[w].tenant \in Tenant /\ req[w].path \in Path
        /\ req[w].content \in Content
    BY <1>4 DEF TypeInv, RequestOK, CreateCommit, At, CreateFileRequest
  <2>2. ExistStoragePath(req[w].tenant, req[w].content)
    BY <1>4 DEF BlobInv, BlobOK, CreateCommit, At
  <2> QED
    BY <1>3, <1>4, <2>1, <2>2 DEF CreateCommit
<1>5. CASE FinalizeCommit(w)
  <2>1. req[w].tenant \in Tenant /\ uploads[req[w].upload_id] \in Upload
    BY <1>5, TypeParts
    DEF TypeInv, DataOK, RequestOK, FinalizingOwn, OwnUpload, FinalizeCommit,
        At, FinalizeRequest
  <2>2. ExistStoragePath(req[w].tenant, uploads[req[w].upload_id].total_hash)
    BY <1>5 DEF BlobInv, BlobOK, FinalizeCommit, At
  <2> QED
    BY <1>3, <1>5, <2>1, <2>2 DEF FinalizeCommit, Upload
<1>6. CASE DeleteWrite(w)
  <2>1. /\ req[w].tenant \in Tenant /\ req[w].path \in Path
        /\ row[w].content \in Content
    BY <1>6 DEF TypeInv, RequestOK, DeleteWrite, At, DeleteFileRequest, Row
  <2>2. ExistStoragePath(req[w].tenant, row[w].content)
    BY <1>6 DEF BlobInv, BlobOK, DeleteWrite, At
  <2>3. SUFFICES ASSUME NEW t \in Tenant, NEW p \in Path, files'[t][p] # None
                 PROVE  blob'[t][files'[t][p].content] # Absent
    BY DEF ReferencedBlobExists, ExistStoragePath
  <2>4. CASE t = req[w].tenant /\ p = req[w].path
    <3>1. files'[t][p] = row[w]
      BY <1>6, <2>4, TypeParts DEF TypeInv, DataOK, DeleteWrite
    <3> QED
      BY <1>1, <2>1, <2>2, <2>4, <3>1, BlobsStay DEF ExistStoragePath
  <2>5. CASE ~(t = req[w].tenant /\ p = req[w].path)
    <3>1. files'[t][p] = files[t][p]
      BY <1>6, <2>5, TypeParts DEF TypeInv, DataOK, DeleteWrite
    <3> QED
      BY <1>2, <2>3, <3>1 DEF ExistStoragePath
  <2> QED
    BY <2>4, <2>5
<1>7. CASE files' = files
  BY <1>2, <1>7 DEF ReferencedBlobExists, ExistStoragePath
<1> QED
  BY <1>4, <1>5, <1>6, <1>7, RowsKept

LEMMA BlobInvStep == TypeInv /\ BlobInv /\ [Next]_vars => BlobInv'
<1> SUFFICES ASSUME TypeInv, BlobInv, [Next]_vars PROVE BlobInv'
  OBVIOUS
<1>1. ASSUME NEW w \in Worker, WorkerStep(w) PROVE BlobInv'
  BY <1>1, RowsBacked, BlobOKSelf, BlobOKOthers DEF BlobInv
<1>2. CASE Crash
  BY <1>2
  DEF Crash, BlobInv, BlobOK, ReferencedBlobExists, ExistStoragePath, tables, disk
<1>3. CASE UNCHANGED vars
  BY <1>3 DEF vars, BlobInv, BlobOK, ReferencedBlobExists, ExistStoragePath
<1> QED
  BY <1>1, <1>2, <1>3, StepCases

\* No interleaving, failure or crash leaves a row that names a missing blob.
THEOREM BlobNeverMissing == Spec => []ReferencedBlobExists
<1>1. Init => BlobInv
  BY DEF Init, BlobInv, BlobOK, ReferencedBlobExists
<1>2. BlobInv => ReferencedBlobExists
  BY DEF BlobInv
<1> QED
  BY <1>1, <1>2, TypeInvInit, TypeInvStep, BlobInvStep, PTL DEF Spec

-----------------------------------------------------------------------------
(* Strengthening of ReceivedChunkOnDisk, SessionStaysGone, TenantIsolation.*)

\* The id was drawn, and its create_upload is not waiting for its transaction.
Known(u) ==
    /\ u \in minted
    /\ \A w \in Worker : pc[w] = "create_upload" => req[w].upload_id # u

InChunkWrite == {"open_chunk", "fill_chunk", "add_chunk"}
InCleanup == {"unlink_chunks", "remove_dir"}

\* A handler between two of its steps, and the session it works for.
SessionOK(w) ==
    LET u == req[w].upload_id
    IN  /\ pc[w] = "create_upload" => u \in minted
        /\ pc[w] \in InChunkWrite =>
             Known(u) /\ (uploads[u] # None => uploads[u].tenant = req[w].tenant)
        /\ pc[w] \in {"fill_chunk", "add_chunk"} /\ uploads[u] # None =>
             u \in stagingDirs /\ chunk[u][req[w].index] # None
        /\ pc[w] \in InCleanup => Known(u) /\ uploads[u] = None

IdsUnique ==
    \A v, w \in Worker :
        /\ pc[v] = "create_upload" /\ pc[w] = "create_upload"
        /\ req[v].upload_id = req[w].upload_id
        => v = w

SessionInv ==
    /\ ReceivedChunkOnDisk
    /\ \A u \in UploadId : uploads[u] # None => Known(u)
    /\ IdsUnique
    /\ \A w \in Worker : SessionOK(w)
-----------------------------------------------------------------------------
(* Frames.                                                                 *)

LEMMA ChunksKept ==
  ASSUME NEW w \in Worker, WorkerStep(w),
         ~OpenChunk(w), ~FillChunk(w), ~UnlinkChunks(w)
  PROVE  chunk' = chunk
  BY DEF WorkerStep, Receive, Handle, IoError, CreateFile, OpenBlob, FillBlob,
         CreateCommit, DeleteFile, DeleteWrite, GetFile, ServeBlob,
         CreateUpload, MakeDir, ReplaceChunk, AddChunk, FinalizeUpload,
         CopyChunk, Persist, FinalizeCommit, RemoveDir, disk

LEMMA DirsKept ==
  ASSUME NEW w \in Worker, WorkerStep(w), ~MakeDir(w), ~RemoveDir(w)
  PROVE  stagingDirs' = stagingDirs
  BY DEF WorkerStep, Receive, Handle, IoError, CreateFile, OpenBlob, FillBlob,
         CreateCommit, DeleteFile, DeleteWrite, GetFile, ServeBlob,
         CreateUpload, ReplaceChunk, OpenChunk, FillChunk, AddChunk,
         FinalizeUpload, CopyChunk, Persist, FinalizeCommit, UnlinkChunks, disk

\* Ids are drawn by Receive only, and never given back.
LEMMA MintedKept ==
  ASSUME NEW w \in Worker, WorkerStep(w)
  PROVE  /\ minted \subseteq minted'
         /\ (\A r \in Request : ~Receive(w, r)) => minted' = minted
  BY DEF WorkerStep, Receive, Handle, IoError, CreateFile, OpenBlob, FillBlob,
         CreateCommit, DeleteFile, DeleteWrite, GetFile, ServeBlob,
         CreateUpload, MakeDir, ReplaceChunk, OpenChunk, FillChunk, AddChunk,
         FinalizeUpload, CopyChunk, Persist, FinalizeCommit, UnlinkChunks,
         RemoveDir, Abort

\* The only way to be in create_upload is to have just received the request.
LEMMA CreatesKept ==
  ASSUME TypeInv, NEW w \in Worker, WorkerStep(w), pc'[w] = "create_upload"
  PROVE  \E r \in Request : /\ Receive(w, r)
                            /\ req'[w] = r
                            /\ r.upload_id \in UploadId \ minted
                            /\ r.upload_id \in minted'
<1>1. CASE \E r \in Request : Receive(w, r)
  <2>1. PICK r \in Request : Receive(w, r)
    BY <1>1
  <2>2. r.op = "create_upload" /\ req'[w] = r
    BY <2>1, TypeParts DEF TypeInv, ControlOK, Receive, Goto
  <2>3. r \in InitUploadRequest
    BY <2>2, RequestKind
  <2> QED
    BY <2>1, <2>2, <2>3 DEF Receive, Admissible, InitUploadRequest
<1>2. CASE IoError(w)
  BY <1>2, TypeParts DEF TypeInv, ControlOK, IoError, Reply, Goto
<1>3. CASE Handle(w)
  <2>1. CASE CreateFile(w) \/ FinalizeUpload(w)
    BY <2>1, TypeParts
    DEF TypeInv, ControlOK, CreateFile, FinalizeUpload, BeginWrite, Reply, Goto
  <2>2. CASE OpenBlob(w) \/ FillBlob(w) \/ CreateCommit(w)
    BY <2>2, TypeParts
    DEF TypeInv, ControlOK, OpenBlob, FillBlob, CreateCommit, Reply, Goto
  <2>3. CASE DeleteFile(w) \/ DeleteWrite(w) \/ GetFile(w) \/ ServeBlob(w)
    BY <2>3, TypeParts
    DEF TypeInv, ControlOK, DeleteFile, DeleteWrite, GetFile, ServeBlob, Reply, Goto
  <2>4. CASE CreateUpload(w) \/ MakeDir(w) \/ UnlinkChunks(w) \/ RemoveDir(w)
    BY <2>4, TypeParts
    DEF TypeInv, ControlOK, CreateUpload, MakeDir, UnlinkChunks, At, RemoveDir,
        Reply, Goto
  <2>5. CASE ReplaceChunk(w) \/ OpenChunk(w) \/ FillChunk(w) \/ AddChunk(w)
    BY <2>5, TypeParts
    DEF TypeInv, ControlOK, ReplaceChunk, OpenChunk, FillChunk, AddChunk, Reply, Goto
  <2>6. CASE CopyChunk(w) \/ Persist(w) \/ FinalizeCommit(w)
    BY <2>6, TypeParts
    DEF TypeInv, ControlOK, CopyChunk, At, Persist, FinalizeCommit, Abort, Reply, Goto
  <2> QED
    BY <1>3, <2>1, <2>2, <2>3, <2>4, <2>5, <2>6 DEF Handle
<1> QED
  BY <1>1, <1>2, <1>3 DEF WorkerStep

\* Nobody draws, or waits to create, a known id again.
LEMMA KnownStays ==
  ASSUME TypeInv, NEW w \in Worker, WorkerStep(w), NEW u \in UploadId, Known(u)
  PROVE  Known(u)'
<1>1. u \in minted'
  BY MintedKept DEF Known
<1>2. ASSUME NEW v \in Worker, pc'[v] = "create_upload" PROVE req'[v].upload_id # u
  <2>1. CASE v = w
    BY <1>2, <2>1, CreatesKept DEF Known
  <2>2. CASE v # w
    BY <1>2, <2>2, OthersKept DEF Known
  <2> QED BY <2>1, <2>2
<1> QED
  BY <1>1, <1>2 DEF Known
-----------------------------------------------------------------------------
(* Sessions.                                                               *)

\* A session that is gone stays gone.
LEMMA GoneStays ==
  ASSUME TypeInv, SessionInv, NEW w \in Worker, WorkerStep(w),
         NEW u \in UploadId, Known(u), uploads[u] = None
  PROVE  uploads'[u] = None
<1>1. CASE CreateUpload(w)
  <2>1. req[w].upload_id # u
    BY <1>1 DEF Known, CreateUpload, At
  <2> QED
    BY <1>1, <2>1, TypeParts DEF TypeInv, DataOK, CreateUpload
<1>2. CASE AddChunk(w)
  BY <1>2, TypeParts DEF TypeInv, DataOK, AddChunk, OwnUpload
<1>3. CASE FinalizeCommit(w)
  BY <1>3, TypeParts DEF TypeInv, DataOK, FinalizeCommit
<1> QED
  BY <1>1, <1>2, <1>3, SessionsKept

\* A session that is there keeps its tenant, and was there unless it is new.
LEMMA SessionKept ==
  ASSUME TypeInv, SessionInv, NEW w \in Worker, WorkerStep(w),
         NEW u \in UploadId, Known(u), uploads'[u] # None
  PROVE  uploads[u] # None /\ uploads'[u].tenant = uploads[u].tenant
<1>1. uploads[u] # None
  BY GoneStays
<1>2. uploads[u] \in Upload
  BY <1>1, TypeParts DEF TypeInv, DataOK
<1>3. CASE CreateUpload(w)
  <2>1. req[w].upload_id # u
    BY <1>3 DEF Known, CreateUpload, At
  <2> QED
    BY <1>1, <1>3, <2>1, TypeParts DEF TypeInv, DataOK, CreateUpload
<1>4. CASE AddChunk(w)
  BY <1>1, <1>2, <1>4, TypeParts DEF TypeInv, DataOK, AddChunk, Upload
<1>5. CASE FinalizeCommit(w)
  BY <1>1, <1>5, TypeParts DEF TypeInv, DataOK, FinalizeCommit
<1> QED
  BY <1>1, <1>3, <1>4, <1>5, SessionsKept

\* Chunk files and directories of live sessions are not taken away.
LEMMA ChunkStays ==
  ASSUME TypeInv, SessionInv, NEW w \in Worker, WorkerStep(w),
         NEW u \in UploadId, uploads[u] # None, NEW i \in Index,
         u \in stagingDirs, chunk[u][i] # None
  PROVE  u \in stagingDirs' /\ chunk'[u][i] # None
<1>1. CASE UnlinkChunks(w) \/ RemoveDir(w)
  <2>1. req[w].upload_id # u
    BY <1>1 DEF SessionInv, SessionOK, UnlinkChunks, RemoveDir, At, InCleanup
  <2> QED
    BY <1>1, <2>1, TypeParts DEF TypeInv, DataOK, UnlinkChunks, RemoveDir
<1>2. CASE OpenChunk(w)
  BY <1>2, NoneAssumption, TypeParts DEF TypeInv, DataOK, OpenChunk
<1>3. CASE FillChunk(w)
  BY <1>3, TypeParts DEF TypeInv, DataOK, FillChunk
<1>4. CASE MakeDir(w)
  BY <1>4 DEF MakeDir
<1> QED
  BY <1>1, <1>2, <1>3, <1>4, ChunksKept, DirsKept

\* The id of the request a worker in one of these steps has.
LEMMA RequestId ==
  ASSUME TypeInv, NEW v \in Worker,
         pc[v] \in InChunkWrite \cup InCleanup \cup {"create_upload"}
  PROVE  /\ req[v].upload_id \in UploadId
         /\ pc[v] \in InChunkWrite => req[v].index \in Index
  BY DEF TypeInv, RequestOK, InChunkWrite, InCleanup, InitUploadRequest,
         ReplaceChunkRequest, FinalizeRequest

LEMMA SessionOKOthers ==
  ASSUME TypeInv, SessionInv, NEW w \in Worker, WorkerStep(w),
         NEW v \in Worker, v # w
  PROVE  SessionOK(v)'
<1>1. pc'[v] = pc[v] /\ req'[v] = req[v]
  BY OthersKept
<1>2. CASE pc[v] = "create_upload"
  BY <1>1, <1>2, MintedKept DEF SessionInv, SessionOK, InChunkWrite, InCleanup
<1>3. CASE pc[v] \in InChunkWrite
  <2>1. PICK u \in UploadId : req[v].upload_id = u /\ req[v].index \in Index
    BY <1>3, RequestId
  <2>2. Known(u) /\ (uploads[u] # None => uploads[u].tenant = req[v].tenant)
    BY <1>3, <2>1 DEF SessionInv, SessionOK
  <2>3. Known(u)'
    BY <2>2, KnownStays
  <2>4. uploads'[u] # None => uploads[u] # None /\ uploads'[u].tenant = req[v].tenant
    BY <2>2, SessionKept
  <2>5. pc[v] \in {"fill_chunk", "add_chunk"} /\ uploads'[u] # None
          => u \in stagingDirs' /\ chunk'[u][req[v].index] # None
    BY <2>1, <2>4, ChunkStays DEF SessionInv, SessionOK
  <2> QED
    BY <1>1, <1>3, <2>1, <2>3, <2>4, <2>5 DEF SessionOK, Known, InChunkWrite, InCleanup
<1>4. CASE pc[v] \in InCleanup
  <2>1. PICK u \in UploadId : req[v].upload_id = u
    BY <1>4, RequestId
  <2>2. Known(u) /\ uploads[u] = None
    BY <1>4, <2>1 DEF SessionInv, SessionOK
  <2>3. Known(u)' /\ uploads'[u] = None
    BY <2>2, KnownStays, GoneStays
  <2> QED
    BY <1>1, <1>4, <2>1, <2>3 DEF SessionOK, Known, InChunkWrite, InCleanup
<1> QED
  BY <1>1, <1>2, <1>3, <1>4 DEF SessionOK, InChunkWrite, InCleanup

\* A step that ends with the worker outside these steps leaves nothing to show.
LEMMA SessionOKOutside ==
  ASSUME NEW w \in Worker,
         pc'[w] \notin InChunkWrite \cup InCleanup \cup {"create_upload"}
  PROVE  SessionOK(w)'
  BY DEF SessionOK, InChunkWrite, InCleanup

LEMMA SessionOKSelf ==
  ASSUME TypeInv, SessionInv, NEW w \in Worker, WorkerStep(w)
  PROVE  SessionOK(w)'
<1>1. CASE pc'[w] = "create_upload"
  BY <1>1, CreatesKept DEF SessionOK, InChunkWrite, InCleanup
<1>2. CASE ReplaceChunk(w) /\ ~Reply(w)
  <2>1. PICK u \in UploadId :
          /\ req[w].upload_id = u
          /\ uploads[u] # None /\ uploads[u].tenant = req[w].tenant
    BY <1>2 DEF TypeInv, RequestOK, ReplaceChunk, At, OwnUpload, ReplaceChunkRequest
  <2>2. Known(u)'
    BY <2>1, KnownStays DEF SessionInv
  <2> QED
    BY <1>2, <2>1, <2>2, TypeParts
    DEF TypeInv, ControlOK, ReplaceChunk, Goto, SessionOK, Known, InChunkWrite,
        InCleanup, tables
<1>3. CASE OpenChunk(w) /\ ~Reply(w)
  <2>1. PICK u \in UploadId : req[w].upload_id = u /\ req[w].index \in Index
    BY <1>3, RequestId DEF OpenChunk, At, InChunkWrite
  <2>2. Known(u) /\ (uploads[u] # None => uploads[u].tenant = req[w].tenant)
    BY <1>3, <2>1 DEF SessionInv, SessionOK, OpenChunk, At, InChunkWrite
  <2>3. Known(u)'
    BY <2>2, KnownStays
  <2>4. u \in stagingDirs' /\ chunk'[u][req[w].index] # None
    BY <1>3, <2>1, NoneAssumption, TypeParts DEF TypeInv, DataOK, OpenChunk
  <2> QED
    BY <1>3, <2>1, <2>2, <2>3, <2>4, TypeParts
    DEF TypeInv, ControlOK, OpenChunk, Goto, SessionOK, Known, InChunkWrite,
        InCleanup, tables
<1>4. CASE FillChunk(w)
  <2>1. PICK u \in UploadId : req[w].upload_id = u /\ req[w].index \in Index
    BY <1>4, RequestId DEF FillChunk, At, InChunkWrite
  <2>2. /\ Known(u) /\ (uploads[u] # None => uploads[u].tenant = req[w].tenant)
        /\ uploads[u] # None => u \in stagingDirs /\ chunk[u][req[w].index] # None
    BY <1>4, <2>1 DEF SessionInv, SessionOK, FillChunk, At, InChunkWrite
  <2>3. Known(u)'
    BY <2>2, KnownStays
  <2>4. uploads[u] # None => u \in stagingDirs' /\ chunk'[u][req[w].index] # None
    BY <2>1, <2>2, ChunkStays
  <2> QED
    BY <1>4, <2>1, <2>2, <2>3, <2>4, TypeParts
    DEF TypeInv, ControlOK, FillChunk, Goto, SessionOK, Known, InChunkWrite,
        InCleanup, tables
<1>5. CASE FinalizeCommit(w)
  <2>1. PICK u \in UploadId : req[w].upload_id = u /\ uploads[u] # None
    BY <1>5
    DEF TypeInv, RequestOK, FinalizingOwn, OwnUpload, FinalizeCommit, At, FinalizeRequest
  <2>2. Known(u)'
    BY <2>1, KnownStays DEF SessionInv
  <2>3. uploads'[u] = None
    BY <1>5, <2>1, TypeParts DEF TypeInv, DataOK, FinalizeCommit
  <2> QED
    BY <1>5, <2>1, <2>2, <2>3, TypeParts
    DEF TypeInv, ControlOK, FinalizeCommit, Goto, SessionOK, Known,
        InChunkWrite, InCleanup
<1>6. CASE UnlinkChunks(w)
  <2>1. PICK u \in UploadId :
          req[w].upload_id = u /\ Known(u) /\ uploads[u] = None
    BY <1>6, RequestId DEF SessionInv, SessionOK, UnlinkChunks, At, InCleanup
  <2>2. Known(u)'
    BY <2>1, KnownStays
  <2> QED
    BY <1>6, <2>1, <2>2, TypeParts
    DEF TypeInv, ControlOK, UnlinkChunks, Goto, SessionOK, Known,
        InChunkWrite, InCleanup, tables
<1>7. CASE pc'[w] \notin InChunkWrite \cup InCleanup \cup {"create_upload"}
  BY <1>7, SessionOKOutside
<1>8. ASSUME pc'[w] \in InChunkWrite \cup InCleanup
      PROVE  \/ ReplaceChunk(w) /\ ~Reply(w)
             \/ OpenChunk(w) /\ ~Reply(w)
             \/ FillChunk(w)
             \/ FinalizeCommit(w)
             \/ UnlinkChunks(w)
  <2>1. ~Reply(w)
    BY <1>8, TypeParts DEF TypeInv, ControlOK, Reply, Goto, InChunkWrite, InCleanup
  <2>2. CASE \E r \in Request : Receive(w, r)
    BY <1>8, <2>2, RequestKind, TypeParts
    DEF TypeInv, ControlOK, Receive, Goto, FirstStep, InChunkWrite, InCleanup
  <2>3. CASE IoError(w)
    BY <2>1, <2>3 DEF IoError
  <2>4. CASE CreateFile(w) \/ FinalizeUpload(w) \/ OpenBlob(w) \/ FillBlob(w)
    BY <1>8, <2>1, <2>4, TypeParts
    DEF TypeInv, ControlOK, CreateFile, FinalizeUpload, OpenBlob, FillBlob,
        BeginWrite, Goto, InChunkWrite, InCleanup
  <2>5. CASE DeleteFile(w) \/ GetFile(w) \/ CreateUpload(w)
    BY <1>8, <2>1, <2>5, TypeParts
    DEF TypeInv, ControlOK, DeleteFile, GetFile, CreateUpload, Goto,
        InChunkWrite, InCleanup
  <2>6. CASE CopyChunk(w) \/ Persist(w)
    BY <1>8, <2>1, <2>6, TypeParts
    DEF TypeInv, ControlOK, CopyChunk, At, Persist, Abort, Goto, InChunkWrite, InCleanup
  <2> QED
    BY <2>1, <2>2, <2>3, <2>4, <2>5, <2>6
    DEF WorkerStep, Handle, CreateCommit, DeleteWrite, ServeBlob, MakeDir,
        AddChunk, RemoveDir
<1> QED
  BY <1>1, <1>2, <1>3, <1>4, <1>5, <1>6, <1>7, <1>8

LEMMA IdsUniqueStep ==
  ASSUME TypeInv, SessionInv, NEW w \in Worker, WorkerStep(w)
  PROVE  IdsUnique'
<1>1. ASSUME NEW v \in Worker, v # w, pc'[v] = "create_upload",
             pc'[w] = "create_upload"
      PROVE  req'[v].upload_id # req'[w].upload_id
  <2>1. req'[w].upload_id \notin minted
    BY <1>1, CreatesKept
  <2>2. pc[v] = "create_upload" /\ req'[v] = req[v]
    BY <1>1, OthersKept
  <2>3. req[v].upload_id \in minted
    BY <2>2 DEF SessionInv, SessionOK
  <2> QED
    BY <2>1, <2>2, <2>3
<1>2. ASSUME NEW v \in Worker, NEW x \in Worker, v # w, x # w,
             pc'[v] = "create_upload", pc'[x] = "create_upload",
             req'[v].upload_id = req'[x].upload_id
      PROVE  v = x
  BY <1>2, OthersKept DEF SessionInv, IdsUnique
<1> QED
  BY <1>1, <1>2 DEF IdsUnique

\* A session is in the table only once its create_upload has put it there.
LEMMA LiveKnownStep ==
  ASSUME TypeInv, SessionInv, NEW w \in Worker, WorkerStep(w),
         NEW u \in UploadId, uploads'[u] # None
  PROVE  Known(u)'
<1>1. CASE uploads[u] # None
  BY <1>1, KnownStays DEF SessionInv
<1>2. CASE uploads[u] = None
  <2>1. CreateUpload(w) /\ req[w].upload_id = u
    BY <1>2, SessionsKept, TypeParts
    DEF TypeInv, DataOK, CreateUpload, AddChunk, OwnUpload, FinalizeCommit
  <2>2. pc[w] = "create_upload" /\ u \in minted'
    BY <2>1, MintedKept DEF CreateUpload, At, SessionInv, SessionOK
  <2>3. pc'[w] # "create_upload"
    BY <2>1, TypeParts DEF TypeInv, ControlOK, CreateUpload, Goto, Reply
  <2>4. ASSUME NEW v \in Worker, pc'[v] = "create_upload"
        PROVE  req'[v].upload_id # u
    BY <2>1, <2>2, <2>3, <2>4, OthersKept DEF SessionInv, IdsUnique
  <2> QED
    BY <2>2, <2>4 DEF Known
<1> QED
  BY <1>1, <1>2

LEMMA ReceivedStep ==
  ASSUME TypeInv, SessionInv, NEW w \in Worker, WorkerStep(w)
  PROVE  ReceivedChunkOnDisk'
<1> SUFFICES ASSUME NEW u \in UploadId, uploads'[u] # None,
                    NEW i \in uploads'[u].chunks_received
             PROVE  u \in stagingDirs' /\ chunk'[u][i] # None
  BY DEF ReceivedChunkOnDisk
<1>1. CASE uploads[u] # None /\ i \in uploads[u].chunks_received
  <2>1. i \in Index
    BY <1>1, TypeParts DEF TypeInv, DataOK, Upload
  <2> QED
    BY <1>1, <2>1, ChunkStays DEF SessionInv, ReceivedChunkOnDisk
<1>2. CASE ~(uploads[u] # None /\ i \in uploads[u].chunks_received)
  <2>1. uploads'[u] # uploads[u]
    BY <1>2
  <2>2. ~CreateUpload(w)
    BY <2>1, TypeParts DEF TypeInv, DataOK, CreateUpload
  <2>3. ~FinalizeCommit(w)
    BY <2>1, TypeParts DEF TypeInv, DataOK, FinalizeCommit
  <2>4. AddChunk(w)
    BY <2>1, <2>2, <2>3, SessionsKept
  <2>5. uploads[u] # None /\ req[w].upload_id = u /\ i = req[w].index
    <3>1. OwnUpload(req[w].tenant, req[w].upload_id) /\ req[w].upload_id = u
      BY <2>1, <2>4, TypeParts DEF TypeInv, DataOK, AddChunk
    <3>2. uploads[u] \in Upload
      BY <3>1, TypeParts DEF TypeInv, DataOK, OwnUpload
    <3>3. uploads'[u].chunks_received
            = uploads[u].chunks_received \cup {req[w].index}
      BY <2>4, <3>1, <3>2, TypeParts DEF TypeInv, DataOK, AddChunk, Upload
    <3> QED
      BY <1>2, <3>1, <3>3 DEF OwnUpload
  <2>6. u \in stagingDirs /\ chunk[u][i] # None
    BY <2>4, <2>5 DEF AddChunk, At, SessionInv, SessionOK
  <2> QED
    BY <2>4, <2>6 DEF AddChunk, disk
<1> QED
  BY <1>1, <1>2

LEMMA SessionInvStep == TypeInv /\ SessionInv /\ [Next]_vars => SessionInv'
<1> SUFFICES ASSUME TypeInv, SessionInv, [Next]_vars PROVE SessionInv'
  OBVIOUS
<1>1. ASSUME NEW w \in Worker, WorkerStep(w) PROVE SessionInv'
  <2>1. \A v \in Worker : SessionOK(v)'
    BY <1>1, SessionOKSelf, SessionOKOthers
  <2>2. \A u \in UploadId : uploads'[u] # None => Known(u)'
    BY <1>1, LiveKnownStep
  <2> QED
    BY <1>1, <2>1, <2>2, ReceivedStep, IdsUniqueStep DEF SessionInv
<1>2. CASE Crash
  BY <1>2
  DEF Crash, SessionInv, SessionOK, ReceivedChunkOnDisk, Known, IdsUnique,
      InChunkWrite, InCleanup, tables, disk
<1>3. CASE UNCHANGED vars
  BY <1>3
  DEF vars, SessionInv, SessionOK, ReceivedChunkOnDisk, Known, IdsUnique,
      InChunkWrite, InCleanup
<1> QED
  BY <1>1, <1>2, <1>3, StepCases

LEMMA SessionInvInit == Init => SessionInv
  BY DEF Init, SessionInv, SessionOK, ReceivedChunkOnDisk, Known, IdsUnique,
         InChunkWrite, InCleanup

\* Every chunk index a session has recorded has its file and its directory.
THEOREM ReceivedChunksKept == Spec => []ReceivedChunkOnDisk
<1>1. SessionInv => ReceivedChunkOnDisk
  BY DEF SessionInv
<1> QED
  BY <1>1, TypeInvInit, TypeInvStep, SessionInvInit, SessionInvStep, PTL DEF Spec

\* A late add_chunk never brings a finalized session back.
THEOREM FinalizedStaysGone == Spec => SessionStaysGone
<1>1. TypeInv /\ SessionInv /\ [Next]_vars =>
        [\A u \in UploadId :
           /\ u \in minted
           /\ uploads[u] = None
           /\ \A w \in Worker : At(w, "create_upload") => req[w].upload_id # u
           => uploads'[u] = None]_vars
  <2> SUFFICES ASSUME TypeInv, SessionInv, [Next]_vars, NEW u \in UploadId,
                      Known(u), uploads[u] = None
               PROVE  uploads'[u] = None
    BY DEF Known, At
  <2>1. ASSUME NEW w \in Worker, WorkerStep(w) PROVE uploads'[u] = None
    BY <2>1, GoneStays
  <2>2. CASE Crash \/ UNCHANGED vars
    BY <2>2 DEF Crash, vars, tables
  <2> QED
    BY <2>1, <2>2, StepCases
<1> QED
  BY <1>1, TypeInvInit, TypeInvStep, SessionInvInit, SessionInvStep, PTL
  DEF Spec, SessionStaysGone
-----------------------------------------------------------------------------
(* Tenants.                                                                *)

\* What Handle(w) may change, spelled out.
OwnTablesOnly(w) ==
    LET t == req[w].tenant
    IN  \A s \in Tenant \ {t} :
          files'[s] = files[s] /\ usage'[s] = usage[s] /\ blob'[s] = blob[s]
OwnSessionsOnly(w) ==
    \A u \in UploadId :
        uploads[u] # None /\ uploads[u].tenant # req[w].tenant =>
            uploads'[u] = uploads[u] /\ chunk'[u] = chunk[u]

\* Only four steps write the usages table.
LEMMA UsageKept ==
  ASSUME NEW w \in Worker, WorkerStep(w),
         ~CreateCommit(w), ~CreateUpload(w), ~FinalizeCommit(w)
  PROVE  usage' = usage
  BY DEF WorkerStep, Receive, Handle, IoError, CreateFile, OpenBlob, FillBlob,
         AddChunk, DeleteFile, DeleteWrite, GetFile, ServeBlob, MakeDir,
         ReplaceChunk, OpenChunk, FillChunk, FinalizeUpload, CopyChunk,
         Persist, UnlinkChunks, RemoveDir, Abort, tables

LEMMA OwnTables ==
  ASSUME TypeInv, NEW w \in Worker, Handle(w)
  PROVE  OwnTablesOnly(w)
<1>1. \A s \in Tenant \ {req[w].tenant} : files'[s] = files[s]
  <2>1. CASE CreateCommit(w) \/ DeleteWrite(w) \/ FinalizeCommit(w)
    BY <2>1, TypeParts
    DEF TypeInv, DataOK, CreateCommit, DeleteWrite, FinalizeCommit, PutTable
  <2> QED
    BY <2>1, RowsKept DEF WorkerStep
<1>2. \A s \in Tenant \ {req[w].tenant} : usage'[s] = usage[s]
  <2>1. CASE CreateCommit(w) \/ CreateUpload(w) \/ FinalizeCommit(w)
    BY <2>1, TypeParts
    DEF TypeInv, DataOK, CreateCommit, CreateUpload, FinalizeCommit, InitUsage, Charge
  <2> QED
    BY <2>1, UsageKept DEF WorkerStep
<1>3. \A s \in Tenant \ {req[w].tenant} : blob'[s] = blob[s]
  <2>1. CASE OpenBlob(w) \/ FillBlob(w) \/ Persist(w)
    BY <2>1, TypeParts DEF TypeInv, DataOK, OpenBlob, FillBlob, Persist
  <2> QED
    BY <2>1, BlobsKept DEF WorkerStep
<1> QED
  BY <1>1, <1>2, <1>3 DEF OwnTablesOnly

LEMMA OwnSessions ==
  ASSUME TypeInv, SessionInv, NEW w \in Worker, Handle(w)
  PROVE  OwnSessionsOnly(w)
<1> SUFFICES ASSUME NEW u \in UploadId, uploads[u] # None,
                    uploads[u].tenant # req[w].tenant
             PROVE  uploads'[u] = uploads[u] /\ chunk'[u] = chunk[u]
  BY DEF OwnSessionsOnly
<1>1. uploads'[u] = uploads[u]
  <2>1. CASE CreateUpload(w)
    <3>1. req[w].upload_id # u
      BY <2>1 DEF SessionInv, Known, CreateUpload, At
    <3> QED
      BY <2>1, <3>1, TypeParts DEF TypeInv, DataOK, CreateUpload
  <2>2. CASE AddChunk(w)
    BY <2>2, TypeParts DEF TypeInv, DataOK, AddChunk, OwnUpload
  <2>3. CASE FinalizeCommit(w)
    BY <2>3, TypeParts
    DEF TypeInv, DataOK, FinalizeCommit, At, FinalizingOwn, OwnUpload
  <2> QED
    BY <2>1, <2>2, <2>3, SessionsKept DEF WorkerStep
<1>2. chunk'[u] = chunk[u]
  <2>1. CASE OpenChunk(w) \/ FillChunk(w) \/ UnlinkChunks(w)
    <3>1. req[w].upload_id # u
      BY <2>1
      DEF SessionInv, SessionOK, OpenChunk, FillChunk, UnlinkChunks, At,
          InChunkWrite, InCleanup
    <3> QED
      BY <2>1, <3>1, TypeParts
      DEF TypeInv, DataOK, OpenChunk, FillChunk, UnlinkChunks
  <2> QED
    BY <2>1, ChunksKept DEF WorkerStep
<1> QED
  BY <1>1, <1>2

\* No handler, at any step, changes another tenant's rows, charges, blobs,
\* sessions or chunk files.
THEOREM TenantsIsolated == Spec => TenantIsolation
<1>1. TypeInv /\ SessionInv =>
        [\A w \in Worker : Handle(w) =>
          LET t == req[w].tenant
          IN  /\ \A s \in Tenant \ {t} :
                    /\ files'[s] = files[s]
                    /\ usage'[s] = usage[s]
                    /\ blob'[s] = blob[s]
              /\ \A u \in UploadId :
                    uploads[u] # None /\ uploads[u].tenant # t =>
                        uploads'[u] = uploads[u] /\ chunk'[u] = chunk[u]]_vars
  BY OwnTables, OwnSessions DEF OwnTablesOnly, OwnSessionsOnly
<1> QED
  BY <1>1, TypeInvInit, TypeInvStep, SessionInvInit, SessionInvStep, PTL
  DEF Spec, TenantIsolation
=============================================================================
