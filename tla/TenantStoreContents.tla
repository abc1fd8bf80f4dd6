------------------------ MODULE TenantStoreContents -------------------------
(***************************************************************************)
(* Proofs about TenantStore, for any tenants, paths, contents, workers and *)
(* number of crashes: what rows and downloads hold, the versions of a file, *)
(* that the store implements VersionedFiles, and what tenants are charged. *)
(***************************************************************************)
EXTENDS TenantStoreProofs, FiniteSetTheorems

(* Complete blobs, as long as storage::write does not fail half way: what   *)
(* rows name, what get_file serves, and the refinement of VersionedFiles.   *)

Whole(t, c) == blob[t][c] = Size[c]

\* A handler that writes a blob found none, and one that is about to commit or
\* to serve a row has a whole blob for it.
IntactOK(w) ==
    /\ pc[w] = "open_blob" => blob[req[w].tenant][req[w].content] = Absent
    /\ pc[w] = "create_commit" => Whole(req[w].tenant, req[w].content)
    /\ pc[w] = "finalize_commit"
         => Whole(req[w].tenant, uploads[req[w].upload_id].total_hash)
    /\ pc[w] \in {"delete_write", "serve_blob"}
         => Whole(req[w].tenant, row[w].content)

Filling(w, t, c) == pc[w] = "fill_blob" /\ req[w].tenant = t /\ req[w].content = c

IntactInv ==
    /\ RowIntact
    /\ \A w \in Worker : IntactOK(w)
    /\ \A t \in Tenant, c \in Content :
          ExistStoragePath(t, c) => Whole(t, c) \/ \E w \in Worker : Filling(w, t, c)

\* The requests and sessions whose contents a worker handles.
LEMMA RequestTypes ==
  ASSUME TypeInv, NEW w \in Worker
  PROVE  /\ pc[w] \in {"create_file", "open_blob", "fill_blob", "create_commit"} =>
              /\ req[w].tenant \in Tenant /\ req[w].path \in Path
              /\ req[w].content \in Content
         /\ pc[w] \in {"copy_chunks", "finalize_commit"} =>
              /\ req[w].tenant \in Tenant
              /\ req[w].upload_id \in UploadId
              /\ uploads[req[w].upload_id] \in Upload
              /\ uploads[req[w].upload_id].total_hash \in Content
              /\ uploads[req[w].upload_id].path \in Path
         /\ pc[w] \in {"delete_write", "serve_blob"} =>
              /\ req[w].tenant \in Tenant /\ req[w].path \in Path
              /\ row[w].content \in Content
         /\ pc[w] \in {"delete_file", "get_file"} =>
              req[w].tenant \in Tenant /\ req[w].path \in Path
<1>1. RequestOK(w) /\ FinalizingOwn(w)
  BY DEF TypeInv
<1>2. pc[w] \in {"copy_chunks", "finalize_commit"} => uploads[req[w].upload_id] \in Upload
  BY <1>1, TypeParts
  DEF TypeInv, DataOK, RequestOK, FinalizingOwn, OwnUpload, FinalizeRequest
<1> QED
  BY <1>1, <1>2
  DEF RequestOK, CreateFileRequest, FinalizeRequest, Upload, DeleteFileRequest,
      GetFileRequest, Row

\* A write of a blob: OpenBlob, FillBlob and Persist.
BlobWrite(t, c, n) == blob' = [blob EXCEPT ![t][c] = n]

LEMMA BlobWriteFacts ==
  ASSUME TypeInv, NEW t \in Tenant, NEW c \in Content, NEW n, BlobWrite(t, c, n)
  PROVE  /\ blob'[t][c] = n
         /\ \A s \in Tenant, d \in Content : s # t \/ d # c => blob'[s][d] = blob[s][d]
<1>1. blob \in [Tenant -> [Content -> Nat \cup {Absent}]]
  BY TypeParts DEF TypeInv, DataOK
<1> QED
  BY <1>1 DEF BlobWrite

\* Who writes which blob, and what is known of it then.
LEMMA BlobSteps ==
  ASSUME TypeInv, BlobInv, IntactInv, NEW w \in Worker, WorkerStep(w), blob' # blob
  PROVE  \E t \in Tenant, c \in Content, n \in Nat :
            /\ BlobWrite(t, c, n)
            /\ Whole(t, c) => n = Size[c]
            /\ \/ pc[w] = "open_blob" /\ pc'[w] = "fill_blob" /\ n = 0
                    /\ req[w].tenant = t /\ req[w].content = c /\ req'[w] = req[w]
               \/ pc[w] = "fill_blob" /\ pc'[w] = "fill_blob"
                    /\ req[w].tenant = t /\ req[w].content = c /\ req'[w] = req[w]
               \/ pc[w] = "fill_blob" /\ n = Size[c] /\ pc'[w] = "create_commit"
                    /\ req[w].tenant = t /\ req[w].content = c /\ req'[w] = req[w]
               \/ pc[w] = "copy_chunks" /\ n = Size[c] /\ pc'[w] = "finalize_commit"
                    /\ req[w].tenant = t /\ req'[w] = req[w]
                    /\ c = uploads[req[w].upload_id].total_hash
<1>1. OpenBlob(w) \/ FillBlob(w) \/ Persist(w)
  BY BlobsKept
<1>2. blob \in [Tenant -> [Content -> Nat \cup {Absent}]] /\ pc \in [Worker -> Step]
  BY TypeParts DEF TypeInv, DataOK, ControlOK
<1>3. CASE OpenBlob(w)
  <2>1. req[w].tenant \in Tenant /\ req[w].content \in Content
    BY <1>3, RequestTypes DEF OpenBlob, At
  <2>2. blob[req[w].tenant][req[w].content] = Absent
    BY <1>3 DEF IntactInv, IntactOK, OpenBlob, At
  <2>3. ~Whole(req[w].tenant, req[w].content)
    BY <2>1, <2>2, SizeAssumption DEF Whole, Absent
  <2>4. BlobWrite(req[w].tenant, req[w].content, 0)
    BY <1>3 DEF OpenBlob, BlobWrite
  <2>5. pc[w] = "open_blob" /\ pc'[w] = "fill_blob" /\ req'[w] = req[w]
    BY <1>2, <1>3 DEF OpenBlob, At, Goto
  <2> QED
    BY <2>1, <2>3, <2>4, <2>5
<1>4. CASE FillBlob(w)
  <2> DEFINE t == req[w].tenant
             c == req[w].content
  <2>1. t \in Tenant /\ c \in Content /\ pc[w] = "fill_blob"
    BY <1>4, RequestTypes DEF FillBlob, At
  <2>2. PICK n \in blob[t][c] .. Size[c] :
           /\ BlobWrite(t, c, n)
           /\ n = Size[c] \/ n > blob[t][c]
           /\ Goto(w, IF n = Size[c] THEN "create_commit" ELSE "fill_blob")
    BY <1>4 DEF FillBlob, BlobWrite
  <2>3. ExistStoragePath(t, c)
    BY <2>1 DEF BlobInv, BlobOK
  <2>4. blob[t][c] \in Nat /\ Size[c] \in Nat
    BY <1>2, <2>1, <2>3, SizeAssumption DEF ExistStoragePath
  <2>5. n \in Nat /\ (Whole(t, c) => n = Size[c])
    BY <2>2, <2>4 DEF Whole
  <2>6. /\ req'[w] = req[w]
        /\ \/ pc'[w] = "fill_blob"
           \/ n = Size[c] /\ pc'[w] = "create_commit"
    BY <1>2, <1>4, <2>2 DEF FillBlob, Goto
  <2> QED
    BY <2>1, <2>2, <2>5, <2>6
<1>5. CASE Persist(w)
  <2> DEFINE c == uploads[req[w].upload_id].total_hash
  <2>1. pc[w] = "copy_chunks" /\ req[w].tenant \in Tenant /\ c \in Content
    BY <1>5, RequestTypes DEF Persist, At
  <2>2. BlobWrite(req[w].tenant, c, Size[c]) /\ Size[c] \in Nat
    BY <1>5, <2>1, SizeAssumption DEF Persist, BlobWrite, Abort
  <2>3. pc'[w] = "finalize_commit" /\ req'[w] = req[w]
    BY <1>2, <1>5 DEF Persist, Goto
  <2> QED
    BY <2>1, <2>2, <2>3
<1> QED
  BY <1>1, <1>3, <1>4, <1>5

\* A whole blob stays whole.
LEMMA WholeStays ==
  ASSUME TypeInv, BlobInv, IntactInv, NEW w \in Worker, WorkerStep(w),
         NEW t \in Tenant, NEW c \in Content, Whole(t, c)
  PROVE  Whole(t, c)'
<1>1. CASE blob' = blob
  BY <1>1 DEF Whole
<1>2. CASE blob' # blob
  <2>1. PICK s \in Tenant, d \in Content, n \in Nat :
           BlobWrite(s, d, n) /\ (Whole(s, d) => n = Size[d])
    BY <1>2, BlobSteps
  <2> QED
    BY <2>1, BlobWriteFacts DEF Whole
<1> QED
  BY <1>1, <1>2

LEMMA IntactOthers ==
  ASSUME TypeInv, BlobInv, IntactInv, NEW w \in Worker, WorkerStep(w),
         NEW v \in Worker, v # w
  PROVE  IntactOK(v)'
<1>1. pc'[v] = pc[v] /\ req'[v] = req[v] /\ row'[v] = row[v]
  BY OthersKept
<1>2. IntactOK(v)
  BY DEF IntactInv
<1>3. CASE pc[v] = "open_blob"
  <2>1. blob' = blob
    <3>1. pc[v] \in LockedStep
      BY <1>3 DEF LockedStep
    <3>2. pc[w] \notin LockedStep
      BY <3>1, OneLocked
    <3> QED
      BY <3>2, BlobSteps DEF LockedStep
  <2> QED
    BY <1>1, <1>2, <1>3, <2>1 DEF IntactOK
<1>4. CASE pc[v] = "create_commit"
  BY <1>1, <1>2, <1>4, RequestTypes, WholeStays DEF IntactOK, Whole
<1>5. CASE pc[v] = "finalize_commit"
  <2>1. uploads' = uploads
    BY <1>5, SessionsKeptUnderLock
  <2> QED
    BY <1>1, <1>2, <1>5, <2>1, RequestTypes, WholeStays DEF IntactOK, Whole
<1>6. CASE pc[v] \in {"delete_write", "serve_blob"}
  BY <1>1, <1>2, <1>6, RequestTypes, WholeStays DEF IntactOK, Whole
<1> QED
  BY <1>1, <1>3, <1>4, <1>5, <1>6 DEF IntactOK

\* While nobody writes, every blob there is whole.
LEMMA FreeWhole ==
  ASSUME TypeInv, IntactInv, WriterFree, NEW t \in Tenant, NEW c \in Content,
         ExistStoragePath(t, c)
  PROVE  Whole(t, c)
<1>1. ASSUME NEW w \in Worker PROVE pc[w] # "fill_blob"
  BY NoneAssumption DEF TypeInv, LockOK, LockedStep, WriterFree
<1> QED
  BY <1>1 DEF IntactInv, Filling

\* The steps that lead to one that IntactOK says something about.
LEMMA IntactSelf ==
  ASSUME TypeInv, BlobInv, IntactInv, NEW w \in Worker, WorkerStep(w)
  PROVE  IntactOK(w)'
<1> DEFINE Said == {"open_blob", "create_commit", "finalize_commit", "delete_write",
                    "serve_blob"}
<1>1. pc \in [Worker -> Step] /\ row \in [Worker -> Row \cup {None}]
  BY TypeParts DEF TypeInv, ControlOK
<1>2. CASE pc'[w] \notin Said
  BY <1>2 DEF IntactOK
<1>3. CASE CreateFile(w) /\ pc'[w] \in Said
  <2> DEFINE t == req[w].tenant
             c == req[w].content
  <2>1. t \in Tenant /\ c \in Content /\ WriterFree
    BY <1>3, RequestTypes DEF CreateFile, At
  <2>2. /\ req' = req /\ blob' = blob
        /\ \/ ExistStoragePath(t, c) /\ pc'[w] = "create_commit"
           \/ ~ExistStoragePath(t, c) /\ pc'[w] = "open_blob"
    BY <1>1, <1>3 DEF CreateFile, BeginWrite, Reply, Goto, disk
  <2>3. ExistStoragePath(t, c) => Whole(t, c)
    BY <2>1, FreeWhole
  <2> QED
    BY <2>2, <2>3 DEF IntactOK, Whole, ExistStoragePath
<1>4. CASE FillBlob(w) /\ pc'[w] \in Said
  <2>1. pc[w] = "fill_blob" /\ req' = req
    BY <1>4 DEF FillBlob, At
  <2>2. PICK n \in blob[req[w].tenant][req[w].content] .. Size[req[w].content] :
           /\ BlobWrite(req[w].tenant, req[w].content, n)
           /\ pc'[w] = IF n = Size[req[w].content] THEN "create_commit" ELSE "fill_blob"
    BY <1>1, <1>4 DEF FillBlob, BlobWrite, Goto
  <2>3. n = Size[req[w].content] /\ pc'[w] = "create_commit"
    BY <1>4, <2>2
  <2> QED
    BY <2>1, <2>2, <2>3, RequestTypes, BlobWriteFacts DEF IntactOK, Whole
<1>5. CASE Persist(w) /\ pc'[w] \in Said
  <2> DEFINE c == uploads[req[w].upload_id].total_hash
  <2>1. pc[w] = "copy_chunks" /\ pc'[w] = "finalize_commit" /\ req' = req
          /\ uploads' = uploads /\ BlobWrite(req[w].tenant, c, Size[c])
    BY <1>1, <1>5 DEF Persist, At, Goto, BlobWrite, Abort, Reply, tables
  <2> QED
    BY <2>1, RequestTypes, BlobWriteFacts DEF IntactOK, Whole
<1>6. CASE FinalizeUpload(w) /\ pc'[w] \in Said
  <2> DEFINE t == req[w].tenant
             u == req[w].upload_id
             c == uploads[u].total_hash
  <2>1. /\ WriterFree /\ OwnUpload(t, u) /\ blob[t][c] = uploads[u].total_size
        /\ pc'[w] = "finalize_commit" /\ req' = req /\ UNCHANGED <<tables, disk>>
    BY <1>1, <1>6 DEF FinalizeUpload, BeginWrite, Reply, Goto
  <2>2. t \in Tenant /\ u \in UploadId
    BY <1>6 DEF TypeInv, RequestOK, FinalizeUpload, At, FinalizeRequest
  <2>3. uploads[u] \in Upload
    BY <2>1, <2>2, TypeParts DEF TypeInv, DataOK, OwnUpload
  <2>4. c \in Content /\ uploads[u].total_size # Absent
    BY <2>3, SizeAssumption DEF Upload, Absent
  <2>5. Whole(t, c)
    BY <2>1, <2>2, <2>4, FreeWhole DEF ExistStoragePath
  <2> QED
    BY <2>1, <2>5 DEF IntactOK, Whole, tables, disk
<1>7. CASE (DeleteFile(w) \/ GetFile(w)) /\ pc'[w] \in Said
  <2> DEFINE t == req[w].tenant
             found == files[t][req[w].path]
  <2>1. /\ found # None /\ req' = req /\ blob' = blob
        /\ pc'[w] \in {"delete_write", "serve_blob"}
        /\ row'[w] \in {found, [found EXCEPT !.is_deleted = TRUE]}
    BY <1>1, <1>7 DEF DeleteFile, GetFile, Reply, Goto, disk
  <2>2. t \in Tenant /\ req[w].path \in Path
    BY <1>7, RequestTypes DEF DeleteFile, GetFile, At
  <2>3. found \in Row
    BY <2>1, <2>2, TypeParts DEF TypeInv, DataOK
  <2>4. row'[w].content = found.content
    BY <2>1, <2>3 DEF Row
  <2>5. Whole(t, found.content)
    BY <2>1, <2>2 DEF IntactInv, RowIntact, Whole
  <2> QED
    BY <2>1, <2>4, <2>5 DEF IntactOK, Whole
<1>8. CASE ~CreateFile(w) /\ ~FillBlob(w) /\ ~Persist(w) /\ ~FinalizeUpload(w)
             /\ ~DeleteFile(w) /\ ~GetFile(w) /\ pc'[w] \in Said
  <2>1. CASE (\E r \in Request : Receive(w, r)) \/ IoError(w)
    BY <1>1, <1>8, <2>1, RequestKind DEF Receive, IoError, Reply, Goto, FirstStep
  <2>2. CASE OpenBlob(w) \/ CreateCommit(w) \/ DeleteWrite(w) \/ ServeBlob(w)
               \/ CreateUpload(w) \/ MakeDir(w)
    BY <1>1, <1>8, <2>2
    DEF OpenBlob, CreateCommit, DeleteWrite, ServeBlob, CreateUpload, MakeDir, Reply, Goto
  <2>3. CASE ReplaceChunk(w) \/ OpenChunk(w) \/ FillChunk(w) \/ AddChunk(w)
    BY <1>1, <1>8, <2>3 DEF ReplaceChunk, OpenChunk, FillChunk, AddChunk, Reply, Goto
  <2>4. CASE CopyChunk(w) \/ FinalizeCommit(w) \/ UnlinkChunks(w) \/ RemoveDir(w)
    BY <1>1, <1>8, <2>4
    DEF CopyChunk, At, FinalizeCommit, UnlinkChunks, RemoveDir, Abort, Reply, Goto
  <2> QED
    BY <1>8, <2>1, <2>2, <2>3, <2>4 DEF WorkerStep, Handle
<1> QED
  BY <1>2, <1>3, <1>4, <1>5, <1>6, <1>7, <1>8

\* The rows: a put or a finalize commits one for a whole blob, delete_file puts
\* the row back that it has read.
LEMMA RowSteps ==
  ASSUME TypeInv, IntactInv, NEW w \in Worker, WorkerStep(w), files' # files
  PROVE  \E t \in Tenant, p \in Path, c \in Content :
            /\ Whole(t, c)
            /\ \/ files' = PutTable(t, p, c)
               \/ /\ DeleteWrite(w) /\ row[w] \in Row /\ row[w].content = c
                  /\ files' = [files EXCEPT ![t][p] = row[w]]
<1>1. CreateCommit(w) \/ FinalizeCommit(w) \/ DeleteWrite(w)
  BY RowsKept
<1>2. CASE CreateCommit(w)
  <2>1. pc[w] = "create_commit"
    BY <1>2 DEF CreateCommit, At
  <2>2. files' = PutTable(req[w].tenant, req[w].path, req[w].content)
    BY <1>2 DEF CreateCommit
  <2> QED
    BY <2>1, <2>2, RequestTypes DEF IntactInv, IntactOK
<1>3. CASE FinalizeCommit(w)
  <2>1. pc[w] = "finalize_commit"
    BY <1>3 DEF FinalizeCommit, At
  <2>2. files' = PutTable(req[w].tenant, uploads[req[w].upload_id].path,
                          uploads[req[w].upload_id].total_hash)
    BY <1>3 DEF FinalizeCommit
  <2> QED
    BY <2>1, <2>2, RequestTypes DEF IntactInv, IntactOK
<1>4. CASE DeleteWrite(w)
  <2>1. pc[w] = "delete_write"
    BY <1>4 DEF DeleteWrite, At
  <2>2. row[w] \in Row
    BY <2>1 DEF TypeInv, RequestOK
  <2>3. files' = [files EXCEPT ![req[w].tenant][req[w].path] = row[w]]
    BY <1>4 DEF DeleteWrite
  <2> QED
    BY <1>4, <2>1, <2>2, <2>3, RequestTypes DEF IntactInv, IntactOK
<1> QED
  BY <1>1, <1>2, <1>3, <1>4

LEMMA PutTableFacts ==
  ASSUME TypeInv, NEW t \in Tenant, NEW p \in Path, NEW c \in Content, files' = PutTable(t, p, c)
  PROVE  /\ files'[t][p] =
               [version |-> IF files[t][p] = None THEN 1 ELSE files[t][p].version + 1,
                content |-> c, is_deleted |-> FALSE]
         /\ files'[t][p].content = c
         /\ \A s \in Tenant, q \in Path : s # t \/ q # p => files'[s][q] = files[s][q]
<1>1. files \in [Tenant -> [Path -> Row \cup {None}]]
  BY TypeParts DEF TypeInv, DataOK
<1> QED
  BY <1>1 DEF PutTable

LEMMA PutTableContent ==
  ASSUME TypeInv, NEW t \in Tenant, NEW p \in Path, NEW c \in Content, files' = PutTable(t, p, c)
  PROVE  files'[t][p].content = c
  BY PutTableFacts

LEMMA PutTableKeeps ==
  ASSUME TypeInv, NEW t \in Tenant, NEW p \in Path, NEW c \in Content,
         files' = PutTable(t, p, c),
         NEW s \in Tenant, NEW q \in Path, s # t \/ q # p
  PROVE  files'[s][q] = files[s][q]
<1>1. \A x \in Tenant, y \in Path : x # t \/ y # p => files'[x][y] = files[x][y]
  BY PutTableFacts
<1> QED
  BY <1>1

LEMMA RowIntactStep ==
  ASSUME TypeInv, BlobInv, IntactInv, NEW w \in Worker, WorkerStep(w)
  PROVE  RowIntact'
<1> SUFFICES ASSUME NEW s \in Tenant, NEW q \in Path, files'[s][q] # None
             PROVE  blob'[s][files'[s][q].content] = Size[files'[s][q].content]
  BY DEF RowIntact
<1>1. files \in [Tenant -> [Path -> Row \cup {None}]]
  BY TypeParts DEF TypeInv, DataOK
<1>2. CASE files'[s][q] = files[s][q]
  <2>1. files[s][q].content \in Content
    BY <1>1, <1>2 DEF Row
  <2>2. Whole(s, files[s][q].content)
    BY <1>2 DEF IntactInv, RowIntact, Whole
  <2> QED
    BY <1>2, <2>1, <2>2, WholeStays DEF Whole
<1>3. CASE files'[s][q] # files[s][q]
  <2>1. PICK t \in Tenant, p \in Path, c \in Content :
            /\ Whole(t, c)
            /\ \/ files' = PutTable(t, p, c)
               \/ /\ row[w] \in Row /\ row[w].content = c
                  /\ files' = [files EXCEPT ![t][p] = row[w]]
    BY <1>3, RowSteps
  <2>2. s = t /\ q = p /\ files'[s][q].content = c
    <3>1. CASE files' = PutTable(t, p, c)
      <4>1. files'[t][p].content = c
        BY <3>1, PutTableContent
      <4>2. ASSUME s # t \/ q # p PROVE FALSE
        <5>1. files'[s][q] = files[s][q]
          BY <3>1, <4>2, PutTableKeeps
        <5> QED
          BY <1>3, <5>1
      <4> QED
        BY <4>1, <4>2
    <3>2. CASE row[w].content = c /\ files' = [files EXCEPT ![t][p] = row[w]]
      BY <1>1, <1>3, <3>2
    <3> QED
      BY <2>1, <3>1, <3>2
  <2> QED
    BY <2>1, <2>2, WholeStays DEF Whole
<1> QED
  BY <1>2, <1>3

\* A write of a blob that cannot fail goes on.
LEMMA NotFilling ==
  ASSUME "fill_blob" \notin Faults, NEW w \in Worker, WorkerStep(w), pc[w] = "fill_blob"
  PROVE  FillBlob(w)
  BY DEF WorkerStep, Receive, Handle, IoError, CreateFile, OpenBlob, CreateCommit,
         DeleteFile, DeleteWrite, GetFile, ServeBlob, CreateUpload, MakeDir,
         ReplaceChunk, OpenChunk, FillChunk, AddChunk, FinalizeUpload, CopyChunk,
         Persist, FinalizeCommit, UnlinkChunks, RemoveDir, At

\* A blob that is not whole has somebody who is filling it.
LEMMA FilledByStep ==
  ASSUME "fill_blob" \notin Faults, TypeInv, BlobInv, IntactInv,
         NEW w \in Worker, WorkerStep(w),
         NEW t \in Tenant, NEW c \in Content, ExistStoragePath(t, c)'
  PROVE  Whole(t, c)' \/ \E v \in Worker : Filling(v, t, c)'
<1>1. CASE \E v \in Worker \ {w} : Filling(v, t, c)
  BY <1>1, OthersKept DEF Filling
<1>2. CASE Filling(w, t, c)
  <2>1. FillBlob(w)
    BY <1>2, NotFilling DEF Filling
  <2>2. PICK n : /\ BlobWrite(t, c, n)
                 /\ Goto(w, IF n = Size[c] THEN "create_commit" ELSE "fill_blob")
    BY <1>2, <2>1 DEF Filling, FillBlob, BlobWrite
  <2>3. n = Size[c] \/ pc'[w] = "fill_blob"
    BY <2>2, TypeParts DEF TypeInv, ControlOK, Goto
  <2>4. req' = req /\ blob'[t][c] = n
    BY <2>1, <2>2, BlobWriteFacts DEF FillBlob
  <2> QED
    BY <1>2, <2>3, <2>4 DEF Filling, Whole
<1>3. CASE blob'[t][c] = blob[t][c] /\ ~\E v \in Worker : Filling(v, t, c)
  BY <1>3, WholeStays DEF IntactInv, ExistStoragePath, Whole
<1>4. CASE blob'[t][c] # blob[t][c]
  <2>1. PICK s \in Tenant, d \in Content, n \in Nat :
            /\ BlobWrite(s, d, n)
            /\ \/ n = Size[d]
               \/ pc'[w] = "fill_blob" /\ req'[w].tenant = s /\ req'[w].content = d
    BY <1>4, BlobSteps
  <2> QED
    BY <1>4, <2>1, BlobWriteFacts DEF Whole, Filling
<1> QED
  BY <1>1, <1>2, <1>3, <1>4

LEMMA IntactInvStep ==
  ASSUME "fill_blob" \notin Faults
  PROVE  TypeInv /\ BlobInv /\ IntactInv /\ [Next]_vars => IntactInv'
<1> SUFFICES ASSUME TypeInv, BlobInv, IntactInv, [Next]_vars PROVE IntactInv'
  OBVIOUS
<1>1. ASSUME NEW w \in Worker, WorkerStep(w) PROVE IntactInv'
  <2>1. RowIntact'
    BY <1>1, RowIntactStep
  <2>2. \A v \in Worker : IntactOK(v)'
    BY <1>1, IntactSelf, IntactOthers
  <2>3. \A t \in Tenant, c \in Content :
           ExistStoragePath(t, c)' => Whole(t, c)' \/ \E v \in Worker : Filling(v, t, c)'
    BY <1>1, FilledByStep
  <2> QED
    BY <2>1, <2>2, <2>3 DEF IntactInv
<1>2. CASE Crash
  <2>1. \A v \in Worker : pc[v] # "fill_blob" /\ pc'[v] = "idle"
    BY <1>2 DEF Crash, At
  <2> QED
    BY <1>2, <2>1
    DEF Crash, IntactInv, IntactOK, RowIntact, Whole, Filling, ExistStoragePath, disk, tables
<1>3. CASE UNCHANGED vars
  BY <1>3 DEF vars, IntactInv, IntactOK, RowIntact, Whole, Filling, ExistStoragePath
<1> QED
  BY <1>1, <1>2, <1>3, StepCases

LEMMA IntactInit == Init => IntactInv
  BY DEF Init, IntactInv, IntactOK, RowIntact, ExistStoragePath

LEMMA BlobInvInit == Init => BlobInv
  BY DEF Init, BlobInv, BlobOK, ReferencedBlobExists

\* Unless a write of a blob fails half way, every row names a complete file.
THEOREM RowsStayIntact ==
  ASSUME "fill_blob" \notin Faults
  PROVE  Spec => []RowIntact
<1>1. IntactInv => RowIntact
  BY DEF IntactInv
<1> QED
  BY <1>1, TypeInvInit, TypeInvStep, BlobInvInit, BlobInvStep, IntactInit, IntactInvStep,
     PTL DEF Spec

\* Unless a write of a blob fails half way, get_file serves all of what the row
\* it read named, whatever has been put, deleted or uploaded since it read it.
THEOREM DownloadsIntact ==
  ASSUME "fill_blob" \notin Faults
  PROVE  Spec => []DownloadIntact
<1>1. IntactInv => DownloadIntact
  BY DEF IntactInv, IntactOK, DownloadIntact, Whole, At
<1> QED
  BY <1>1, TypeInvInit, TypeInvStep, BlobInvInit, BlobInvStep, IntactInit, IntactInvStep,
     PTL DEF Spec

-----------------------------------------------------------------------------
(* Without deletes: versions, and the refinement of VersionedFiles.         *)

\* Nobody is in the middle of a delete.
NoDeletes == \A w \in Worker : pc[w] \notin {"delete_file", "delete_write"}

LEMMA NoDeletesStep ==
  ASSUME "delete_file" \notin Ops
  PROVE  TypeInv /\ NoDeletes /\ [Next]_vars => NoDeletes'
<1> SUFFICES ASSUME TypeInv, NoDeletes, [Next]_vars PROVE NoDeletes'
  OBVIOUS
<1>1. ASSUME NEW w \in Worker, WorkerStep(w), NEW v \in Worker
      PROVE  pc'[v] \notin {"delete_file", "delete_write"}
  <2>1. CASE v # w
    BY <1>1, <2>1, OthersKept DEF NoDeletes
  <2>2. CASE v = w
    <3> USE TypeParts, <1>1, <2>2 DEF TypeInv, ControlOK
    <3>1. CASE \E r \in Request : Receive(w, r)
      BY <3>1, RequestKind DEF Receive, Admissible, Goto, FirstStep
    <3>2. CASE IoError(w)
      BY <3>2 DEF IoError, Reply, Goto
    <3>3. CASE CreateFile(w) \/ FinalizeUpload(w)
      BY <3>3 DEF CreateFile, FinalizeUpload, BeginWrite, Reply, Goto
    <3>4. CASE OpenBlob(w) \/ FillBlob(w) \/ CreateCommit(w)
      BY <3>4 DEF OpenBlob, FillBlob, CreateCommit, Reply, Goto
    <3>5. CASE DeleteFile(w) \/ DeleteWrite(w)
      BY <3>5 DEF NoDeletes, DeleteFile, DeleteWrite, At
    <3>6. CASE GetFile(w) \/ ServeBlob(w)
      BY <3>6 DEF GetFile, ServeBlob, Reply, Goto
    <3>7. CASE CreateUpload(w) \/ MakeDir(w) \/ UnlinkChunks(w) \/ RemoveDir(w)
      BY <3>7 DEF CreateUpload, MakeDir, UnlinkChunks, At, RemoveDir, Reply, Goto
    <3>8. CASE ReplaceChunk(w) \/ OpenChunk(w) \/ FillChunk(w) \/ AddChunk(w)
      BY <3>8 DEF ReplaceChunk, OpenChunk, FillChunk, AddChunk, Reply, Goto
    <3>9. CASE CopyChunk(w) \/ Persist(w) \/ FinalizeCommit(w)
      BY <3>9 DEF CopyChunk, At, Persist, FinalizeCommit, Abort, Reply, Goto
    <3> QED
      BY <3>1, <3>2, <3>3, <3>4, <3>5, <3>6, <3>7, <3>8, <3>9 DEF WorkerStep, Handle
  <2> QED
    BY <2>1, <2>2
<1>2. CASE Crash
  BY <1>2 DEF Crash, NoDeletes
<1>3. CASE UNCHANGED vars
  BY <1>3 DEF vars, NoDeletes
<1> QED
  BY <1>1, <1>2, <1>3, StepCases DEF NoDeletes

LEMMA NoDeletesInit == Init => NoDeletes
  BY DEF Init, NoDeletes

\* The step formula of VersionMonotonic.
VersionsGrow ==
    \A t \in Tenant, p \in Path :
        files[t][p] # None =>
            /\ files'[t][p] # None
            /\ files'[t][p].version >= files[t][p].version

LEMMA PutGrows ==
  ASSUME TypeInv, NEW s \in Tenant, NEW q \in Path, NEW c \in Content,
         files' = PutTable(s, q, c), TypeInv'
  PROVE  VersionsGrow
<1> SUFFICES ASSUME NEW t \in Tenant, NEW p \in Path, files[t][p] # None
             PROVE  files'[t][p] # None /\ files'[t][p].version >= files[t][p].version
  BY DEF VersionsGrow
<1>1. files[t][p] \in Row /\ files'[t][p] \in Row \cup {None}
  BY DEF TypeInv, TypeOK
<1>2. files[t][p].version \in Nat
  BY <1>1 DEF Row
<1>3. CASE t = s /\ p = q
  <2>1. files'[t][p] = [version |-> files[t][p].version + 1, content |-> c,
                         is_deleted |-> FALSE]
    BY <1>3, PutTableFacts
  <2>2. files'[t][p] \in Row
    BY <1>2, <2>1 DEF Row
  <2>3. files'[t][p] # None
    BY <2>2, RowAssumption
  <2>4. files'[t][p].version = files[t][p].version + 1
    BY <2>1
  <2> QED
    BY <1>2, <2>3, <2>4
<1>4. CASE t # s \/ p # q
  <2>1. files'[t][p] = files[t][p]
    BY <1>4, PutTableKeeps
  <2> QED
    BY <1>2, <2>1
<1> QED
  BY <1>3, <1>4

\* Without deletes, the version of a path never goes down.  (With them it can:
\* a row read by delete_file is written back over a later put.)
THEOREM VersionsNeverFall ==
  ASSUME "delete_file" \notin Ops
  PROVE  Spec => VersionMonotonic
<1>1. TypeInv /\ NoDeletes /\ [Next]_vars /\ TypeInv' => [VersionsGrow]_files
  <2> SUFFICES ASSUME TypeInv, NoDeletes, [Next]_vars, TypeInv', files' # files
               PROVE  VersionsGrow
    OBVIOUS
  <2>1. PICK w \in Worker : WorkerStep(w)
    BY StepCases DEF Crash, tables, vars
  <2>2. CreateCommit(w) \/ FinalizeCommit(w)
    BY <2>1, RowsKept DEF NoDeletes, DeleteWrite, At
  <2>3. CASE CreateCommit(w)
    <3>1. files' = PutTable(req[w].tenant, req[w].path, req[w].content)
      BY <2>3 DEF CreateCommit
    <3> QED
      BY <2>3, <3>1, RequestTypes, PutGrows DEF CreateCommit, At
  <2>4. CASE FinalizeCommit(w)
    <3> DEFINE up == uploads[req[w].upload_id]
    <3>1. files' = PutTable(req[w].tenant, up.path, up.total_hash)
      BY <2>4 DEF FinalizeCommit
    <3>2. req[w].tenant \in Tenant /\ up.path \in Path /\ up.total_hash \in Content
      BY <2>4, RequestTypes DEF FinalizeCommit, At
    <3> QED
      BY <3>1, <3>2, PutGrows
  <2> QED
    BY <2>2, <2>3, <2>4
<1> QED
  BY <1>1, TypeInvInit, TypeInvStep, NoDeletesInit, NoDeletesStep, PTL
  DEF Spec, VersionMonotonic, VersionsGrow

-----------------------------------------------------------------------------
(* The refinement of VersionedFiles. *)

\* The contents a tenant has stored completely: what Files!store stands for.
StoredWhole == [t \in Tenant |-> {c \in Content : Whole(t, c)}]

FilesVars == <<files, StoredWhole>>

LEMMA FilesDefs ==
  /\ Files!Init <=> /\ files = [t \in Tenant |-> [p \in Path |-> None]]
                    /\ StoredWhole = [t \in Tenant |-> {}]
  /\ \A t \in Tenant, c \in Content :
        Files!Keep(t, c) <=> /\ StoredWhole' = [StoredWhole EXCEPT ![t] = @ \cup {c}]
                            /\ files' = files
  /\ \A t \in Tenant, p \in Path, c \in Content :
        Files!Put(t, p, c) <=> /\ c \in StoredWhole[t]
                              /\ files' = PutTable(t, p, c)
                              /\ StoredWhole' = StoredWhole
  BY DEF Files!Init, Files!Keep, Files!Put, StoredWhole, Whole, PutTable

\* A write of a blob completes one content, or none.
LEMMA WritesKeep ==
  ASSUME TypeInv, BlobInv, IntactInv, NEW w \in Worker, WorkerStep(w), blob' # blob
  PROVE  (\E t \in Tenant, c \in Content : Files!Keep(t, c)) \/ UNCHANGED FilesVars
<1>1. PICK t \in Tenant, c \in Content, n \in Nat :
         BlobWrite(t, c, n) /\ (Whole(t, c) => n = Size[c])
  BY BlobSteps
<1>2. files' = files
  BY BlobsKept DEF OpenBlob, FillBlob, Persist, Abort, tables
<1>3. /\ blob'[t][c] = n
      /\ \A s \in Tenant, d \in Content : s # t \/ d # c => blob'[s][d] = blob[s][d]
  BY <1>1, BlobWriteFacts
<1>4. CASE n = Size[c]
  <2>1. ASSUME NEW s \in Tenant
        PROVE  {d \in Content : Whole(s, d)'} = [StoredWhole EXCEPT ![t] = @ \cup {c}][s]
    <3>1. CASE s = t
      <4>1. [StoredWhole EXCEPT ![t] = @ \cup {c}][s] = {d \in Content : Whole(t, d)} \cup {c}
        BY <3>1 DEF StoredWhole
      <4>2. \A d \in Content : Whole(t, d)' <=> Whole(t, d) \/ d = c
        BY <1>3, <1>4 DEF Whole
      <4> QED
        BY <3>1, <4>1, <4>2
    <3>2. CASE s # t
      <4>1. [StoredWhole EXCEPT ![t] = @ \cup {c}][s] = {d \in Content : Whole(s, d)}
        BY <3>2 DEF StoredWhole
      <4> QED
        BY <1>3, <3>2, <4>1 DEF Whole
    <3> QED
      BY <3>1, <3>2
  <2>2. StoredWhole' = [StoredWhole EXCEPT ![t] = @ \cup {c}]
    BY <2>1 DEF StoredWhole
  <2> QED
    BY <1>2, <2>2, FilesDefs
<1>5. CASE n # Size[c]
  <2>1. \A s \in Tenant, d \in Content : Whole(s, d)' <=> Whole(s, d)
    BY <1>1, <1>3, <1>5 DEF Whole
  <2> QED
    BY <1>2, <2>1 DEF FilesVars, StoredWhole
<1> QED
  BY <1>4, <1>5

\* A commit puts a content that is stored completely.
LEMMA CommitsPut ==
  ASSUME TypeInv, BlobInv, IntactInv, NoDeletes, NEW w \in Worker, WorkerStep(w),
         files' # files
  PROVE  \E t \in Tenant, p \in Path, c \in Content : Files!Put(t, p, c)
<1>1. PICK t \in Tenant, p \in Path, c \in Content : Whole(t, c) /\ files' = PutTable(t, p, c)
  <2>1. ~DeleteWrite(w)
    BY DEF NoDeletes, DeleteWrite, At
  <2> QED
    BY <2>1, RowSteps
<1>2. blob' = blob
  BY BlobsKept DEF OpenBlob, FillBlob, Persist, Abort, tables
<1>3. StoredWhole' = StoredWhole /\ c \in StoredWhole[t]
  BY <1>1, <1>2 DEF StoredWhole, Whole
<1> QED
  BY <1>1, <1>3, FilesDefs

\* Unless a write of a blob fails half way, and without deletes, the tables and
\* the blob directory implement VersionedFiles: every step of every handler
\* keeps a content, puts one kept before, or changes neither.
THEOREM KeepsTheFiles ==
  ASSUME "fill_blob" \notin Faults, "delete_file" \notin Ops
  PROVE  Spec => KeepsFiles
<1>1. Init => Files!Init
  <2> SUFFICES ASSUME Init PROVE Files!Init
    OBVIOUS
  <2>1. \A t \in Tenant, c \in Content : ~Whole(t, c)
    BY SizeAssumption DEF Init, Whole, Absent
  <2> QED
    BY <2>1, FilesDefs DEF Init, StoredWhole
<1>2. TypeInv /\ BlobInv /\ IntactInv /\ NoDeletes /\ [Next]_vars
        => Files!Next \/ UNCHANGED FilesVars
  <2> SUFFICES ASSUME TypeInv, BlobInv, IntactInv, NoDeletes, [Next]_vars
               PROVE  Files!Next \/ UNCHANGED FilesVars
    OBVIOUS
  <2>1. CASE files' = files /\ blob' = blob
    BY <2>1 DEF FilesVars, StoredWhole, Whole
  <2>2. CASE ~(files' = files /\ blob' = blob)
    <3>1. PICK w \in Worker : WorkerStep(w)
      BY <2>2, StepCases DEF Crash, tables, disk, vars
    <3> QED
      BY <2>2, <3>1, WritesKeep, CommitsPut DEF Files!Next
  <2> QED
    BY <2>1, <2>2
<1>3. TypeInv /\ BlobInv /\ IntactInv /\ NoDeletes /\ [Next]_vars
        => [Files!Next]_<<files, [t \in Tenant |-> {c \in Content : blob[t][c] = Size[c]}]>>
  BY <1>2 DEF FilesVars, StoredWhole, Whole
<1> QED
  BY <1>1, <1>3, TypeInvInit, TypeInvStep, BlobInvInit, BlobInvStep, IntactInit,
     IntactInvStep, NoDeletesInit, NoDeletesStep, PTL
  DEF Spec, KeepsFiles, Files!Spec

-----------------------------------------------------------------------------
(* Sums, counted byte by byte.                                              *)

BytesOf(x, n) == {x} \X (1..n)
ByteSet(size, S) == UNION {BytesOf(x, size[x]) : x \in S}

LEMMA TotalBytesCounts == \A size, S : TotalBytes(size, S) = Cardinality(ByteSet(size, S))
  BY DEF TotalBytes, ByteSet, BytesOf

LEMMA BytesOfOne ==
  ASSUME NEW x, NEW n \in Nat
  PROVE  IsFiniteSet(BytesOf(x, n)) /\ Cardinality(BytesOf(x, n)) = n
<1>1. IsFiniteSet(1..n) /\ Cardinality(1..n) = n
  BY FS_Interval
<1>2. IsFiniteSet({x}) /\ Cardinality({x}) = 1
  BY FS_Singleton
<1>3. /\ IsFiniteSet({x} \X (1..n))
      /\ Cardinality({x} \X (1..n)) = Cardinality({x}) * Cardinality(1..n)
  BY <1>1, <1>2, FS_Product
<1>4. 1 * n = n
  OBVIOUS
<1> QED
  BY <1>1, <1>2, <1>3, <1>4 DEF BytesOf

\* x is added to the set that is summed over.
LEMMA TotalBytesAdd ==
  ASSUME NEW size, NEW S, NEW x, x \notin S, size[x] \in Nat, IsFiniteSet(ByteSet(size, S))
  PROVE  /\ IsFiniteSet(ByteSet(size, S \cup {x}))
         /\ TotalBytes(size, S \cup {x}) = TotalBytes(size, S) + size[x]
<1> DEFINE B == BytesOf(x, size[x])
<1>1. IsFiniteSet(B) /\ Cardinality(B) = size[x]
  BY BytesOfOne
<1>2. ByteSet(size, S \cup {x}) = ByteSet(size, S) \cup B
  BY DEF ByteSet
<1>3. ByteSet(size, S) \cap B = {}
  BY DEF ByteSet, BytesOf
<1>4. Cardinality(ByteSet(size, S)) \in Nat
  BY FS_CardinalityType
<1>5. /\ IsFiniteSet(ByteSet(size, S) \cup B)
      /\ Cardinality(ByteSet(size, S) \cup B)
           = Cardinality(ByteSet(size, S)) + Cardinality(B) - Cardinality({})
  BY <1>1, <1>3, FS_Union
<1>6. Cardinality({}) = 0
  BY FS_EmptySet
<1>7. Cardinality(ByteSet(size, S \cup {x})) = Cardinality(ByteSet(size, S)) + size[x]
  <2>1. Cardinality(ByteSet(size, S) \cup B) = Cardinality(ByteSet(size, S)) + size[x] - 0
    BY <1>1, <1>5, <1>6
  <2>2. ASSUME NEW m \in Nat, NEW n \in Nat PROVE m + n - 0 = m + n
    OBVIOUS
  <2>3. Cardinality(ByteSet(size, S)) + size[x] - 0 = Cardinality(ByteSet(size, S)) + size[x]
    BY <1>4, <2>2
  <2> QED
    BY <1>2, <2>1, <2>3
<1> QED
  BY <1>2, <1>5, <1>7, TotalBytesCounts

\* A finite set of natural sizes has a sum.
LEMMA ByteSetFinite ==
  ASSUME NEW size, NEW S, IsFiniteSet(S), \A x \in S : size[x] \in Nat
  PROVE  IsFiniteSet(ByteSet(size, S)) /\ TotalBytes(size, S) \in Nat
<1>1. IsFiniteSet({BytesOf(x, size[x]) : x \in S})
  <2> DEFINE f == [x \in S |-> BytesOf(x, size[x])]
             T == {BytesOf(x, size[x]) : x \in S}
  <2>1. f \in Surjection(S, T)
    BY DEF Surjection
  <2> QED
    BY <2>1, FS_Surjection
<1>2. \A B \in {BytesOf(x, size[x]) : x \in S} : IsFiniteSet(B)
  BY BytesOfOne
<1>3. IsFiniteSet(ByteSet(size, S))
  BY <1>1, <1>2, FS_UNION DEF ByteSet
<1> QED
  BY <1>3, FS_CardinalityType, TotalBytesCounts

\* A sum over a part, of the same sizes.
LEMMA TotalBytesPart ==
  ASSUME NEW f, NEW g, NEW S, NEW T, T \subseteq S, \A x \in T : f[x] = g[x],
         IsFiniteSet(ByteSet(f, S))
  PROVE  IsFiniteSet(ByteSet(g, T)) /\ TotalBytes(g, T) <= TotalBytes(f, S)
<1>1. ByteSet(g, T) \subseteq ByteSet(f, S)
  BY DEF ByteSet
<1> QED
  BY <1>1, FS_Subset, TotalBytesCounts

LEMMA TotalBytesSame ==
  ASSUME NEW f, NEW g, NEW S, \A x \in S : f[x] = g[x]
  PROVE  TotalBytes(g, S) = TotalBytes(f, S)
<1>1. ByteSet(g, S) = ByteSet(f, S)
  BY DEF ByteSet
<1> QED
  BY <1>1, TotalBytesCounts

-----------------------------------------------------------------------------
(* What is charged, and what the handler with the write transaction is      *)
(* about to charge.                                                         *)

\* What w charges when it commits.
Due(w) ==
    IF exist[w] THEN 0
    ELSE IF pc[w] \in {"open_blob", "fill_blob", "create_commit"} THEN Size[req[w].content]
    ELSE IF pc[w] = "finalize_commit" THEN uploads[req[w].upload_id].total_size
    ELSE 0

WritesFor(t) == writer # None /\ req[writer].tenant = t
Charged(t) == UsageOf(t) + (IF WritesFor(t) THEN Due(writer) ELSE 0)

\* The contents stored, and the one whose file is made next.
Claimed(t) ==
    Stored(t) \cup (IF WritesFor(t) /\ pc[writer] = "open_blob"
                    THEN {req[writer].content} ELSE {})
Volume(t) == TotalBytes(Size, Claimed(t))

\* A handler that writes a blob found none, and one that has assembled a blob
\* has compared its size with the one announced.
ExistOK(w) ==
    /\ pc[w] = "open_blob" => ~ExistStoragePath(req[w].tenant, req[w].content)
    /\ pc[w] = "copy_chunks"
         => ~ExistStoragePath(req[w].tenant, uploads[req[w].upload_id].total_hash)
    /\ pc[w] \in {"open_blob", "fill_blob", "copy_chunks"} => ~exist[w]
    /\ pc[w] = "finalize_commit" /\ ~exist[w]
         => uploads[req[w].upload_id].total_size = Size[uploads[req[w].upload_id].total_hash]

\* A tenant with a session has a usage record.
UsageKnown == \A u \in UploadId : uploads[u] # None => usage[uploads[u].tenant] # Absent

FoundInv == UsageKnown /\ \A w \in Worker : ExistOK(w)

\* Every charge, made or due, is for bytes that are stored.
ChargeInv == \A t \in Tenant : Charged(t) <= Volume(t)

\* The sessions that finalize_upload may still charge.
Unstored(t) == {u \in TenantUploads(t) : ~ExistStoragePath(t, uploads[u].total_hash)}
Announced(t, S) == TotalBytes([u \in TenantUploads(t) |-> uploads[u].total_size], S)

\* All charges, made, due or to come, are within the quota.
QuotaInv == \A t \in Tenant : Charged(t) + Announced(t, Unstored(t)) <= Quota

\* A crash makes the bytes it was about to charge free.
FreeInv == \A t \in Tenant : Volume(t) - Charged(t) <= crashes * LargestSize

\* The handler with the write transaction is the only one in a locked step.
LEMMA Holder ==
  ASSUME TypeInv, NEW w \in Worker
  PROVE  pc[w] \in LockedStep <=> writer = w
  BY DEF TypeInv, LockOK

\* While another worker holds the write transaction, a step changes no session,
\* no blob and no charge.
LEMMA UnderLock ==
  ASSUME TypeInv, NEW w \in Worker, WorkerStep(w), NEW v \in Worker, v # w, writer = v
  PROVE  uploads' = uploads /\ blob' = blob /\ usage' = usage /\ writer' = writer
<1>1. pc[w] \notin LockedStep
  BY Holder
<1>2. ~WriterFree /\ writer # w
  BY NoneAssumption DEF WriterFree
<1>3. ~CreateUpload(w) /\ ~AddChunk(w) /\ ~FinalizeCommit(w) /\ ~CreateCommit(w)
  BY <1>1, <1>2 DEF CreateUpload, AddChunk, FinalizeCommit, CreateCommit, At, LockedStep
<1>4. ~OpenBlob(w) /\ ~FillBlob(w) /\ ~Persist(w) /\ ~CopyChunk(w)
  BY <1>1 DEF OpenBlob, FillBlob, Persist, CopyChunk, At, LockedStep
<1>5. writer' = writer
  BY <1>2, <1>3, <1>4
  DEF WorkerStep, Receive, Handle, IoError, CreateFile, DeleteFile, DeleteWrite, GetFile,
      ServeBlob, MakeDir, ReplaceChunk, OpenChunk, FillChunk, FinalizeUpload,
      UnlinkChunks, RemoveDir
<1> QED
  BY <1>3, <1>4, <1>5, SessionsKept, BlobsKept, UsageKept

LEMMA ExistOthers ==
  ASSUME TypeInv, FoundInv, NEW w \in Worker, WorkerStep(w), NEW v \in Worker, v # w
  PROVE  ExistOK(v)'
<1>1. /\ pc'[v] = pc[v] /\ req'[v] = req[v] /\ exist'[v] = exist[v]
      /\ ExistOK(v)
  BY OthersKept DEF FoundInv
<1>2. CASE writer = v
  BY <1>1, <1>2, UnderLock DEF ExistOK, ExistStoragePath
<1>3. CASE writer # v
  <2>1. pc[v] \notin {"open_blob", "fill_blob", "copy_chunks", "finalize_commit"}
    BY <1>3, Holder DEF LockedStep
  <2> QED
    BY <1>1, <2>1 DEF ExistOK
<1> QED
  BY <1>2, <1>3

LEMMA ExistSelf ==
  ASSUME TypeInv, FoundInv, NEW w \in Worker, WorkerStep(w)
  PROVE  ExistOK(w)'
<1> DEFINE Writes == {"open_blob", "fill_blob", "copy_chunks", "finalize_commit"}
<1>1. pc \in [Worker -> Step] /\ exist \in [Worker -> BOOLEAN]
  BY TypeParts DEF TypeInv, ControlOK
<1>2. ExistOK(w)
  BY DEF FoundInv
<1>3. CASE pc'[w] \notin Writes
  BY <1>3 DEF ExistOK
<1>4. CASE CreateFile(w) /\ pc'[w] \in Writes
  <2>1. /\ ~ExistStoragePath(req[w].tenant, req[w].content)
        /\ pc'[w] = "open_blob" /\ ~exist'[w] /\ req' = req /\ blob' = blob
    BY <1>1, <1>4 DEF CreateFile, BeginWrite, Reply, Goto, disk
  <2> QED
    BY <2>1 DEF ExistOK, ExistStoragePath
<1>5. CASE (OpenBlob(w) \/ FillBlob(w)) /\ pc'[w] \in Writes
  <2>1. pc'[w] = "fill_blob" /\ exist' = exist /\ pc[w] \in {"open_blob", "fill_blob"}
    BY <1>1, <1>5 DEF OpenBlob, FillBlob, At, Goto, locals
  <2> QED
    BY <1>2, <2>1 DEF ExistOK
<1>6. CASE FinalizeUpload(w) /\ pc'[w] \in Writes
  <2>1. \/ /\ blob[req[w].tenant][uploads[req[w].upload_id].total_hash] = Absent
           /\ pc'[w] = "copy_chunks" /\ ~exist'[w]
           /\ req' = req /\ UNCHANGED <<tables, disk>>
        \/ pc'[w] = "finalize_commit" /\ exist'[w]
    BY <1>1, <1>6 DEF FinalizeUpload, BeginWrite, Reply, Goto
  <2> QED
    BY <2>1 DEF ExistOK, ExistStoragePath, tables, disk
<1>7. CASE CopyChunk(w) /\ pc'[w] \in Writes
  <2>1. /\ pc[w] = "copy_chunks" /\ pc' = pc /\ exist' = exist
        /\ req' = req /\ UNCHANGED <<tables, disk>>
    BY <1>1, <1>7 DEF CopyChunk, At, Abort, Reply, Goto
  <2> QED
    BY <1>2, <2>1 DEF ExistOK, ExistStoragePath, tables, disk
<1>8. CASE Persist(w) /\ pc'[w] \in Writes
  <2>1. /\ pc'[w] = "finalize_commit" /\ req' = req /\ uploads' = uploads
        /\ uploads[req[w].upload_id].total_size = Size[uploads[req[w].upload_id].total_hash]
    BY <1>1, <1>8 DEF Persist, Abort, Reply, Goto, tables
  <2> QED
    BY <2>1 DEF ExistOK
<1>9. CASE ~CreateFile(w) /\ ~OpenBlob(w) /\ ~FillBlob(w) /\ ~FinalizeUpload(w)
             /\ ~CopyChunk(w) /\ ~Persist(w) /\ pc'[w] \in Writes
  <2>1. CASE (\E r \in Request : Receive(w, r)) \/ IoError(w)
    BY <1>1, <1>9, <2>1, RequestKind DEF Receive, IoError, Reply, Goto, FirstStep
  <2>2. CASE CreateCommit(w) \/ DeleteFile(w) \/ DeleteWrite(w) \/ GetFile(w)
               \/ ServeBlob(w) \/ CreateUpload(w) \/ MakeDir(w)
    BY <1>1, <1>9, <2>2
    DEF CreateCommit, DeleteFile, DeleteWrite, GetFile, ServeBlob, CreateUpload, MakeDir,
        Reply, Goto
  <2>3. CASE ReplaceChunk(w) \/ OpenChunk(w) \/ FillChunk(w) \/ AddChunk(w)
    BY <1>1, <1>9, <2>3 DEF ReplaceChunk, OpenChunk, FillChunk, AddChunk, Reply, Goto
  <2>4. CASE FinalizeCommit(w) \/ UnlinkChunks(w) \/ RemoveDir(w)
    BY <1>1, <1>9, <2>4
    DEF FinalizeCommit, UnlinkChunks, At, RemoveDir, Reply, Goto
  <2> QED
    BY <1>9, <2>1, <2>2, <2>3, <2>4 DEF WorkerStep, Handle
<1> QED
  BY <1>3, <1>4, <1>5, <1>6, <1>7, <1>8, <1>9

\* How a step writes the usages table.
LEMMA UsageSteps ==
  ASSUME TypeInv, FoundInv, NEW w \in Worker, WorkerStep(w), NEW t \in Tenant
  PROVE  /\ UsageOf(t) \in Nat /\ UsageOf(t)' \in Nat
         /\ usage[t] # Absent => usage'[t] # Absent
         /\ CreateUpload(w) /\ uploads' # uploads /\ req[w].tenant = t => usage'[t] # Absent
         /\ CreateCommit(w) \/ FinalizeCommit(w) =>
              UsageOf(t)' = UsageOf(t) + (IF req[w].tenant = t THEN Due(w) ELSE 0)
         /\ ~CreateCommit(w) /\ ~FinalizeCommit(w) => UsageOf(t)' = UsageOf(t)
<1>1. usage \in [Tenant -> Nat \cup {Absent}] /\ UsageOf(t) \in Nat /\ usage[t] \in Nat \cup {Absent}
  BY TypeParts DEF TypeInv, DataOK, UsageOf
<1>2. CASE CreateUpload(w)
  <2>1. pc[w] = "create_upload" /\ ~CreateCommit(w) /\ ~FinalizeCommit(w)
    BY <1>2 DEF CreateUpload, CreateCommit, FinalizeCommit, At
  <2>2. req[w].tenant \in Tenant
    BY <2>1 DEF TypeInv, RequestOK, InitUploadRequest
  <2>3. CASE usage' = usage /\ uploads' = uploads
    BY <1>1, <2>1, <2>3 DEF UsageOf
  <2>4. CASE usage' = InitUsage(req[w].tenant)
    <3>1. CASE req[w].tenant = t
      <4>1. usage'[t] = UsageOf(t)
        BY <1>1, <2>4, <3>1 DEF InitUsage
      <4> QED
        BY <1>1, <2>1, <4>1 DEF UsageOf, Absent
    <3>2. CASE req[w].tenant # t
      <4>1. usage'[t] = usage[t]
        BY <1>1, <2>4, <3>2 DEF InitUsage
      <4> QED
        BY <1>1, <2>1, <3>2, <4>1 DEF UsageOf
    <3> QED
      BY <3>1, <3>2
  <2> QED
    BY <1>2, <2>3, <2>4 DEF CreateUpload
<1>3. CASE CreateCommit(w)
  <2>1. /\ pc[w] = "create_commit" /\ ~CreateUpload(w) /\ ~FinalizeCommit(w)
        /\ exist[w] \in BOOLEAN
    BY <1>3, TypeParts DEF CreateCommit, CreateUpload, FinalizeCommit, At, TypeInv, ControlOK
  <2>2. req[w].tenant \in Tenant /\ req[w].content \in Content
    BY <2>1, RequestTypes
  <2>3. Size[req[w].content] \in Nat
    BY <2>2, SizeAssumption
  <2>4. CASE req[w].tenant # t
    <3>1. usage'[t] = usage[t]
      BY <1>1, <1>3, <2>4 DEF CreateCommit, InitUsage, Charge
    <3> QED
      BY <1>1, <2>1, <2>4, <3>1 DEF UsageOf
  <2>5. CASE req[w].tenant = t
    <3>1. usage'[t] = UsageOf(t) + Due(w) /\ Due(w) \in Nat
      BY <1>1, <1>3, <2>1, <2>3, <2>5 DEF CreateCommit, InitUsage, Charge, Due
    <3>2. usage'[t] # Absent /\ usage'[t] \in Nat
      BY <1>1, <3>1 DEF Absent
    <3>3. UsageOf(t)' = usage'[t]
      BY <3>2 DEF UsageOf
    <3> QED
      BY <1>1, <1>3, <2>1, <2>5, <3>1, <3>2, <3>3
  <2> QED
    BY <2>4, <2>5
<1>4. CASE FinalizeCommit(w)
  <2>1. /\ pc[w] = "finalize_commit" /\ ~CreateUpload(w) /\ ~CreateCommit(w)
        /\ exist[w] \in BOOLEAN
    BY <1>4, TypeParts DEF CreateCommit, CreateUpload, FinalizeCommit, At, TypeInv, ControlOK
  <2> DEFINE u == req[w].upload_id
  <2>2. /\ req[w].tenant \in Tenant /\ u \in UploadId
        /\ uploads[u] \in Upload /\ OwnUpload(req[w].tenant, u)
    BY <2>1, RequestTypes DEF TypeInv, FinalizingOwn
  <2>3. uploads[u].total_size \in Nat
    BY <2>2, SizeAssumption DEF Upload
  <2>4. usage[req[w].tenant] # Absent
    BY <2>2 DEF FoundInv, UsageKnown, OwnUpload
  <2>5. CASE req[w].tenant # t
    <3>1. usage'[t] = usage[t]
      BY <1>1, <1>4, <2>5 DEF FinalizeCommit
    <3> QED
      BY <1>1, <2>1, <2>5, <3>1 DEF UsageOf
  <2>6. CASE req[w].tenant = t
    <3>1. usage'[t] = usage[t] + Due(w) /\ Due(w) \in Nat /\ usage[t] \in Nat
      BY <1>1, <1>4, <2>1, <2>3, <2>4, <2>6 DEF FinalizeCommit, Due
    <3>2. usage'[t] # Absent /\ usage'[t] \in Nat
      BY <3>1 DEF Absent
    <3> QED
      BY <1>4, <2>1, <2>4, <2>6, <3>1, <3>2 DEF UsageOf
  <2> QED
    BY <2>5, <2>6
<1>5. CASE ~CreateUpload(w) /\ ~CreateCommit(w) /\ ~FinalizeCommit(w)
  BY <1>1, <1>5, UsageKept DEF UsageOf
<1> QED
  BY <1>2, <1>3, <1>4, <1>5

LEMMA FoundInvStep == TypeInv /\ SessionInv /\ FoundInv /\ [Next]_vars => FoundInv'
<1> SUFFICES ASSUME TypeInv, SessionInv, FoundInv, [Next]_vars PROVE FoundInv'
  OBVIOUS
<1>1. ASSUME NEW w \in Worker, WorkerStep(w) PROVE FoundInv'
  <2>1. ASSUME NEW u \in UploadId, uploads'[u] # None
        PROVE  usage'[uploads'[u].tenant] # Absent
    <3>1. CASE uploads[u] # None
      <4>1. uploads[u].tenant \in Tenant
        BY <3>1, TypeParts DEF TypeInv, DataOK, Upload
      <4>2. uploads'[u].tenant = uploads[u].tenant
        BY <1>1, <2>1, <3>1, SessionKept DEF SessionInv
      <4>3. usage[uploads[u].tenant] # Absent
        BY <3>1 DEF FoundInv, UsageKnown
      <4> QED
        BY <1>1, <4>1, <4>2, <4>3, UsageSteps
    <3>2. CASE uploads[u] = None
      <4>1. CreateUpload(w)
        <5>1. CASE AddChunk(w)
          BY <2>1, <3>2, <5>1, TypeParts DEF TypeInv, DataOK, AddChunk, OwnUpload
        <5>2. CASE FinalizeCommit(w)
          BY <2>1, <3>2, <5>2, TypeParts DEF TypeInv, DataOK, FinalizeCommit
        <5> QED
          BY <1>1, <2>1, <3>2, <5>1, <5>2, SessionsKept
      <4>2. pc[w] = "create_upload" /\ req[w].tenant \in Tenant
        BY <4>1 DEF CreateUpload, At, TypeInv, RequestOK, InitUploadRequest
      <4>3. uploads'[u].tenant = req[w].tenant
        BY <2>1, <3>2, <4>1, TypeParts DEF TypeInv, DataOK, CreateUpload
      <4> QED
        BY <1>1, <2>1, <3>2, <4>1, <4>2, <4>3, UsageSteps
    <3> QED
      BY <3>1, <3>2
  <2>2. \A v \in Worker : ExistOK(v)'
    BY <1>1, ExistSelf, ExistOthers
  <2> QED
    BY <2>1, <2>2 DEF FoundInv, UsageKnown
<1>2. CASE Crash
  BY <1>2 DEF Crash, FoundInv, UsageKnown, ExistOK, tables
<1>3. CASE UNCHANGED vars
  BY <1>3 DEF vars, FoundInv, UsageKnown, ExistOK, ExistStoragePath
<1> QED
  BY <1>1, <1>2, <1>3, StepCases

LEMMA FoundInvInit == Init => FoundInv
  BY DEF Init, FoundInv, UsageKnown, ExistOK

-----------------------------------------------------------------------------
(* What a step does to the charges of a tenant and to what they are for.    *)

\* A step of a worker without the write transaction, that does not begin one.
LEMMA BooksOthers ==
  ASSUME TypeInv, FoundInv, NEW w \in Worker, WorkerStep(w), writer # w, writer' = writer,
         NEW t \in Tenant
  PROVE  Charged(t)' = Charged(t) /\ Claimed(t)' = Claimed(t)
<1>1. /\ pc[w] \notin LockedStep
      /\ blob' = blob
  <2>1. pc[w] \notin LockedStep
    BY Holder
  <2> QED
    BY <2>1, BlobsKept DEF OpenBlob, FillBlob, Persist, At, LockedStep
<1>2. UsageOf(t)' = UsageOf(t)
  <2>1. ~CreateCommit(w) /\ ~FinalizeCommit(w)
    BY <1>1 DEF CreateCommit, FinalizeCommit, At, LockedStep
  <2> QED
    BY <2>1, UsageSteps
<1>3. Stored(t)' = Stored(t)
  BY <1>1 DEF Stored, ExistStoragePath
<1>4. CASE writer = None
  BY <1>2, <1>3, <1>4 DEF Charged, Claimed, WritesFor
<1>5. CASE writer # None
  <2>1. writer \in Worker
    BY <1>5, TypeParts DEF TypeInv, DataOK
  <2>2. pc'[writer] = pc[writer] /\ req'[writer] = req[writer] /\ exist'[writer] = exist[writer]
    BY <2>1, OthersKept
  <2>3. uploads' = uploads
    BY <2>1, UnderLock
  <2>4. WritesFor(t)' = WritesFor(t)
    BY <2>2 DEF WritesFor
  <2>5. WritesFor(t) => Due(writer)' = Due(writer)
    BY <2>2, <2>3 DEF Due
  <2> QED
    BY <1>2, <1>3, <2>2, <2>4, <2>5 DEF Charged, Claimed, WritesFor
<1> QED
  BY <1>4, <1>5

\* Who has the write transaction before and after a step.
LEMMA WriterMoves ==
  ASSUME TypeInv, NEW w \in Worker, WorkerStep(w)
  PROVE  \/ writer # w /\ writer' = writer
         \/ (CreateFile(w) \/ FinalizeUpload(w)) /\ writer = None /\ writer' = w
         \/ /\ writer = w
            /\ \/ OpenBlob(w) \/ FillBlob(w) \/ CreateCommit(w) \/ CopyChunk(w)
               \/ Persist(w) \/ FinalizeCommit(w) \/ IoError(w)
<1>1. CASE writer = w
  <2>1. pc[w] \in LockedStep
    BY <1>1, Holder
  <2> QED
    BY <1>1, <2>1
    DEF WorkerStep, Receive, Handle, CreateFile, DeleteFile, DeleteWrite, GetFile,
        ServeBlob, CreateUpload, MakeDir, ReplaceChunk, OpenChunk, FillChunk, AddChunk,
        FinalizeUpload, UnlinkChunks, RemoveDir, At, LockedStep
<1>2. CASE writer # w
  <2>1. pc[w] \notin LockedStep
    BY <1>2, Holder
  <2>2. ~OpenBlob(w) /\ ~FillBlob(w) /\ ~CreateCommit(w) /\ ~CopyChunk(w)
          /\ ~Persist(w) /\ ~FinalizeCommit(w)
    BY <2>1 DEF OpenBlob, FillBlob, CreateCommit, CopyChunk, Persist, FinalizeCommit, At,
                LockedStep
  <2>3. CASE CreateFile(w) \/ FinalizeUpload(w)
    BY <1>2, <2>3 DEF CreateFile, FinalizeUpload, BeginWrite, WriterFree
  <2>4. CASE ~CreateFile(w) /\ ~FinalizeUpload(w)
    BY <1>2, <2>2, <2>4
    DEF WorkerStep, Receive, Handle, IoError, DeleteFile, DeleteWrite, GetFile, ServeBlob,
        CreateUpload, MakeDir, ReplaceChunk, OpenChunk, FillChunk, AddChunk, UnlinkChunks,
        RemoveDir
  <2> QED
    BY <2>3, <2>4
<1> QED
  BY <1>1, <1>2

BooksSame(t) == Charged(t)' = Charged(t) /\ Claimed(t)' = Claimed(t)
BooksGrow(t, c) ==
    /\ c \notin Claimed(t)
    /\ Claimed(t)' = Claimed(t) \cup {c}
    /\ Charged(t)' = Charged(t) + Size[c]
\* The write transaction is dropped.
BooksDrop(t) == Charged(t)' = UsageOf(t) /\ Claimed(t)' = Stored(t)

\* A write transaction begins: its charge is due from now on, unless it is for
\* a blob that finalize_upload has still to assemble.
LEMMA BooksBegin ==
  ASSUME TypeInv, FoundInv, NEW w \in Worker, CreateFile(w) \/ FinalizeUpload(w),
         writer = None, writer' = w, NEW t \in Tenant
  PROVE  \/ BooksSame(t)
         \/ /\ CreateFile(w) /\ req[w].tenant = t /\ BooksGrow(t, req[w].content)
            /\ CheckQuota(t, req[w].content, Size[req[w].content])
            /\ req[w].content \notin Stored(t)
<1>1. pc \in [Worker -> Step] /\ exist \in [Worker -> BOOLEAN]
  BY TypeParts DEF TypeInv, ControlOK
<1>2. /\ usage' = usage /\ uploads' = uploads /\ blob' = blob /\ req' = req
      /\ \/ pc'[w] = "create_commit" /\ exist'[w]
         \/ pc'[w] = "copy_chunks"
         \/ pc'[w] = "finalize_commit" /\ exist'[w]
         \/ /\ CreateFile(w) /\ pc'[w] = "open_blob" /\ ~exist'[w]
            /\ ~ExistStoragePath(req[w].tenant, req[w].content)
            /\ CheckQuota(req[w].tenant, req[w].content, Size[req[w].content])
  BY <1>1, NoneAssumption
  DEF CreateFile, FinalizeUpload, BeginWrite, Goto, Reply, tables, disk
<1>3. /\ UsageOf(t)' = UsageOf(t) /\ UsageOf(t) \in Nat
      /\ Stored(t)' = Stored(t)
      /\ Charged(t) = UsageOf(t) /\ Claimed(t) = Stored(t)
  BY <1>2, UsageType DEF UsageOf, Stored, ExistStoragePath, Charged, Claimed, WritesFor
<1>4. WritesFor(t)' <=> req[w].tenant = t
  BY <1>2, NoneAssumption DEF WritesFor
<1>5. CASE req[w].tenant # t
  BY <1>3, <1>4, <1>5 DEF BooksSame, Charged, Claimed
<1>6. CASE req[w].tenant = t /\ pc'[w] # "open_blob"
  <2>1. Due(w)' = 0
    BY <1>2, <1>6 DEF Due
  <2>2. Charged(t)' = UsageOf(t)' + 0
    BY <1>4, <1>6, <2>1 DEF Charged
  <2>3. Claimed(t)' = Stored(t)'
    BY <1>6 DEF Claimed
  <2> QED
    BY <1>3, <2>2, <2>3 DEF BooksSame
<1>7. CASE req[w].tenant = t /\ pc'[w] = "open_blob"
  <2>1. /\ CreateFile(w) /\ ~exist'[w]
        /\ ~ExistStoragePath(t, req[w].content)
        /\ CheckQuota(t, req[w].content, Size[req[w].content])
    BY <1>2, <1>7
  <2>2. Due(w)' = Size[req[w].content]
    BY <1>2, <1>7, <2>1 DEF Due
  <2>3. Charged(t)' = UsageOf(t)' + Size[req[w].content]
    BY <1>4, <1>7, <2>2 DEF Charged
  <2>4. Claimed(t)' = Stored(t)' \cup {req[w].content}
    BY <1>2, <1>4, <1>7 DEF Claimed
  <2>5. req[w].content \notin Stored(t)
    BY <2>1 DEF Stored
  <2> QED
    BY <1>3, <1>7, <2>1, <2>3, <2>4, <2>5 DEF BooksGrow
<1> QED
  BY <1>5, <1>6, <1>7

\* The holder of the write transaction goes on.
LEMMA BooksHolder ==
  ASSUME TypeInv, BlobInv, FoundInv, NEW w \in Worker, writer = w, NEW t \in Tenant,
         \/ OpenBlob(w) \/ FillBlob(w) \/ CreateCommit(w) \/ CopyChunk(w)
         \/ Persist(w) \/ FinalizeCommit(w) \/ IoError(w)
  PROVE  \/ BooksSame(t)
         \/ /\ Persist(w) /\ req[w].tenant = t
            /\ BooksGrow(t, uploads[req[w].upload_id].total_hash)
            /\ Size[uploads[req[w].upload_id].total_hash] = uploads[req[w].upload_id].total_size
            /\ uploads' = uploads
            /\ uploads[req[w].upload_id].total_hash \in Stored(t)'
         \/ IoError(w) /\ BooksDrop(t)
<1>1. /\ pc \in [Worker -> Step] /\ exist \in [Worker -> BOOLEAN] /\ w # None
      /\ blob \in [Tenant -> [Content -> Nat \cup {Absent}]]
      /\ UsageOf(t) \in Nat
      /\ WorkerStep(w)
  BY TypeParts, NoneAssumption, UsageType
  DEF TypeInv, ControlOK, DataOK, WorkerStep, Handle
<1>2. WritesFor(t) <=> req[w].tenant = t
  BY <1>1 DEF WritesFor
<1>3. ExistOK(w) /\ BlobOK(w)
  BY DEF FoundInv, BlobInv
<1>4. CASE writer' = None
  <2>1. Claimed(t)' = Stored(t)' /\ Charged(t)' = UsageOf(t)'
    <3>1. UsageOf(t)' \in Nat
      BY <1>1, UsageSteps
    <3>2. Claimed(t)' = Stored(t)' /\ Charged(t)' = UsageOf(t)' + 0
      BY <1>4 DEF Claimed, Charged, WritesFor
    <3> QED
      BY <3>1, <3>2
  <2>2. CASE IoError(w)
    <3>1. usage' = usage /\ blob' = blob
      BY <2>2 DEF IoError, tables, disk
    <3> QED
      BY <2>1, <2>2, <3>1 DEF BooksDrop, UsageOf, Stored, ExistStoragePath
  <2>3. CASE CreateCommit(w) \/ FinalizeCommit(w)
    <3>1. blob' = blob /\ pc[w] # "open_blob"
      BY <2>3 DEF CreateCommit, FinalizeCommit, At, disk
    <3>2. UsageOf(t)' = UsageOf(t) + (IF req[w].tenant = t THEN Due(w) ELSE 0)
      BY <1>1, <2>3, UsageSteps
    <3>3. Claimed(t)' = Claimed(t)
      BY <2>1, <3>1 DEF Claimed, Stored, ExistStoragePath
    <3> QED
      BY <1>2, <2>1, <3>2, <3>3 DEF BooksSame, Charged
  <2>4. CASE CopyChunk(w) \/ Persist(w)
    <3>1. usage' = usage /\ blob' = blob /\ pc[w] = "copy_chunks"
      BY <1>1, <1>4, <2>4 DEF CopyChunk, Persist, Abort, tables, disk, At
    <3>2. Due(w) = 0
      BY <3>1 DEF Due
    <3>3. UsageOf(t)' = UsageOf(t) /\ Charged(t) = UsageOf(t)
      BY <1>1, <3>1, <3>2 DEF UsageOf, Charged
    <3>4. Claimed(t)' = Claimed(t)
      BY <2>1, <3>1 DEF Claimed, Stored, ExistStoragePath
    <3> QED
      BY <2>1, <3>3, <3>4 DEF BooksSame
  <2> QED
    BY <1>1, <1>4, <2>2, <2>3, <2>4 DEF OpenBlob, FillBlob
<1>5. CASE writer' # None
  <2>1. ~IoError(w) /\ ~CreateCommit(w) /\ ~FinalizeCommit(w)
    BY <1>5 DEF IoError, CreateCommit, FinalizeCommit
  <2>2. writer' = w /\ req' = req /\ exist' = exist /\ usage' = usage /\ uploads' = uploads
    BY <1>5, <2>1 DEF OpenBlob, FillBlob, CopyChunk, Persist, Abort, locals, tables
  <2>3. UsageOf(t)' = UsageOf(t) /\ (WritesFor(t)' <=> req[w].tenant = t)
    BY <1>1, <2>2 DEF UsageOf, WritesFor
  <2>4. CASE OpenBlob(w)
    <3> DEFINE c == req[w].content
    <3>1. pc[w] = "open_blob" /\ pc'[w] = "fill_blob"
      BY <1>1, <2>4 DEF OpenBlob, At, Goto
    <3>2. c \in Content /\ req[w].tenant \in Tenant
      BY <3>1, RequestTypes
    <3>3. BlobWrite(req[w].tenant, c, 0)
      BY <2>4 DEF OpenBlob, BlobWrite
    <3>4. Due(w)' = Due(w)
      BY <2>2, <3>1 DEF Due
    <3>5. Charged(t)' = Charged(t)
      BY <1>2, <2>2, <2>3, <3>4 DEF Charged
    <3>6. \A d \in Content : d \in Stored(t)' <=> d \in Stored(t) \/ (req[w].tenant = t /\ d = c)
      BY <3>2, <3>3, BlobWriteFacts DEF Stored, ExistStoragePath, Absent
    <3>7. Claimed(t)' = Claimed(t)
      BY <1>2, <2>2, <2>3, <3>1, <3>2, <3>6 DEF Claimed, Stored
    <3> QED
      BY <3>5, <3>7 DEF BooksSame
  <2>5. CASE FillBlob(w)
    <3> DEFINE c == req[w].content
               s == req[w].tenant
    <3>1. pc[w] = "fill_blob" /\ pc'[w] \in {"fill_blob", "create_commit"}
      BY <1>1, <2>5 DEF FillBlob, At, Goto
    <3>2. c \in Content /\ s \in Tenant
      BY <3>1, RequestTypes
    <3>3. ExistStoragePath(s, c)
      BY <1>3, <3>1 DEF BlobOK
    <3>4. PICK n \in blob[s][c] .. Size[c] : BlobWrite(s, c, n)
      BY <2>5 DEF FillBlob, BlobWrite
    <3>5. n # Absent
      BY <1>1, <3>2, <3>3, <3>4, SizeAssumption DEF ExistStoragePath, Absent
    <3>6. Stored(t)' = Stored(t)
      BY <3>2, <3>3, <3>4, <3>5, BlobWriteFacts DEF Stored, ExistStoragePath
    <3>7. Due(w)' = Due(w)
      BY <2>2, <3>1 DEF Due
    <3> QED
      BY <1>2, <2>2, <2>3, <3>1, <3>6, <3>7 DEF BooksSame, Charged, Claimed
  <2>6. CASE CopyChunk(w)
    <3>1. pc' = pc /\ blob' = blob
      BY <1>5, <2>6 DEF CopyChunk, Abort, disk
    <3> QED
      BY <2>2, <2>3, <3>1
      DEF BooksSame, Charged, Claimed, Due, WritesFor, Stored, ExistStoragePath
  <2>7. CASE Persist(w)
    <3> DEFINE u == uploads[req[w].upload_id]
               c == u.total_hash
    <3>1. /\ pc[w] = "copy_chunks" /\ pc'[w] = "finalize_commit"
          /\ BlobWrite(req[w].tenant, c, Size[c]) /\ Size[c] = u.total_size
      BY <1>1, <1>5, <2>7 DEF Persist, Abort, At, Goto, BlobWrite
    <3>2. c \in Content /\ req[w].tenant \in Tenant
      BY <3>1, RequestTypes
    <3>3. ~exist[w] /\ ~ExistStoragePath(req[w].tenant, c)
      BY <1>3, <3>1 DEF ExistOK
    <3>4. Due(w) = 0 /\ Due(w)' = Size[c]
      BY <2>2, <3>1, <3>3 DEF Due
    <3>5. Claimed(t) = Stored(t) /\ Claimed(t)' = Stored(t)'
      BY <2>2, <3>1 DEF Claimed
    <3>6. Size[c] # Absent
      BY <3>2, SizeAssumption DEF Absent
    <3>7. CASE req[w].tenant = t
      <4>1. Charged(t)' = UsageOf(t) + Size[c] /\ Charged(t) = UsageOf(t) + 0
        BY <1>2, <2>2, <2>3, <3>4, <3>7 DEF Charged
      <4>2. Stored(t)' = Stored(t) \cup {c}
        BY <3>1, <3>2, <3>6, <3>7, BlobWriteFacts DEF Stored, ExistStoragePath
      <4>3. c \notin Stored(t)
        BY <3>3, <3>7 DEF Stored
      <4>4. Charged(t)' = Charged(t) + Size[c]
        BY <1>1, <4>1
      <4> QED
        BY <2>2, <2>7, <3>1, <3>5, <3>7, <4>2, <4>3, <4>4 DEF BooksGrow
    <3>8. CASE req[w].tenant # t
      <4>1. Stored(t)' = Stored(t)
        BY <3>1, <3>2, <3>8, BlobWriteFacts DEF Stored, ExistStoragePath
      <4> QED
        BY <1>2, <2>3, <3>5, <3>8, <4>1 DEF BooksSame, Charged
    <3> QED
      BY <3>7, <3>8
  <2> QED
    BY <2>1, <2>4, <2>5, <2>6, <2>7
<1> QED
  BY <1>4, <1>5

\* What every step of a worker does to the books of a tenant.
LEMMA BooksStep ==
  ASSUME TypeInv, BlobInv, FoundInv, NEW w \in Worker, WorkerStep(w), NEW t \in Tenant
  PROVE  \/ BooksSame(t)
         \/ \E c \in Content : BooksGrow(t, c)
         \/ IoError(w) /\ writer = w /\ BooksDrop(t)
<1>1. CASE writer # w /\ writer' = writer
  BY <1>1, BooksOthers DEF BooksSame
<1>2. CASE (CreateFile(w) \/ FinalizeUpload(w)) /\ writer = None /\ writer' = w
  <2>1. CreateFile(w) => req[w].content \in Content
    BY RequestTypes DEF CreateFile, At
  <2> QED
    BY <1>2, <2>1, BooksBegin
<1>3. CASE /\ writer = w
           /\ \/ OpenBlob(w) \/ FillBlob(w) \/ CreateCommit(w) \/ CopyChunk(w)
              \/ Persist(w) \/ FinalizeCommit(w) \/ IoError(w)
  <2>1. Persist(w) => uploads[req[w].upload_id].total_hash \in Content
    BY RequestTypes DEF Persist, At
  <2> QED
    BY <1>3, <2>1, BooksHolder
<1> QED
  BY <1>1, <1>2, <1>3, WriterMoves

LEMMA CrashDrops ==
  ASSUME TypeInv, Crash, NEW t \in Tenant
  PROVE  BooksDrop(t)
<1>1. UsageOf(t) \in Nat
  BY UsageType
<1>2. usage' = usage /\ blob' = blob /\ writer' = None
  BY DEF Crash, tables, disk
<1>3. Charged(t)' = UsageOf(t) + 0 /\ Claimed(t)' = Stored(t)
  BY <1>2 DEF Charged, Claimed, WritesFor, UsageOf, Stored, ExistStoragePath
<1> QED
  BY <1>1, <1>3 DEF BooksDrop

LEMMA DueType ==
  ASSUME TypeInv, NEW t \in Tenant, WritesFor(t)
  PROVE  /\ Due(writer) \in Nat
         /\ pc[writer] = "open_blob" => req[writer].content \in Content
<1>1. writer \in Worker
  BY TypeParts DEF TypeInv, DataOK, WritesFor
<1>2. pc[writer] \in {"open_blob", "fill_blob", "create_commit"} =>
         req[writer].content \in Content /\ Size[req[writer].content] \in Nat
  BY <1>1, RequestTypes, SizeAssumption
<1>3. pc[writer] = "finalize_commit" => uploads[req[writer].upload_id].total_size \in Nat
  <2>1. pc[writer] = "finalize_commit" => uploads[req[writer].upload_id] \in Upload
    BY <1>1, RequestTypes
  <2> QED
    BY <2>1, SizeAssumption DEF Upload
<1> QED
  BY <1>2, <1>3 DEF Due

LEMMA BooksTypes ==
  ASSUME TypeInv, NEW t \in Tenant
  PROVE  /\ Claimed(t) \subseteq Content /\ Stored(t) \subseteq Content
         /\ Charged(t) \in Nat /\ UsageOf(t) \in Nat
<1>1. UsageOf(t) \in Nat
  BY UsageType
<1>2. CASE ~WritesFor(t)
  BY <1>1, <1>2 DEF Claimed, Stored, Charged
<1>3. CASE WritesFor(t)
  BY <1>1, <1>3, DueType DEF Claimed, Stored, Charged
<1> QED
  BY <1>2, <1>3

\* What is due comes on top of what is charged.
LEMMA UsageLeCharged ==
  ASSUME TypeInv, NEW t \in Tenant
  PROVE  UsageOf(t) <= Charged(t)
<1>1. UsageOf(t) \in Nat
  BY UsageType
<1>2. WritesFor(t) => Due(writer) \in Nat
  BY DueType
<1> QED
  BY <1>1, <1>2 DEF Charged

\* A sum of sizes of contents.
LEMMA VolumeTypes ==
  ASSUME NEW S, S \subseteq Content
  PROVE  IsFiniteSet(ByteSet(Size, S)) /\ TotalBytes(Size, S) \in Nat
<1>1. IsFiniteSet(S)
  BY FiniteAssumption, FS_Subset
<1>2. \A c \in S : Size[c] \in Nat
  BY SizeAssumption
<1> QED
  BY <1>1, <1>2, ByteSetFinite

\* The steps at which a blob is stored and its charge not committed.
ChargingStep == {"fill_blob", "create_commit", "finalize_commit"}

\* What dropping the write transaction takes off the charges due, and leaves
\* on disk: nothing, or the bytes of one content.
LEMMA DropFrees ==
  ASSUME TypeInv, FoundInv, NEW t \in Tenant
  PROVE  \E d \in {0} \cup {Size[c] : c \in Content} :
            /\ TotalBytes(Size, Stored(t)) - UsageOf(t) = Volume(t) - Charged(t) + d
            /\ d # 0 => pc[writer] \in ChargingStep
<1> DEFINE V == TotalBytes(Size, Stored(t))
<1>1. /\ Charged(t) \in Nat /\ UsageOf(t) \in Nat /\ V \in Nat /\ Volume(t) \in Nat
      /\ IsFiniteSet(ByteSet(Size, Stored(t)))
  BY BooksTypes, VolumeTypes DEF Volume
<1>2. CASE ~WritesFor(t)
  <2>1. Charged(t) = UsageOf(t) + 0 /\ Volume(t) = V
    BY <1>2 DEF Charged, Volume, Claimed
  <2>2. V - UsageOf(t) = Volume(t) - Charged(t) + 0
    BY <1>1, <2>1
  <2> QED
    BY <2>2
<1>3. CASE WritesFor(t) /\ pc[writer] = "open_blob"
  <2> DEFINE c == req[writer].content
  <2>1. writer \in Worker
    BY <1>3, TypeParts DEF TypeInv, DataOK, WritesFor
  <2>2. c \in Content /\ c \notin Stored(t) /\ ~exist[writer]
    BY <1>3, <2>1, RequestTypes DEF FoundInv, ExistOK, Stored, WritesFor
  <2>3. Size[c] \in Nat
    BY <2>2, SizeAssumption
  <2>4. Charged(t) = UsageOf(t) + Size[c]
    BY <1>3, <2>2 DEF Charged, Due
  <2>5. Volume(t) = V + Size[c]
    <3>1. Claimed(t) = Stored(t) \cup {c}
      BY <1>3 DEF Claimed
    <3> QED
      BY <1>1, <2>2, <2>3, <3>1, TotalBytesAdd DEF Volume
  <2>6. V - UsageOf(t) = Volume(t) - Charged(t) + 0
    BY <1>1, <2>3, <2>4, <2>5
  <2> QED
    BY <2>6
<1>4. CASE WritesFor(t) /\ pc[writer] # "open_blob"
  <2>1. writer \in Worker
    BY <1>4, TypeParts DEF TypeInv, DataOK, WritesFor
  <2>2. Due(writer) \in {0} \cup {Size[c] : c \in Content}
    <3>1. pc[writer] \in {"fill_blob", "create_commit"} => req[writer].content \in Content
      BY <2>1, RequestTypes
    <3>2. pc[writer] = "finalize_commit" /\ ~exist[writer] =>
             /\ uploads[req[writer].upload_id].total_hash \in Content
             /\ uploads[req[writer].upload_id].total_size
                  = Size[uploads[req[writer].upload_id].total_hash]
      BY <2>1, RequestTypes DEF FoundInv, ExistOK
    <3> QED
      BY <1>4, <3>1, <3>2 DEF Due
  <2>3. Due(writer) \in Nat
    BY <2>2, SizeAssumption
  <2>4. Charged(t) = UsageOf(t) + Due(writer) /\ Volume(t) = V
    BY <1>4 DEF Charged, Volume, Claimed
  <2>5. V - UsageOf(t) = Volume(t) - Charged(t) + Due(writer)
    BY <1>1, <2>3, <2>4
  <2>6. Due(writer) # 0 => pc[writer] \in ChargingStep
    BY <1>4 DEF Due, ChargingStep
  <2> QED
    BY <2>2, <2>5, <2>6
<1> QED
  BY <1>2, <1>3, <1>4

\* In numbers: the free bytes of a tenant.
LEMMA FreeSteps ==
  ASSUME TypeInv, BlobInv, FoundInv, [Next]_vars, TypeInv', NEW t \in Tenant
  PROVE  \E d \in {0} \cup {Size[c] : c \in Content} :
            /\ Volume(t)' - Charged(t)' = Volume(t) - Charged(t) + d
            /\ d # 0 => Crash \/ Faults \cap ChargingStep # {}
<1>1. /\ Charged(t) \in Nat /\ Volume(t) \in Nat /\ Claimed(t) \subseteq Content
      /\ IsFiniteSet(ByteSet(Size, Claimed(t)))
  BY BooksTypes, VolumeTypes DEF Volume
<1>2. CASE BooksSame(t)
  <2>1. Volume(t)' = Volume(t) /\ Charged(t)' = Charged(t)
    BY <1>2 DEF BooksSame, Volume, TotalBytes
  <2>2. Volume(t)' - Charged(t)' = Volume(t) - Charged(t) + 0
    BY <1>1, <2>1
  <2> QED
    BY <2>2
<1>3. ASSUME NEW c \in Content, BooksGrow(t, c)
      PROVE  Volume(t)' - Charged(t)' = Volume(t) - Charged(t) + 0
  <2>1. Size[c] \in Nat
    BY SizeAssumption
  <2>2. Volume(t)' = TotalBytes(Size, Claimed(t) \cup {c})
    BY <1>3 DEF BooksGrow, Volume, TotalBytes
  <2>3. Volume(t)' = Volume(t) + Size[c]
    BY <1>1, <1>3, <2>1, <2>2, TotalBytesAdd DEF BooksGrow, Volume
  <2>4. Charged(t)' = Charged(t) + Size[c]
    BY <1>3 DEF BooksGrow
  <2> QED
    BY <1>1, <2>1, <2>3, <2>4
<1>4. CASE BooksDrop(t) /\ (Crash \/ \E w \in Worker : IoError(w) /\ writer = w)
  <2>1. Volume(t)' = TotalBytes(Size, Stored(t)) /\ Charged(t)' = UsageOf(t)
    BY <1>4 DEF BooksDrop, Volume, TotalBytes
  <2>2. pc[writer] \in ChargingStep => Crash \/ Faults \cap ChargingStep # {}
    BY <1>4 DEF IoError
  <2> QED
    BY <2>1, <2>2, DropFrees
<1>5. CASE UNCHANGED vars
  BY <1>2, <1>5
  DEF vars, BooksSame, Charged, Claimed, UsageOf, WritesFor, Due, Stored, ExistStoragePath
<1>6. CASE Crash
  BY <1>4, <1>6, CrashDrops
<1>7. ASSUME NEW w \in Worker, WorkerStep(w)
      PROVE  BooksSame(t) \/ (\E c \in Content : BooksGrow(t, c))
                \/ (IoError(w) /\ writer = w /\ BooksDrop(t))
  BY <1>7, BooksStep
<1> QED
  BY <1>2, <1>3, <1>4, <1>5, <1>6, <1>7, StepCases

\* What the proofs about charges rest on.
ChargeBase == TypeInv /\ SessionInv /\ BlobInv /\ FoundInv

LEMMA ChargeBaseInit == Init => ChargeBase
  BY TypeInvInit, SessionInvInit, BlobInvInit, FoundInvInit DEF ChargeBase

LEMMA ChargeBaseStep == ChargeBase /\ [Next]_vars => ChargeBase'
  BY TypeInvStep, SessionInvStep, BlobInvStep, FoundInvStep DEF ChargeBase

\* At the start nothing is charged and nothing stored.
LEMMA BooksInit ==
  ASSUME Init, NEW t \in Tenant
  PROVE  Charged(t) = 0 /\ Claimed(t) = {}
<1>1. UsageOf(t) = 0 /\ Stored(t) = {} /\ writer = None
  BY DEF Init, UsageOf, Stored, ExistStoragePath
<1> QED
  BY <1>1 DEF Charged, Claimed, WritesFor

LEMMA ChargeInvInit == Init => ChargeInv
<1> SUFFICES ASSUME Init, NEW t \in Tenant PROVE Charged(t) <= Volume(t)
  BY DEF ChargeInv
<1>1. TypeInv
  BY TypeInvInit
<1>2. Volume(t) \in Nat
  BY <1>1, BooksTypes, VolumeTypes DEF Volume
<1> QED
  BY <1>2, BooksInit

BooksInNat == \A t \in Tenant : Charged(t) \in Nat /\ Volume(t) \in Nat

LEMMA BooksAlwaysInNat == TypeInv => BooksInNat
  BY BooksTypes, VolumeTypes DEF Volume, BooksInNat

LEMMA BooksNextInNat == TypeInv' => BooksInNat'
  BY BooksAlwaysInNat, PTL

LEMMA ChargeInvStep == ChargeBase /\ ChargeInv /\ [Next]_vars => ChargeInv'
<1> SUFFICES ASSUME ChargeBase, ChargeInv, [Next]_vars, NEW t \in Tenant
             PROVE  Charged(t)' <= Volume(t)'
  BY DEF ChargeInv
<1>1. TypeInv'
  BY TypeInvStep DEF ChargeBase
<1>2. PICK d \in {0} \cup {Size[c] : c \in Content} :
         Volume(t)' - Charged(t)' = Volume(t) - Charged(t) + d
  BY <1>1, FreeSteps DEF ChargeBase
<1>3. d \in Nat
  BY <1>2, SizeAssumption
<1>4. Charged(t) \in Nat /\ Volume(t) \in Nat /\ Charged(t) <= Volume(t)
  BY BooksTypes, VolumeTypes DEF ChargeBase, ChargeInv, Volume
<1>5. Charged(t)' \in Nat /\ Volume(t)' \in Nat
  BY <1>1, BooksNextInNat DEF BooksInNat
<1> QED
  BY <1>2, <1>3, <1>4, <1>5

\* No order of puts, uploads, failures and crashes charges a tenant for more
\* bytes than are stored for it: a blob is charged once.
THEOREM ChargedOnce == Spec => []ChargedAtMostOnce
<1>1. ChargeBase /\ ChargeInv => ChargedAtMostOnce
  <2> SUFFICES ASSUME ChargeBase, ChargeInv, NEW t \in Tenant
               PROVE  UsageOf(t) <= TotalBytes(Size, Stored(t))
    BY DEF ChargedAtMostOnce
  <2>1. PICK d \in {0} \cup {Size[c] : c \in Content} :
           TotalBytes(Size, Stored(t)) - UsageOf(t) = Volume(t) - Charged(t) + d
    BY DropFrees DEF ChargeBase
  <2>2. /\ d \in Nat /\ Charged(t) \in Nat /\ UsageOf(t) \in Nat /\ Volume(t) \in Nat
        /\ TotalBytes(Size, Stored(t)) \in Nat
    BY <2>1, SizeAssumption, BooksTypes, VolumeTypes DEF ChargeBase, Volume
  <2> QED
    BY <2>1, <2>2 DEF ChargeInv
<1> QED
  BY <1>1, ChargeBaseInit, ChargeBaseStep, ChargeInvInit, ChargeInvStep, PTL DEF Spec

-----------------------------------------------------------------------------
(* The quota.                                                               *)

AnnouncedSize(t) == [u \in TenantUploads(t) |-> uploads[u].total_size]

LEMMA AnnouncedTypes ==
  ASSUME TypeInv, NEW t \in Tenant, NEW S, S \subseteq TenantUploads(t)
  PROVE  /\ \A u \in TenantUploads(t) :
              u \in UploadId /\ AnnouncedSize(t)[u] = uploads[u].total_size
                /\ uploads[u].total_size \in Nat
         /\ IsFiniteSet(S)
         /\ IsFiniteSet(ByteSet(AnnouncedSize(t), S))
         /\ Announced(t, S) \in Nat
         /\ Announced(t, S) = TotalBytes(AnnouncedSize(t), S)
<1>1. ASSUME NEW u \in TenantUploads(t)
      PROVE  u \in UploadId /\ AnnouncedSize(t)[u] = uploads[u].total_size
               /\ uploads[u].total_size \in Nat
  <2>1. u \in UploadId /\ uploads[u] \in Upload
    BY <1>1, TypeParts DEF TypeInv, DataOK, TenantUploads
  <2> QED
    BY <1>1, <2>1, SizeAssumption DEF Upload, AnnouncedSize
<1>2. IsFiniteSet(S)
  BY <1>1, FiniteAssumption, FS_Subset
<1>3. \A u \in S : AnnouncedSize(t)[u] \in Nat
  BY <1>1
<1>4. Announced(t, S) = TotalBytes(AnnouncedSize(t), S)
  BY DEF Announced, AnnouncedSize
<1> QED
  BY <1>1, <1>2, <1>3, <1>4, ByteSetFinite

\* The sessions that may still be charged are a part of the open ones.
LEMMA AnnouncedReserved ==
  ASSUME TypeInv, NEW t \in Tenant
  PROVE  /\ Unstored(t) \subseteq TenantUploads(t)
         /\ ReservedBytes(t) \in Nat
         /\ Announced(t, Unstored(t)) \in Nat
         /\ Announced(t, Unstored(t)) <= ReservedBytes(t)
<1>1. Unstored(t) \subseteq TenantUploads(t)
  BY DEF Unstored
<1>2. ReservedBytes(t) = TotalBytes(AnnouncedSize(t), TenantUploads(t))
  BY DEF ReservedBytes, AnnouncedSize
<1>3. /\ IsFiniteSet(ByteSet(AnnouncedSize(t), TenantUploads(t)))
      /\ TotalBytes(AnnouncedSize(t), TenantUploads(t)) \in Nat
  BY AnnouncedTypes
<1>4. /\ Announced(t, Unstored(t)) \in Nat
      /\ Announced(t, Unstored(t)) = TotalBytes(AnnouncedSize(t), Unstored(t))
  BY <1>1, AnnouncedTypes
<1>5. TotalBytes(AnnouncedSize(t), Unstored(t)) <= TotalBytes(AnnouncedSize(t), TenantUploads(t))
  BY <1>1, <1>3, TotalBytesPart
<1> QED
  BY <1>1, <1>2, <1>3, <1>4, <1>5

\* A session that is there after a step is new, or was there as it is.
LEMMA SessionSteps ==
  ASSUME TypeInv, SessionInv, NEW w \in Worker, WorkerStep(w),
         NEW u \in UploadId, uploads'[u] # None,
         ~CreateUpload(w) \/ req[w].upload_id # u
  PROVE  /\ uploads[u] # None
         /\ uploads'[u].tenant = uploads[u].tenant
         /\ uploads'[u].total_hash = uploads[u].total_hash
         /\ uploads'[u].total_size = uploads[u].total_size
<1>1. uploads \in [UploadId -> Upload \cup {None}]
  BY TypeParts DEF TypeInv, DataOK
<1>2. CASE CreateUpload(w)
  BY <1>1, <1>2 DEF CreateUpload
<1>3. CASE AddChunk(w)
  <2>1. CASE uploads' = uploads
    BY <2>1
  <2>2. CASE uploads' # uploads
    <3>1. PICK v : v = req[w].upload_id /\ uploads[v] # None
                   /\ uploads' = [uploads EXCEPT ![v].chunks_received = @ \cup {req[w].index}]
      BY <1>3, <2>2 DEF AddChunk, OwnUpload
    <3>2. CASE u = v
      <4>1. uploads[u] \in Upload
        BY <1>1, <3>1, <3>2
      <4>2. uploads'[u] = [uploads[u] EXCEPT !.chunks_received = @ \cup {req[w].index}]
        BY <1>1, <3>1, <3>2
      <4> QED
        BY <3>1, <3>2, <4>1, <4>2 DEF Upload
    <3>3. CASE u # v
      BY <1>1, <3>1, <3>3
    <3> QED
      BY <3>2, <3>3
  <2> QED
    BY <2>1, <2>2
<1>4. CASE FinalizeCommit(w)
  BY <1>1, <1>4 DEF FinalizeCommit
<1> QED
  BY <1>2, <1>3, <1>4, SessionsKept

\* No session but a new one joins those that may still be charged.
LEMMA UnstoredShrinks ==
  ASSUME TypeInv, SessionInv, NEW w \in Worker, WorkerStep(w), NEW t \in Tenant,
         NEW u \in Unstored(t)', ~CreateUpload(w) \/ req[w].upload_id # u
  PROVE  u \in Unstored(t) /\ uploads'[u].total_size = uploads[u].total_size
<1>1. /\ u \in UploadId /\ uploads'[u] # None /\ uploads'[u].tenant = t
      /\ blob'[t][uploads'[u].total_hash] = Absent
  BY DEF Unstored, TenantUploads, ExistStoragePath
<1>2. /\ uploads[u] # None /\ uploads[u].tenant = t
      /\ uploads'[u].total_hash = uploads[u].total_hash
      /\ uploads'[u].total_size = uploads[u].total_size
  BY <1>1, SessionSteps
<1>3. uploads[u].total_hash \in Content
  BY <1>1, <1>2, TypeParts DEF TypeInv, DataOK, Upload
<1>4. ~ExistStoragePath(t, uploads[u].total_hash)
  BY <1>1, <1>2, <1>3, BlobsStay DEF Next, WorkerStep, ExistStoragePath
<1> QED
  BY <1>1, <1>2, <1>4 DEF Unstored, TenantUploads

\* So what they announce does not grow, and shrinks by what leaves them.
LEMMA AnnouncedShrinks ==
  ASSUME TypeInv, SessionInv, TypeInv', NEW w \in Worker, WorkerStep(w), NEW t \in Tenant,
         NEW S, S \subseteq Unstored(t), Unstored(t)' \subseteq S,
         \A u \in Unstored(t)' : ~CreateUpload(w) \/ req[w].upload_id # u
  PROVE  Announced(t, Unstored(t))' <= Announced(t, S)
<1>1. /\ S \subseteq TenantUploads(t)
      /\ IsFiniteSet(ByteSet(AnnouncedSize(t), S))
      /\ Announced(t, S) = TotalBytes(AnnouncedSize(t), S)
  BY AnnouncedTypes DEF Unstored
<1>2. \A u \in Unstored(t)' : u \in TenantUploads(t)' /\ u \in TenantUploads(t)
  BY <1>1 DEF Unstored
<1>3. \A u \in Unstored(t)' : AnnouncedSize(t)[u] = AnnouncedSize(t)'[u]
  BY <1>2, UnstoredShrinks DEF AnnouncedSize
<1>4. Announced(t, Unstored(t))' = TotalBytes(AnnouncedSize(t)', Unstored(t)')
  BY DEF Announced, AnnouncedSize, TotalBytes
<1> QED
  BY <1>1, <1>3, <1>4, TotalBytesPart

AnnouncedFits ==
    \A t \in Tenant : /\ ReservedBytes(t) \in Nat
                      /\ Announced(t, Unstored(t)) \in Nat
                      /\ Announced(t, Unstored(t)) <= ReservedBytes(t)

LEMMA AnnouncedAlways == TypeInv => AnnouncedFits
  BY AnnouncedReserved DEF AnnouncedFits

LEMMA AnnouncedNext == TypeInv' => AnnouncedFits'
  BY AnnouncedAlways, PTL

\* create_upload commits a session only if what it announces fits.
LEMMA QuotaCreateUpload ==
  ASSUME TypeInv, SessionInv, FoundInv, QuotaInv, TypeInv', NEW w \in Worker,
         CreateUpload(w), NEW t \in Tenant
  PROVE  Charged(t)' + Announced(t, Unstored(t))' <= Quota
<1> DEFINE r == req[w]
           n == r.upload_id
<1>1. /\ pc[w] = "create_upload" /\ writer = None /\ writer' = writer /\ WorkerStep(w)
      /\ blob' = blob
  BY DEF CreateUpload, At, WriterFree, WorkerStep, Handle, disk
<1>2. r \in InitUploadRequest
  BY <1>1 DEF TypeInv, RequestOK
<1>3. /\ n \in UploadId /\ r.tenant \in Tenant /\ r.total_size \in Nat
      /\ r.total_hash \in Content
  BY <1>2, SizeAssumption DEF InitUploadRequest
<1>4. uploads[n] = None
  BY <1>1, <1>3 DEF SessionInv, Known
<1>5. Charged(t)' = Charged(t) /\ Charged(t) = UsageOf(t) + 0
  BY <1>1, NoneAssumption, BooksOthers DEF Charged, WritesFor
<1>6. /\ Charged(t) + Announced(t, Unstored(t)) <= Quota
      /\ Charged(t) \in Nat /\ UsageOf(t) \in Nat /\ ReservedBytes(t) \in Nat
      /\ Announced(t, Unstored(t)) \in Nat /\ Announced(t, Unstored(t)) <= ReservedBytes(t)
  BY BooksTypes, AnnouncedReserved DEF QuotaInv
<1>7. Quota \in Nat
  BY SizeAssumption
<1>8. CASE n \notin Unstored(t)'
  <2>1. ASSUME NEW u \in Unstored(t)'
        PROVE  u \in Unstored(t) /\ (~CreateUpload(w) \/ n # u)
    BY <1>1, <1>8, <2>1, UnstoredShrinks
  <2>2. Announced(t, Unstored(t))' <= Announced(t, Unstored(t))
    BY <1>1, <2>1, AnnouncedShrinks
  <2>3. Announced(t, Unstored(t))' \in Nat
    BY AnnouncedNext DEF AnnouncedFits
  <2> QED
    BY <1>5, <1>6, <1>7, <2>2, <2>3
<1>9. CASE n \in Unstored(t)'
  <2>1. /\ uploads'[n] # None /\ uploads'[n].tenant = t
        /\ blob'[t][uploads'[n].total_hash] = Absent
    BY <1>9 DEF Unstored, TenantUploads, ExistStoragePath
  <2>2. /\ CheckQuota(r.tenant, r.total_hash, r.total_size)
        /\ uploads' = [uploads EXCEPT ![n] =
             [tenant |-> r.tenant, path |-> r.path,
              total_hash |-> r.total_hash, total_size |-> r.total_size,
              chunk_count |-> r.chunk_count, chunks_received |-> {}]]
    BY <1>4, <2>1 DEF CreateUpload
  <2>3. uploads \in [UploadId -> Upload \cup {None}]
    BY TypeParts DEF TypeInv, DataOK
  <2>4. /\ uploads'[n] = [tenant |-> r.tenant, path |-> r.path,
              total_hash |-> r.total_hash, total_size |-> r.total_size,
              chunk_count |-> r.chunk_count, chunks_received |-> {}]
        /\ \A u \in UploadId : u # n => uploads'[u] = uploads[u]
    BY <1>3, <2>2, <2>3
  <2>5. r.tenant = t /\ uploads'[n].total_size = r.total_size
          /\ uploads'[n].total_hash = r.total_hash
    BY <2>1, <2>4
  <2>6. UsageOf(t) + r.total_size + ReservedBytes(t) <= Quota
    BY <1>1, <2>1, <2>2, <2>5 DEF CheckQuota, ExistStoragePath
  <2>7. Announced(t, Unstored(t))' <= ReservedBytes(t)'
          /\ ReservedBytes(t)' \in Nat /\ Announced(t, Unstored(t))' \in Nat
    BY AnnouncedNext DEF AnnouncedFits
  <2>8. ReservedBytes(t)' = ReservedBytes(t) + r.total_size
    <3> DEFINE f == AnnouncedSize(t)'
               T == TenantUploads(t)
    <3>1. TenantUploads(t)' = T \cup {n} /\ n \notin T
      BY <1>3, <1>4, <2>1, <2>4 DEF TenantUploads
    <3>2. f[n] = r.total_size
      BY <2>5, <3>1 DEF AnnouncedSize
    <3>3. \A u \in T : AnnouncedSize(t)[u] = f[u]
      BY <1>4, <2>4, <3>1 DEF AnnouncedSize, TenantUploads
    <3>4. IsFiniteSet(ByteSet(f, T)) /\ TotalBytes(f, T) = TotalBytes(AnnouncedSize(t), T)
      BY <3>3, AnnouncedTypes, TotalBytesPart, TotalBytesSame
    <3>5. TotalBytes(f, T \cup {n}) = TotalBytes(f, T) + f[n]
      BY <1>3, <3>1, <3>2, <3>4, TotalBytesAdd
    <3>6. ReservedBytes(t)' = TotalBytes(f, T \cup {n})
      BY <3>1 DEF ReservedBytes, AnnouncedSize, TotalBytes
    <3>7. ReservedBytes(t) = TotalBytes(AnnouncedSize(t), T)
      BY DEF ReservedBytes, AnnouncedSize
    <3> QED
      BY <3>2, <3>4, <3>5, <3>6, <3>7
  <2> QED
    BY <1>3, <1>5, <1>6, <1>7, <2>6, <2>7, <2>8
<1> QED
  BY <1>8, <1>9

LEMMA QuotaWorkerStep ==
  ASSUME ChargeBase, QuotaInv, TypeInv', NEW w \in Worker, WorkerStep(w), NEW t \in Tenant
  PROVE  Charged(t)' + Announced(t, Unstored(t))' <= Quota
<1> DEFINE A == Announced(t, Unstored(t))
           B == Announced(t, Unstored(t))'
<1>1. TypeInv /\ SessionInv /\ BlobInv /\ FoundInv
  BY DEF ChargeBase
<1>2. /\ Charged(t) + A <= Quota /\ Charged(t) \in Nat /\ A \in Nat /\ B \in Nat
      /\ UsageOf(t) \in Nat /\ Quota \in Nat
      /\ ReservedBytes(t) \in Nat /\ A <= ReservedBytes(t)
  BY <1>1, BooksTypes, AnnouncedReserved, AnnouncedNext, SizeAssumption
  DEF QuotaInv, AnnouncedFits
<1>3. CASE CreateUpload(w)
  BY <1>1, <1>3, QuotaCreateUpload
<1>4. CASE ~CreateUpload(w)
  <2>1. Unstored(t)' \subseteq Unstored(t)
    BY <1>1, <1>4, UnstoredShrinks
  <2>2. B <= A
    BY <1>1, <1>4, <2>1, AnnouncedShrinks
  <2>3. CASE BooksSame(t)
    BY <1>2, <2>2, <2>3 DEF BooksSame
  <2>4. CASE /\ writer = w /\ IoError(w) /\ BooksDrop(t)
    <3>1. UsageOf(t) <= Charged(t)
      BY <1>1, UsageLeCharged
    <3>2. Charged(t)' = UsageOf(t)
      BY <2>4 DEF BooksDrop
    <3> QED
      BY <1>2, <2>2, <3>1, <3>2
  <2>5. CASE /\ writer = None /\ CreateFile(w) /\ BooksGrow(t, req[w].content)
             /\ CheckQuota(t, req[w].content, Size[req[w].content])
             /\ req[w].content \notin Stored(t)
    <3>1. req[w].content \in Content
      BY <1>1, <2>5, RequestTypes DEF CreateFile, At
    <3>2. Size[req[w].content] \in Nat
      BY <3>1, SizeAssumption
    <3>3. UsageOf(t) + Size[req[w].content] + ReservedBytes(t) <= Quota
      BY <2>5, <3>1 DEF CheckQuota, Stored
    <3>4. Charged(t) = UsageOf(t) + 0
      BY <2>5 DEF Charged, WritesFor
    <3>5. Charged(t)' = Charged(t) + Size[req[w].content]
      BY <2>5 DEF BooksGrow
    <3> QED
      BY <1>2, <2>2, <3>2, <3>3, <3>4, <3>5
  <2>6. CASE /\ Persist(w) /\ req[w].tenant = t
             /\ BooksGrow(t, uploads[req[w].upload_id].total_hash)
             /\ Size[uploads[req[w].upload_id].total_hash] = uploads[req[w].upload_id].total_size
             /\ uploads' = uploads
             /\ uploads[req[w].upload_id].total_hash \in Stored(t)'
    <3> DEFINE u == req[w].upload_id
               n == uploads[u].total_size
               S == Unstored(t) \ {u}
    <3>1. /\ pc[w] = "copy_chunks" /\ u \in UploadId /\ OwnUpload(t, u)
          /\ uploads[u].total_hash \in Content
      BY <1>1, <2>6, RequestTypes DEF Persist, At, TypeInv, FinalizingOwn
    <3>2. ~ExistStoragePath(t, uploads[u].total_hash)
      BY <1>1, <2>6, <3>1 DEF FoundInv, ExistOK
    <3>3. u \in Unstored(t)
      BY <3>1, <3>2 DEF Unstored, TenantUploads, OwnUpload
    <3>4. u \notin Unstored(t)'
      BY <2>6 DEF Unstored, Stored, ExistStoragePath
    <3>5. B <= Announced(t, S)
      BY <1>1, <1>4, <2>1, <3>4, AnnouncedShrinks
    <3>6. A = Announced(t, S) + n /\ Announced(t, S) \in Nat /\ n \in Nat
      <4>1. /\ S \subseteq TenantUploads(t) /\ Unstored(t) \subseteq TenantUploads(t)
            /\ u \in TenantUploads(t) /\ Unstored(t) = S \cup {u}
        BY <3>3 DEF Unstored
      <4>2. /\ IsFiniteSet(ByteSet(AnnouncedSize(t), S))
            /\ Announced(t, S) = TotalBytes(AnnouncedSize(t), S) /\ Announced(t, S) \in Nat
            /\ A = TotalBytes(AnnouncedSize(t), S \cup {u})
            /\ AnnouncedSize(t)[u] = n /\ n \in Nat
        BY <1>1, <4>1, AnnouncedTypes
      <4>3. u \notin S
        OBVIOUS
      <4> DEFINE size == AnnouncedSize(t)
      <4>4. size[u] \in Nat /\ IsFiniteSet(ByteSet(size, S))
        BY <4>2
      <4>5. TotalBytes(size, S \cup {u}) = TotalBytes(size, S) + size[u]
        <5> HIDE DEF size, S, u
        <5> QED
          BY <4>3, <4>4, TotalBytesAdd
      <4> QED
        BY <4>2, <4>5
    <3>7. Charged(t)' = Charged(t) + n
      BY <2>6 DEF BooksGrow
    <3> QED
      BY <1>2, <3>5, <3>6, <3>7
  <2>7. CASE writer # w /\ writer' = writer
    BY <1>1, <2>3, <2>7, BooksOthers DEF BooksSame
  <2>8. CASE (CreateFile(w) \/ FinalizeUpload(w)) /\ writer = None /\ writer' = w
    BY <1>1, <2>3, <2>5, <2>8, BooksBegin
  <2>9. CASE /\ writer = w
             /\ \/ OpenBlob(w) \/ FillBlob(w) \/ CreateCommit(w) \/ CopyChunk(w)
                \/ Persist(w) \/ FinalizeCommit(w) \/ IoError(w)
    BY <1>1, <2>3, <2>4, <2>6, <2>9, BooksHolder
  <2> QED
    BY <1>1, <2>7, <2>8, <2>9, WriterMoves
<1> QED
  BY <1>3, <1>4

LEMMA QuotaInvStep == ChargeBase /\ QuotaInv /\ [Next]_vars => QuotaInv'
<1> SUFFICES ASSUME ChargeBase, QuotaInv, [Next]_vars, NEW t \in Tenant
             PROVE  Charged(t)' + Announced(t, Unstored(t))' <= Quota
  BY DEF QuotaInv
<1>1. TypeInv /\ TypeInv'
  BY TypeInvStep DEF ChargeBase
<1>2. CASE \E w \in Worker : WorkerStep(w)
  BY <1>1, <1>2, QuotaWorkerStep
<1>3. CASE Crash
  <2>1. Announced(t, Unstored(t))' = Announced(t, Unstored(t))
    BY <1>3
    DEF Crash, tables, disk, Announced, Unstored, TenantUploads, ExistStoragePath, TotalBytes
  <2>2. Charged(t)' = UsageOf(t)
    BY <1>1, <1>3, CrashDrops DEF BooksDrop
  <2>3. UsageOf(t) <= Charged(t) /\ UsageOf(t) \in Nat /\ Charged(t) \in Nat
    BY <1>1, UsageLeCharged, BooksTypes
  <2>4. Announced(t, Unstored(t)) \in Nat /\ Quota \in Nat
    BY <1>1, AnnouncedReserved, SizeAssumption
  <2> QED
    BY <2>1, <2>2, <2>3, <2>4 DEF QuotaInv
<1>4. CASE UNCHANGED vars
  BY <1>4
  DEF vars, QuotaInv, Charged, UsageOf, WritesFor, Due, Announced, Unstored,
      TenantUploads, ExistStoragePath, TotalBytes
<1> QED
  BY <1>2, <1>3, <1>4, StepCases

LEMMA QuotaInvInit == Init => QuotaInv
<1> SUFFICES ASSUME Init, NEW t \in Tenant
             PROVE  Charged(t) + Announced(t, Unstored(t)) <= Quota
  BY DEF QuotaInv
<1>1. Charged(t) = 0
  BY BooksInit
<1>2. Unstored(t) = {}
  BY DEF Init, Unstored, TenantUploads
<1>3. Announced(t, {}) = 0
  <2>1. ByteSet(AnnouncedSize(t), {}) = {}
    BY DEF ByteSet
  <2> QED
    BY <2>1, TotalBytesCounts, FS_EmptySet DEF Announced, AnnouncedSize
<1>4. Quota \in Nat
  BY SizeAssumption
<1> QED
  BY <1>1, <1>2, <1>3, <1>4

\* No interleaving of puts, uploads, failures and crashes charges a tenant more
\* than its quota: what each request may charge is reserved when it is admitted.
THEOREM QuotaNeverExceeded == Spec => []QuotaHeld
<1>1. ChargeBase /\ QuotaInv => QuotaHeld
  <2> SUFFICES ASSUME ChargeBase, QuotaInv, NEW t \in Tenant PROVE UsageOf(t) <= Quota
    BY DEF QuotaHeld
  <2>1. TypeInv
    BY DEF ChargeBase
  <2>2. /\ UsageOf(t) <= Charged(t) /\ UsageOf(t) \in Nat /\ Charged(t) \in Nat
        /\ Announced(t, Unstored(t)) \in Nat /\ Quota \in Nat
        /\ Charged(t) + Announced(t, Unstored(t)) <= Quota
    BY <2>1, UsageLeCharged, BooksTypes, AnnouncedReserved, SizeAssumption DEF QuotaInv
  <2> QED
    BY <2>2
<1> QED
  BY <1>1, ChargeBaseInit, ChargeBaseStep, QuotaInvInit, QuotaInvStep, PTL DEF Spec

-----------------------------------------------------------------------------
(* What a crash leaves uncharged.                                           *)

\* The largest of finitely many sizes.
LEMMA LargestBounds ==
  LargestSize \in Nat /\ \A c \in Content : Size[c] <= LargestSize
<1> DEFINE Larger(c) == {d \in Content : Size[d] > Size[c]}
           R == StrictSubsetOrdering(Content)
           T == {Larger(c) : c \in Content}
<1>1. \A c \in Content : Size[c] \in Nat
  BY SizeAssumption
<1>2. PICK c \in Content : \A d \in Content : ~ (<<Larger(d), Larger(c)>> \in R)
  <2>1. FiniteSubsetsOf(Content) = SUBSET Content
    BY FiniteAssumption, FS_FiniteSubsetsOfFinite
  <2>2. IsWellFoundedOn(R, SUBSET Content)
    BY <2>1, FS_StrictSubsetOrderingWellFounded
  <2>3. T \subseteq SUBSET Content /\ T # {}
    BY FiniteAssumption
  <2>4. PICK x \in T : \A y \in T : ~ (<<y, x>> \in R)
    <3> HIDE DEF R, T
    <3> QED
      BY <2>2, <2>3, WFMin
  <2> QED
    BY <2>4
<1>3. ASSUME NEW d \in Content PROVE Size[d] <= Size[c]
  <2> SUFFICES ASSUME Size[d] > Size[c] PROVE FALSE
    BY <1>1
  <2>1. Larger(d) \subseteq Larger(c)
    BY <1>1
  <2>2. d \in Larger(c) /\ d \notin Larger(d)
    BY <1>1
  <2>3. <<Larger(d), Larger(c)>> \in R
    BY <2>1, <2>2 DEF StrictSubsetOrdering
  <2> QED
    BY <1>2, <2>3
<1>4. \E x \in {Size[d] : d \in Content} : \A y \in {Size[d] : d \in Content} : x >= y
  BY <1>1, <1>3
<1>5. /\ LargestSize \in {Size[d] : d \in Content}
      /\ \A y \in {Size[d] : d \in Content} : LargestSize >= y
  BY <1>4 DEF LargestSize, Max
<1> QED
  BY <1>1, <1>5

LEMMA FreeInvInit == Init => FreeInv
<1> SUFFICES ASSUME Init, NEW t \in Tenant
             PROVE  Volume(t) - Charged(t) <= crashes * LargestSize
  BY DEF FreeInv
<1>1. ByteSet(Size, {}) = {}
  BY DEF ByteSet
<1>2. Volume(t) = 0 /\ Charged(t) = 0
  BY <1>1, BooksInit, TotalBytesCounts, FS_EmptySet DEF Volume
<1>3. 0 * LargestSize = 0
  BY LargestBounds
<1> QED
  BY <1>2, <1>3 DEF Init

LEMMA CrashesKept ==
  ASSUME NEW w \in Worker, WorkerStep(w)
  PROVE  crashes' = crashes
<1>1. CASE (\E r \in Request : Receive(w, r)) \/ IoError(w)
  BY <1>1 DEF Receive, IoError
<1>2. CASE CreateFile(w) \/ OpenBlob(w) \/ FillBlob(w) \/ CreateCommit(w)
             \/ DeleteFile(w) \/ DeleteWrite(w) \/ GetFile(w) \/ ServeBlob(w)
  BY <1>2 DEF CreateFile, OpenBlob, FillBlob, CreateCommit, DeleteFile, DeleteWrite,
             GetFile, ServeBlob
<1>3. CASE CreateUpload(w) \/ MakeDir(w) \/ ReplaceChunk(w) \/ OpenChunk(w)
             \/ FillChunk(w) \/ AddChunk(w)
  BY <1>3 DEF CreateUpload, MakeDir, ReplaceChunk, OpenChunk, FillChunk, AddChunk
<1>4. CASE FinalizeUpload(w) \/ FinalizeCommit(w) \/ UnlinkChunks(w) \/ RemoveDir(w)
  BY <1>4 DEF FinalizeUpload, FinalizeCommit, UnlinkChunks, RemoveDir
<1>5. CASE CopyChunk(w)
  BY <1>5 DEF CopyChunk, Abort
<1>6. CASE Persist(w)
  BY <1>6 DEF Persist, Abort
<1> QED
  BY <1>1, <1>2, <1>3, <1>4, <1>5, <1>6 DEF WorkerStep, Handle

LEMMA FreeInvStep ==
  ASSUME Faults \cap ChargingStep = {}, ChargeBase, FreeInv, [Next]_vars
  PROVE  FreeInv'
<1> SUFFICES ASSUME NEW t \in Tenant
             PROVE  Volume(t)' - Charged(t)' <= crashes' * LargestSize
  BY DEF FreeInv
<1>1. TypeInv'
  BY TypeInvStep DEF ChargeBase
<1>2. PICK d \in {0} \cup {Size[c] : c \in Content} :
         /\ Volume(t)' - Charged(t)' = Volume(t) - Charged(t) + d
         /\ d # 0 => Crash \/ Faults \cap ChargingStep # {}
  BY <1>1, FreeSteps DEF ChargeBase
<1>3. d \in Nat /\ d <= LargestSize /\ LargestSize \in Nat
  BY <1>2, LargestBounds, SizeAssumption
<1>4. Charged(t) \in Nat /\ Volume(t) \in Nat /\ crashes \in Nat
  BY BooksTypes, VolumeTypes, TypeParts DEF ChargeBase, Volume, TypeInv, DataOK
<1>5. Volume(t) - Charged(t) <= crashes * LargestSize
  BY DEF FreeInv
<1>6. CASE Crash
  <2>1. crashes' = crashes + 1
    BY <1>6 DEF Crash
  <2>2. (crashes + 1) * LargestSize = crashes * LargestSize + LargestSize
    BY <1>3, <1>4
  <2>3. crashes * LargestSize \in Nat
    BY <1>3, <1>4
  <2> QED
    BY <1>2, <1>3, <1>4, <1>5, <2>1, <2>2, <2>3
<1>7. CASE ~Crash
  <2>1. crashes' = crashes
    BY <1>7, CrashesKept, StepCases DEF vars
  <2>2. Volume(t)' - Charged(t)' = Volume(t) - Charged(t) + 0
    BY <1>2, <1>7
  <2> QED
    BY <1>4, <1>5, <2>1, <2>2
<1> QED
  BY <1>6, <1>7

\* Between write transactions, unless a commit or the write before it may fail,
\* what is stored is charged, but for one blob for each crash.
THEOREM ChargedButForCrashes ==
  ASSUME Faults \cap ChargingStep = {}
  PROVE  Spec => []ChargedExceptByCrash
<1>1. ASSUME ChargeBase, IntactInv, ChargeInv, FreeInv PROVE ChargedExceptByCrash
  <2> SUFFICES ASSUME WriterFree, NEW t \in Tenant
               PROVE  FreeBytes(t) \in 0..(crashes * LargestSize)
    BY DEF ChargedExceptByCrash
  <2>1. \A c \in Stored(t) : Size[c] = blob[t][c]
    BY <1>1, FreeWhole DEF Stored, Whole, ChargeBase
  <2>2. TotalBytes(blob[t], Stored(t)) = TotalBytes(Size, Stored(t))
    BY <2>1, TotalBytesSame
  <2>3. Volume(t) = TotalBytes(Size, Stored(t))
    BY DEF WriterFree, Volume, Claimed, WritesFor
  <2>4. /\ Volume(t) \in Nat /\ UsageOf(t) \in Nat /\ Charged(t) \in Nat
        /\ crashes \in Nat /\ LargestSize \in Nat
    BY <1>1, BooksTypes, VolumeTypes, TypeParts, LargestBounds
    DEF ChargeBase, Volume, TypeInv, DataOK
  <2>5. Charged(t) = UsageOf(t) + 0
    BY DEF WriterFree, Charged, WritesFor
  <2>6. crashes * LargestSize \in Nat
    BY <2>4
  <2>7. Charged(t) <= Volume(t) /\ Volume(t) - Charged(t) <= crashes * LargestSize
    BY <1>1 DEF ChargeInv, FreeInv
  <2>8. FreeBytes(t) = Volume(t) - Charged(t)
    BY <2>2, <2>3, <2>4, <2>5 DEF FreeBytes
  <2> QED
    BY <2>4, <2>6, <2>7, <2>8
<1>2. "fill_blob" \notin Faults
  BY DEF ChargingStep
<1>3. ChargeBase /\ IntactInv /\ ChargeInv /\ FreeInv /\ [Next]_vars
        => ChargeBase' /\ IntactInv' /\ ChargeInv' /\ FreeInv'
  BY <1>2, ChargeBaseStep, IntactInvStep, ChargeInvStep, FreeInvStep DEF ChargeBase
<1>4. Init => ChargeBase /\ IntactInv /\ ChargeInv /\ FreeInv
  BY ChargeBaseInit, IntactInit, ChargeInvInit, FreeInvInit
<1> QED
  BY <1>1, <1>3, <1>4, PTL DEF Spec
=============================================================================
