----------------------------- MODULE SyncClient -----------------------------
(***************************************************************************)
(* The sync engine of the cloudsync client: push (sync/push.rs) and pull   *)
(* (sync/pull.rs) of several machines against one server.                  *)
(*                                                                         *)
(* A machine runs one command at a time (redb does not open its database   *)
(* twice).  A command is split where something else may come between two   *)
(* of its effects: an edit of the user, a command of another machine, or   *)
(* the end of the process.  A request and the record saved from its answer *)
(* are one step: nobody else reads the record, and a process that ends     *)
(* between the two is a request whose answer is lost.                      *)
(*                                                                         *)
(* The server is what module TenantStore gives its callers: a request      *)
(* takes effect at once or not at all, a row's content is the content put, *)
(* and a session can be finalized once.                                    *)
(*                                                                         *)
(* A content is a sequence of blocks and is its own hash.                  *)
(***************************************************************************)
EXTENDS Integers, Sequences, FiniteSets, SequencesExt

CONSTANTS
    Machine,      \* sync directories, each with its own client
    Name,         \* file names below the sync root
    PartOf,       \* PartOf[n]: the name of n's ".part" file
    Content,      \* what users write into files
    ChunkSize,    \* CHUNK_SIZE, in blocks
    Does,         \* Does[m]: which of "push" and "pull" machine m runs
    MaxEdits,     \* bound on what the users do
    MaxMishaps,   \* bound on lost requests, lost answers and killed clients
    None          \* no file, no record, no hash

ASSUME ClientAssumption ==
    /\ PartOf \in [DOMAIN PartOf -> Name \ DOMAIN PartOf]
    /\ DOMAIN PartOf \subseteq Name
    /\ IsInjective(PartOf)
    /\ \A c \in Content : c \in Seq(UNION {ToSet(d) : d \in Content})
    /\ None \notin Content
    /\ ChunkSize \in Nat \ {0}
    /\ Does \in [Machine -> SUBSET {"push", "pull"}]
    /\ MaxEdits \in Nat
    /\ MaxMishaps \in Nat

VARIABLES
    rows,       \* rows[n]: every content put under n, oldest first, and the deletion mark
    sessions,   \* the upload sessions; a session's id is its position
    local,      \* local[m][n]: content of the file, None when there is none
    copies,     \* copies[m]: contents saved in conflict files
    record,     \* record[m][n]: the sync record, or None
    cmd,        \* cmd[m]: the command under way
    edits,
    mishaps

server == <<rows, sessions>>
vars == <<rows, sessions, local, copies, record, cmd, edits, mishaps>>

Block == UNION {ToSet(c) : c \in Content}
Written == Name \ ToSet(PartOf)      \* the names users write

Idle == [at |-> "idle", todo |-> {}, name |-> None, hash |-> None,
         version |-> 0, upload |-> 0, buf |-> <<>>, seen |-> None]

Init ==
    /\ rows = [n \in Name |-> [log |-> <<>>, deleted |-> FALSE]]
    /\ sessions = <<>>
    /\ local = [m \in Machine |-> [n \in Name |-> None]]
    /\ copies = [m \in Machine |-> {}]
    /\ record = [m \in Machine |-> [n \in Name |-> None]]
    /\ cmd = [m \in Machine |-> Idle]
    /\ edits = 0
    /\ mishaps = 0

-----------------------------------------------------------------------------
(* The server, one request at a time.                                      *)

\* Every content that was ever put; blobs are never removed.
Stored == UNION {ToSet(rows[n].log) : n \in Name}

Version(n) == Len(rows[n].log)
Exists(n) == rows[n].log # <<>>

\* put_tx: one version more, and not deleted (any longer).
Put(n, c) == rows' = [rows EXCEPT ![n] = [log |-> Append(@.log, c), deleted |-> FALSE]]

\* delete_file marks the row; it succeeds without one.
MarkDeleted(n) == rows' = [rows EXCEPT ![n].deleted = Exists(n)]

\* What list_files answers.
Listed == {[name |-> n, version |-> Version(n), hash |-> Last(rows[n].log)] :
              n \in {x \in Name : Exists(x) /\ ~rows[x].deleted}}

Missing(s) == (0..(s.count - 1)) \ DOMAIN s.got

Assembled(s) == FlattenSeq([i \in 1..s.count |-> s.got[i - 1]])

\* Mutant of Accepted: the hash is not compared.
Complete(s) == Missing(s) = {}

\* finalize_upload accepts a complete session whose chunks have the hash, or
\* whose content the server has already.
Accepted(s) == /\ Missing(s) = {}
               /\ s.content \in Stored \/ Assembled(s) = s.content

OpenUpload(n, c, count) ==
    sessions' = Append(sessions, [name |-> n, content |-> c, count |-> count,
                                  got |-> <<>>, live |-> TRUE])

StoreChunk(id, i, bytes) ==
    sessions' = [sessions EXCEPT ![id].got =
                    [j \in DOMAIN @ \cup {i} |-> IF j = i THEN bytes ELSE @[j]]]

\* The chunks become the content, unless the server has it already.
EndUpload(id) ==
    LET s == sessions[id] IN
    /\ Put(s.name, IF s.content \in Stored THEN s.content ELSE Assembled(s))
    /\ sessions' = [sessions EXCEPT ![id].live = FALSE]

-----------------------------------------------------------------------------
(* Steps shared by the commands.                                           *)

At(m, step) == cmd[m].at = step

\* Mutant of Loop: the upload id is not declared anew for every file.
LoopWithUpload(m, at) ==
    [Idle EXCEPT !.at = at, !.todo = cmd[m].todo, !.upload = cmd[m].upload]

\* Go on with the loop over files; the file that was worked on is done with.
Loop(m, at) == [Idle EXCEPT !.at = at, !.todo = cmd[m].todo]
Continue(m, at) == cmd' = [cmd EXCEPT ![m] = Loop(m, at)]

\* A request fails, or its answer is lost: the loop prints the error and goes
\* on, or the client ends here.
Mishap(m, at) ==
    /\ mishaps < MaxMishaps
    /\ mishaps' = mishaps + 1
    /\ \E next \in {Loop(m, at), Idle} : cmd' = [cmd EXCEPT ![m] = next]

Remember(m, n, hash, version) ==
    record' = [record EXCEPT ![m][n] = [hash |-> hash, version |-> version, upload |-> 0]]

-----------------------------------------------------------------------------
(* push: every file found by the scan, in any order, then the deletions.   *)

\* scan_dir finds every file, the ".part" files of earlier pulls too.
Scanned(m) == {n \in Name : local[m][n] # None}

StartPush(m) ==
    /\ At(m, "idle") /\ "push" \in Does[m]
    /\ cmd' = [cmd EXCEPT ![m] = [Idle EXCEPT !.at = "push", !.todo = Scanned(m)]]
    /\ UNCHANGED <<server, local, copies, record, edits, mishaps>>

\* Mutant of Pushed: a changed file counts as pushed.
EverPushed(m, n) == record[m][n] # None

\* The record has the file's hash.
Pushed(m, n) == record[m][n] # None /\ record[m][n].hash = local[m][n]

\* One file of the scan: its size and hash are read at once.  Of a file gone
\* since the scan either the metadata are missed, which ends push with the
\* error, or the content, and the loop goes on.
PushNext(m, n) ==
    LET hash == local[m][n]
        rest == [Loop(m, "push") EXCEPT !.todo = @ \ {n}]
        work == [rest EXCEPT !.name = n, !.hash = hash]
    IN
    /\ At(m, "push") /\ n \in cmd[m].todo
    /\ \/ /\ hash = None
          /\ \E next \in {Idle, rest} : cmd' = [cmd EXCEPT ![m] = next]
       \/ /\ hash # None /\ Pushed(m, n)
          /\ cmd' = [cmd EXCEPT ![m] = rest]
       \/ /\ hash # None /\ ~Pushed(m, n)
          /\ cmd' = [cmd EXCEPT ![m] = [work EXCEPT
                        !.at = IF Len(hash) < ChunkSize THEN "create" ELSE "session"]]
    /\ UNCHANGED <<server, local, copies, record, edits, mishaps>>

\* create_file and the record saved from its answer.
CreateFile(m) ==
    LET t == cmd[m] IN
    /\ At(m, "create")
    /\ Put(t.name, t.hash)
    /\ Remember(m, t.name, t.hash, Version(t.name) + 1)
    /\ Continue(m, "push")
    /\ UNCHANGED <<sessions, local, copies, edits, mishaps>>

CreateFileFails(m) ==
    /\ At(m, "create")
    /\ Put(cmd[m].name, cmd[m].hash) \/ rows' = rows
    /\ Mishap(m, "push")
    /\ UNCHANGED <<sessions, local, copies, record, edits>>

\* The session the record names, if the server still has it.
Resumable(m, n) == /\ record[m][n] # None
                   /\ record[m][n].upload # 0
                   /\ sessions[record[m][n].upload].live

\* get_upload answers with the session.
ResumeUpload(m) ==
    /\ At(m, "session") /\ Resumable(m, cmd[m].name)
    /\ cmd' = [cmd EXCEPT ![m].at = "read", ![m].upload = record[m][cmd[m].name].upload]
    /\ UNCHANGED <<server, local, copies, record, edits, mishaps>>

ChunkCount(c) == (Len(c) + ChunkSize - 1) \div ChunkSize

\* init_upload, and its id saved in the record.
NewUpload(m) ==
    LET t == cmd[m]
        id == Len(sessions) + 1
    IN
    /\ OpenUpload(t.name, t.hash, ChunkCount(t.hash))
    /\ record' = [record EXCEPT ![m][t.name] =
                     IF @ = None THEN [hash |-> t.hash, version |-> 0, upload |-> id]
                     ELSE [@ EXCEPT !.upload = id]]
    /\ cmd' = [cmd EXCEPT ![m].at = "read", ![m].upload = id]
    /\ UNCHANGED <<rows, local, copies, edits>>

\* No session to resume: the record names none, or get_upload finds none.
InitUpload(m) ==
    /\ At(m, "session") /\ ~Resumable(m, cmd[m].name)
    /\ NewUpload(m)
    /\ UNCHANGED mishaps

\* get_upload fails, whatever the reason: the live session is given up for a
\* new one.
GetUploadFails(m) ==
    /\ At(m, "session") /\ Resumable(m, cmd[m].name)
    /\ mishaps < MaxMishaps /\ mishaps' = mishaps + 1
    /\ NewUpload(m)

\* init_upload fails, after a get_upload that failed or found nothing.
InitUploadFails(m) ==
    LET t == cmd[m] IN
    /\ At(m, "session")
    /\ OpenUpload(t.name, t.hash, ChunkCount(t.hash)) \/ sessions' = sessions
    /\ Mishap(m, "push")
    /\ UNCHANGED <<rows, local, copies, record, edits>>

Piece(c, i) ==
    SubSeq(c, i * ChunkSize + 1, IF (i + 1) * ChunkSize < Len(c) THEN (i + 1) * ChunkSize ELSE Len(c))

\* The chunks the server lacks are read from the file, which may have changed
\* since it was hashed, or be changing: each chunk is of either content.
ReadChunks(m) ==
    LET t == cmd[m]
        now == local[m][t.name]
        missing == Missing(sessions[t.upload])
    IN
    /\ At(m, "read")
    /\ \/ /\ now = None            \* the file cannot be opened
          /\ Continue(m, "push")
       \/ /\ now # None
          /\ \E from \in [missing -> {t.hash, now}] :
                cmd' = [cmd EXCEPT ![m].at = "send",
                                   ![m].buf = [i \in missing |-> Piece(from[i], i)]]
    /\ UNCHANGED <<server, local, copies, record, edits, mishaps>>

\* The chunks are sent concurrently: they arrive in any order.
SendChunk(m, i) ==
    LET t == cmd[m] IN
    /\ At(m, "send") /\ i \in DOMAIN t.buf
    /\ StoreChunk(t.upload, i, t.buf[i])
    /\ cmd' = [cmd EXCEPT ![m].buf = [j \in DOMAIN @ \ {i} |-> @[j]]]
    /\ UNCHANGED <<rows, local, copies, record, edits, mishaps>>

SendChunkFails(m, i) ==
    LET t == cmd[m] IN
    /\ At(m, "send") /\ i \in DOMAIN t.buf
    /\ StoreChunk(t.upload, i, t.buf[i]) \/ sessions' = sessions
    /\ Mishap(m, "push")
    /\ UNCHANGED <<rows, local, copies, record, edits>>

\* finalize_upload, and the record with the hash taken when this push began.
Finalize(m) ==
    LET t == cmd[m]
        s == sessions[t.upload]
    IN
    /\ At(m, "send") /\ DOMAIN t.buf = {}
    /\ \/ /\ Accepted(s)
          /\ EndUpload(t.upload)
          /\ Remember(m, t.name, t.hash, Version(s.name) + 1)
       \/ /\ ~Accepted(s)
          /\ UNCHANGED <<server, record>>
    /\ Continue(m, "push")
    /\ UNCHANGED <<local, copies, edits, mishaps>>

FinalizeFails(m) ==
    LET t == cmd[m] IN
    /\ At(m, "send") /\ DOMAIN t.buf = {}
    /\ \/ Accepted(sessions[t.upload]) /\ EndUpload(t.upload)
       \/ UNCHANGED server
    /\ Mishap(m, "push")
    /\ UNCHANGED <<local, copies, record, edits>>

\* The scan is done: the records are listed.
StartDeletions(m) ==
    /\ At(m, "push") /\ cmd[m].todo = {}
    /\ cmd' = [cmd EXCEPT ![m].at = "delete",
                          ![m].todo = {n \in Name : record[m][n] # None}]
    /\ UNCHANGED <<server, local, copies, record, edits, mishaps>>

DeleteNext(m, n) ==
    /\ At(m, "delete") /\ n \in cmd[m].todo
    /\ cmd' = [cmd EXCEPT ![m].todo = @ \ {n}]
    /\ \/ /\ local[m][n] # None
          /\ UNCHANGED <<rows, record>>
       \/ /\ local[m][n] = None
          /\ MarkDeleted(n)
          /\ record' = [record EXCEPT ![m][n] = None]
    /\ UNCHANGED <<sessions, local, copies, edits, mishaps>>

DeleteFails(m, n) ==
    /\ At(m, "delete") /\ n \in cmd[m].todo
    /\ local[m][n] = None
    /\ MarkDeleted(n) \/ rows' = rows
    /\ mishaps < MaxMishaps /\ mishaps' = mishaps + 1
    /\ \E next \in {[cmd[m] EXCEPT !.todo = @ \ {n}], Idle} : cmd' = [cmd EXCEPT ![m] = next]
    /\ UNCHANGED <<sessions, local, copies, record, edits>>

-----------------------------------------------------------------------------
(* pull: the list of the server's files, then one file after the other.    *)

StartPull(m) ==
    /\ At(m, "idle") /\ "pull" \in Does[m]
    /\ cmd' = [cmd EXCEPT ![m] = [Idle EXCEPT !.at = "pull", !.todo = Listed]]
    /\ UNCHANGED <<server, local, copies, record, edits, mishaps>>

\* What local_path holds when the record is older than the list, and is
\* compared with the record.
Compared(m, meta) ==
    LET r == record[m][meta.name] IN
    IF r # None /\ r.version < meta.version THEN local[m][meta.name] ELSE None

\* Mutant of Changed: the file is not compared with its record.
NeverChanged(m, meta) == FALSE

Changed(m, meta) ==
    /\ Compared(m, meta) # None
    /\ Compared(m, meta) # record[m][meta.name].hash

\* Mutant of Current: any record is current.
Recorded(m, meta) == record[m][meta.name] # None

Current(m, meta) ==
    LET r == record[m][meta.name] IN r # None /\ r.version = meta.version

\* What becomes of one listed file.  Files whose own ".part" name is beyond
\* the model's names are left alone: a bound.
PullNext(m, meta) ==
    LET n == meta.name
        rest == [Loop(m, "pull") EXCEPT !.todo = @ \ {meta}]
        work == [rest EXCEPT !.name = n, !.hash = meta.hash, !.version = meta.version,
                             !.seen = Compared(m, meta)]
    IN
    /\ At(m, "pull") /\ meta \in cmd[m].todo
    /\ \/ /\ n \notin DOMAIN PartOf \/ Current(m, meta)
          /\ cmd' = [cmd EXCEPT ![m] = rest]
       \/ /\ n \in DOMAIN PartOf /\ Changed(m, meta)
          /\ cmd' = [cmd EXCEPT ![m] = [work EXCEPT !.at = "conflict"]]
       \/ /\ n \in DOMAIN PartOf /\ ~Current(m, meta) /\ ~Changed(m, meta)
          /\ cmd' = [cmd EXCEPT ![m] = [work EXCEPT !.at = "fetch"]]
    /\ UNCHANGED <<server, local, copies, record, edits, mishaps>>

\* Both sides changed: the server's version goes to a conflict file, whose
\* name carries the time and is new; a download of another version is dropped.
SaveConflict(m) ==
    LET t == cmd[m] IN
    /\ At(m, "conflict")
    /\ copies' = [copies EXCEPT ![m] = IF Last(rows[t.name].log) = t.hash
                                       THEN @ \cup {t.hash} ELSE @]
    /\ Continue(m, "pull")
    /\ UNCHANGED <<server, local, record, edits, mishaps>>

\* Bytes of the ".part" file an earlier pull has left.
Got(m, n) == IF local[m][PartOf[n]] = None THEN <<>> ELSE local[m][PartOf[n]]

\* get_file from the first byte missing, copied to the ".part" file; a start
\* at or past the end is answered with 416.
Fetch(m) ==
    LET t == cmd[m]
        got == Got(m, t.name)
        now == Last(rows[t.name].log)
    IN
    /\ At(m, "fetch")
    /\ \/ /\ got # <<>> /\ Len(got) >= Len(now)
          /\ Continue(m, "pull")
          /\ UNCHANGED local
       \/ /\ got = <<>> \/ Len(got) < Len(now)
          /\ local' = [local EXCEPT ![m][PartOf[t.name]] =
                          got \o SubSeq(now, Len(got) + 1, Len(now))]
          /\ cmd' = [cmd EXCEPT ![m].at = "install"]
    /\ UNCHANGED <<server, copies, record, edits, mishaps>>

\* The connection ends before the content does.
FetchFails(m) ==
    LET t == cmd[m]
        got == Got(m, t.name)
        now == Last(rows[t.name].log)
    IN
    /\ At(m, "fetch")
    /\ \E k \in Len(got)..(Len(now) - 1) :
          local' = [local EXCEPT ![m][PartOf[t.name]] = got \o SubSeq(now, Len(got) + 1, k)]
    /\ Mishap(m, "pull")
    /\ UNCHANGED <<server, copies, record, edits>>

\* The download is verified and takes the place of the file.
Install(m) ==
    LET t == cmd[m]
        got == Got(m, t.name)
    IN
    /\ At(m, "install")
    /\ \/ /\ got = t.hash
          /\ local' = [local EXCEPT ![m][t.name] = got, ![m][PartOf[t.name]] = None]
          /\ cmd' = [cmd EXCEPT ![m].at = "save"]
       \/ /\ got # t.hash
          /\ local' = [local EXCEPT ![m][PartOf[t.name]] = None]
          /\ Continue(m, "pull")
    /\ UNCHANGED <<server, copies, record, edits, mishaps>>

\* Mutant of SaveRecord: the version the server has by now.
SaveRecordLatest(m) ==
    LET t == cmd[m] IN
    /\ At(m, "save")
    /\ Remember(m, t.name, t.hash, Version(t.name))
    /\ Continue(m, "pull")
    /\ UNCHANGED <<server, local, copies, edits, mishaps>>

SaveRecord(m) ==
    LET t == cmd[m] IN
    /\ At(m, "save")
    /\ Remember(m, t.name, t.hash, t.version)
    /\ Continue(m, "pull")
    /\ UNCHANGED <<server, local, copies, edits, mishaps>>

-----------------------------------------------------------------------------
(* status changes nothing: it prints a line per file, by hashes where pull  *)
(* goes by versions.                                                       *)

Unsynced(m, n) == IF record[m][n] = None THEN "new (server)" ELSE "deleted (local)"

\* The line of a file.
StatusOf(m, n) ==
    LET r == record[m][n]
        listed == {x \in Listed : x.name = n}
    IN  CASE local[m][n] = None -> IF listed = {} THEN "nothing" ELSE Unsynced(m, n)
          [] local[m][n] # None /\ r = None -> "new (local)"
          [] local[m][n] # None /\ r # None /\ local[m][n] # r.hash ->
                IF \E x \in listed : x.version > r.version THEN "conflict" ELSE "update (local)"
          [] OTHER ->
                IF \E x \in listed : x.hash # r.hash THEN "update (server)" ELSE "no update"

-----------------------------------------------------------------------------
\* The last file is done with.
Finish(m) ==
    /\ At(m, "delete") \/ At(m, "pull")
    /\ cmd[m].todo = {}
    /\ cmd' = [cmd EXCEPT ![m] = Idle]
    /\ UNCHANGED <<server, local, copies, record, edits, mishaps>>

\* The client ends (Ctrl-C, power) between two steps.
Kill(m) ==
    /\ ~At(m, "idle")
    /\ mishaps < MaxMishaps
    /\ mishaps' = mishaps + 1
    /\ cmd' = [cmd EXCEPT ![m] = Idle]
    /\ UNCHANGED <<server, local, copies, record, edits>>

\* The user writes or removes a file, whatever the client is doing.
Edit(m, n, c) ==
    /\ edits < MaxEdits
    /\ c # local[m][n]
    /\ local' = [local EXCEPT ![m][n] = c]
    /\ edits' = edits + 1
    /\ UNCHANGED <<server, copies, record, cmd, mishaps>>

PushStep(m) ==
    \/ \E n \in Name : PushNext(m, n) \/ DeleteNext(m, n)
    \/ CreateFile(m)
    \/ ResumeUpload(m) \/ InitUpload(m) \/ ReadChunks(m)
    \/ \E i \in DOMAIN cmd[m].buf : SendChunk(m, i)
    \/ Finalize(m)
    \/ StartDeletions(m)

PullStep(m) ==
    \/ \E meta \in cmd[m].todo : PullNext(m, meta)
    \/ SaveConflict(m) \/ Fetch(m) \/ Install(m) \/ SaveRecord(m)

Fails(m) ==
    \/ CreateFileFails(m) \/ GetUploadFails(m) \/ InitUploadFails(m) \/ FinalizeFails(m)
    \/ FetchFails(m)
    \/ \E i \in DOMAIN cmd[m].buf : SendChunkFails(m, i)
    \/ \E n \in Name : DeleteFails(m, n)
    \/ Kill(m)

Step(m) == PushStep(m) \/ PullStep(m) \/ Finish(m)

Next ==
    \E m \in Machine :
        \/ StartPush(m) \/ StartPull(m)
        \/ Step(m)
        \/ Fails(m)
        \/ \E n \in Written, c \in Content \cup {None} : Edit(m, n, c)

Spec == Init /\ [][Next]_vars

\* A command that is started goes on, and each machine keeps starting its
\* commands: nothing in the code does, its user does.
Fairness ==
    \A m \in Machine : /\ WF_vars(Step(m))
                       /\ SF_vars(StartPush(m))
                       /\ SF_vars(StartPull(m))

FairSpec == Spec /\ Fairness
-----------------------------------------------------------------------------
(* What is checked.                                                        *)

Optional(S) == S \cup {None}
Bytes == Seq(Block)
Row == [log : Seq(Bytes), deleted : BOOLEAN]
Record == [hash : Bytes, version : Nat, upload : Nat]

\* Tables, files and records have their types; every upload a record or a
\* command names was opened for that very file.
TypeOK ==
    /\ rows \in [Name -> Row]
    /\ \A id \in DOMAIN sessions : sessions[id].name \in Name /\ sessions[id].count > 0
    /\ local \in [Machine -> [Name -> Optional(Bytes)]]
    /\ copies \in [Machine -> SUBSET Bytes]
    /\ record \in [Machine -> [Name -> Optional(Record)]]
    /\ \A m \in Machine, n \in Name :
          record[m][n] # None /\ record[m][n].upload # 0 =>
             /\ record[m][n].upload \in DOMAIN sessions
             /\ sessions[record[m][n].upload].name = n
    /\ \A m \in Machine :
          cmd[m].upload # 0 => sessions[cmd[m].upload].name = cmd[m].name

Settled(m, n) == record[m][n] # None /\ record[m][n].upload = 0

\* A sync record is "what the client last knew about a file": the content it
\* names is the one the server had, or has, under the version it names.
RecordTruthful ==
    \A m \in Machine, n \in Name :
        Settled(m, n) => /\ record[m][n].version \in DOMAIN rows[n].log
                         /\ rows[n].log[record[m][n].version] = record[m][n].hash

\* What pull would do with a listed file.
PullDoes(m, meta) ==
    IF Current(m, meta) THEN "leave" ELSE IF Changed(m, meta) THEN "conflict" ELSE "replace"

\* status foretells pull, although it compares hashes where pull compares
\* versions: what it calls an update on the server, or new there, is fetched, a
\* conflict gets a copy, a file changed here only is left alone, and one without
\* an update keeps its content, though pull may fetch the same bytes again.  The
\* lines "new (local)", which pull overwrites, and "deleted (local)", which it
\* brings back when the server has a newer version, say nothing of a pull.
StatusForetellsPull ==
    \A m \in Machine : \A meta \in Listed :
        LET s == StatusOf(m, meta.name) IN
        /\ s \in {"update (server)", "new (server)"} => PullDoes(m, meta) = "replace"
        /\ s = "conflict" => PullDoes(m, meta) = "conflict"
        /\ s = "update (local)" => PullDoes(m, meta) = "leave"
        /\ s = "no update" => \/ PullDoes(m, meta) = "leave"
                              \/ PullDoes(m, meta) = "replace" /\ meta.hash = local[m][meta.name]

\* Chunks read while the user writes, downloads of a file that is put again
\* and resumed downloads of another version never pass for a whole file: the
\* versions on the server and the files on disk are contents somebody wrote.
WholeFiles ==
    \A n \in Written :
        /\ ToSet(rows[n].log) \subseteq Content
        /\ \A m \in Machine : local[m][n] \in Optional(Content)

\* The client, not the user, replaces or removes a file.
Overwrites(m, n) ==
    cmd'[m] # cmd[m] /\ local[m][n] # None /\ local'[m][n] # local[m][n]

\* A file with a sync record and no upload of it under way, that the user leaves
\* alone between pull's comparison and its rename, is replaced only if the
\* server has, or had, its content.
TrackedEditKept ==
    [][\A m \in Machine, n \in Written :
          Overwrites(m, n) /\ Settled(m, n) /\ local[m][n] = cmd[m].seen
              => local[m][n] \in Stored]_vars

\* Every file of a machine that pushes gets to the server in the end, and its
\* record says so.
UpToDate(m, n) == local[m][n] # None => Settled(m, n) /\ record[m][n].hash = local[m][n]
EventuallyPushed ==
    \A m \in Machine, n \in Name : "push" \in Does[m] => <>[]UpToDate(m, n)

\* The server's version is on the machine, as the file or as a conflict copy.
Reached(m, n) ==
    Exists(n) /\ ~rows[n].deleted =>
        \/ record[m][n] # None /\ record[m][n].version = Version(n)
        \/ Last(rows[n].log) \in copies[m]

\* Every file gets to a machine that pulls, unless a ".part" file there is as long
\* as the content already: the server answers such a request with 416 for ever.
EventuallyPulledOrFull ==
    \A m \in Machine, n \in DOMAIN PartOf :
        "pull" \in Does[m] =>
            <>[](Reached(m, n) \/ Len(Got(m, n)) >= Len(Last(rows[n].log)))
=============================================================================
