-------------------------- MODULE SyncClientProofs --------------------------
(***************************************************************************)
(* What is proved about SyncClient for every number of machines, names and *)
(* contents.                                                               *)
(***************************************************************************)
EXTENDS SyncClient, SequenceTheorems, TLAPS

-----------------------------------------------------------------------------
(* Types.                                                                  *)

Chunks == UNION {[D -> Bytes] : D \in SUBSET Nat}
Session == [name : Name, content : Bytes, count : Nat \ {0}, got : Chunks, live : BOOLEAN]
Meta == [name : Name, version : Nat, hash : Bytes]

PushStage == {"push", "create", "session", "read", "send", "delete"}
PullStage == {"pull", "conflict", "fetch", "install", "save"}
Command == [at : {"idle"} \cup PushStage \cup PullStage,
            todo : (SUBSET Name) \cup (SUBSET Meta), name : Optional(Name),
            hash : Optional(Bytes), version : Nat, upload : Nat,
            buf : Chunks, seen : Optional(Bytes)]

\* The upload a record names was opened for its file.
RecordOK(m, n) ==
    record[m][n] # None /\ record[m][n].upload # 0 =>
        /\ record[m][n].upload \in DOMAIN sessions
        /\ sessions[record[m][n].upload].name = n

\* The stage of a command says what it works on.
CmdOK(m) ==
    LET t == cmd[m] IN
    /\ t.at \in PushStage => t.todo \subseteq Name
    /\ t.at \in PullStage => t.todo \subseteq Meta /\ \A x \in t.todo : Exists(x.name)
    /\ t.at \in {"create", "session", "read", "send"} => t.name \in Name /\ t.hash \in Bytes
    /\ t.at = "session" => ChunkSize <= Len(t.hash)
    /\ t.at \in {"read", "send"} => t.upload \in DOMAIN sessions /\ sessions[t.upload].name = t.name
    /\ t.at \notin {"read", "send"} => t.upload = 0
    /\ t.at \in {"conflict", "fetch", "install", "save"} =>
          t.name \in DOMAIN PartOf /\ Exists(t.name) /\ t.hash \in Bytes

DataOK ==
    /\ rows \in [Name -> Row]
    /\ sessions \in Seq(Session)
    /\ local \in [Machine -> [Name -> Optional(Bytes)]]
    /\ copies \in [Machine -> SUBSET Bytes]
    /\ record \in [Machine -> [Name -> Optional(Record)]]
    /\ cmd \in [Machine -> Command]

TypeInv ==
    /\ DataOK
    /\ \A m \in Machine, n \in Name : RecordOK(m, n)
    /\ \A m \in Machine : CmdOK(m)

\* What machine m does in a step.
MachineStep(m) ==
    \/ StartPush(m) \/ StartPull(m)
    \/ Step(m)
    \/ Fails(m)
    \/ \E n \in Written, c \in Content \cup {None} : Edit(m, n, c)

LEMMA StepCases == [Next]_vars => (\E m \in Machine : MachineStep(m)) \/ UNCHANGED vars
  BY DEF Next, MachineStep

-----------------------------------------------------------------------------
(* Names, contents and logs.                                               *)

LEMMA ContentBytes == Content \subseteq Bytes
  BY ClientAssumption DEF Bytes, Block

\* A file and its ".part" file have different names, and users write none of
\* the latter.
LEMMA PartNames ==
  /\ Written \subseteq Name
  /\ DOMAIN PartOf \subseteq Written
  /\ \A n \in DOMAIN PartOf : PartOf[n] \in Name /\ PartOf[n] \notin Written
<1>1. DOMAIN PartOf \subseteq Name /\ PartOf \in [DOMAIN PartOf -> Name \ DOMAIN PartOf]
  BY ClientAssumption
<1> QED
  BY <1>1 DEF Written, ToSet

LEMMA BytesParts ==
  ASSUME NEW c \in Bytes
  PROVE  Len(c) \in Nat /\ \A i \in 1..Len(c) : c[i] \in Block
  BY LenProperties, ElementOfSeq DEF Bytes

LEMMA EmptyBytes == <<>> \in Bytes /\ <<>> \in Chunks
<1>1. <<>> \in [{} -> Bytes]
  OBVIOUS
<1> QED
  BY <1>1, EmptySeq DEF Bytes, Chunks

LEMMA PieceBytes ==
  ASSUME NEW c \in Bytes, NEW i \in Nat
  PROVE  Piece(c, i) \in Bytes
<1> DEFINE lo == i * ChunkSize + 1
           hi == IF (i + 1) * ChunkSize < Len(c) THEN (i + 1) * ChunkSize ELSE Len(c)
<1>1. Len(c) \in Nat /\ ChunkSize \in Nat
  BY BytesParts, ClientAssumption
<1>2. i * ChunkSize \in Nat /\ (i + 1) * ChunkSize \in Nat
  BY <1>1
<1>3. lo \in Int /\ hi \in Int /\ 1 <= lo /\ hi <= Len(c)
  BY <1>1, <1>2
<1>4. \A j \in lo..hi : c[j] \in Block
  BY <1>1, <1>3, BytesParts
<1> HIDE DEF lo, hi
<1>5. SubSeq(c, lo, hi) \in Bytes
  BY <1>3, <1>4, SubSeqProperties DEF Bytes
<1> QED
  BY <1>5 DEF Piece, lo, hi

\* A download goes on from the first byte missing.
LEMMA ResumedBytes ==
  ASSUME NEW got \in Bytes, NEW c \in Bytes, NEW k \in Len(got)..Len(c)
  PROVE  /\ got \o SubSeq(c, Len(got) + 1, k) \in Bytes
         /\ Len(got \o SubSeq(c, Len(got) + 1, k)) = k
<1>1. Len(got) \in Nat /\ Len(c) \in Nat
  BY BytesParts
<1>2. \A j \in (Len(got) + 1)..k : c[j] \in Block
  BY <1>1, BytesParts
<1>3. /\ SubSeq(c, Len(got) + 1, k) \in Bytes
      /\ Len(SubSeq(c, Len(got) + 1, k)) = IF Len(got) + 1 <= k THEN k - (Len(got) + 1) + 1 ELSE 0
  BY <1>1, <1>2, SubSeqProperties DEF Bytes
<1>4. /\ got \o SubSeq(c, Len(got) + 1, k) \in Bytes
      /\ Len(got \o SubSeq(c, Len(got) + 1, k)) = Len(got) + Len(SubSeq(c, Len(got) + 1, k))
  BY <1>3, ConcatProperties DEF Bytes
<1> QED
  BY <1>1, <1>3, <1>4

\* A file of at least one chunk has chunks.
LEMMA ChunkCountPositive ==
  ASSUME NEW c \in Bytes, ChunkSize <= Len(c)
  PROVE  ChunkCount(c) \in Nat \ {0}
<1>1. Len(c) \in Nat /\ ChunkSize \in Nat \ {0}
  BY BytesParts, ClientAssumption
<1>2. ASSUME NEW x \in Nat, NEW y \in Nat \ {0}, y <= x
      PROVE  (x + y - 1) \div y \in Nat \ {0}
  <2> DEFINE q == (x + y - 1) \div y
  <2>1. q \in Int /\ y * q <= x + y - 1 /\ x + y - 1 < y * q + y
    BY <1>2
  <2>2. q # 0
    BY <1>2, <2>1
  <2>3. q >= 0
    BY <1>2, <2>1
  <2> QED
    BY <2>1, <2>2, <2>3
<1> QED
  BY <1>1, <1>2 DEF ChunkCount

LEMMA LogTypes ==
  ASSUME rows \in [Name -> Row], NEW n \in Name
  PROVE  /\ rows[n].log \in Seq(Bytes) /\ Len(rows[n].log) \in Nat
         /\ DOMAIN rows[n].log = 1..Len(rows[n].log)
         /\ \A i \in 1..Len(rows[n].log) : rows[n].log[i] \in Bytes
         /\ Exists(n) => /\ Len(rows[n].log) >= 1
                         /\ Last(rows[n].log) = rows[n].log[Len(rows[n].log)]
                         /\ Last(rows[n].log) \in Bytes
<1>1. rows[n].log \in Seq(Bytes)
  BY DEF Row
<1>2. /\ Len(rows[n].log) \in Nat /\ DOMAIN rows[n].log = 1..Len(rows[n].log)
      /\ \A i \in 1..Len(rows[n].log) : rows[n].log[i] \in Bytes
  BY <1>1, LenProperties, ElementOfSeq
<1>3. Exists(n) => Len(rows[n].log) >= 1
  BY <1>1, EmptySeq DEF Exists
<1> QED
  BY <1>1, <1>2, <1>3 DEF Last

\* What a put does to the logs.
LEMMA PutFacts ==
  ASSUME rows \in [Name -> Row], NEW n \in Name, NEW c \in Bytes, Put(n, c)
  PROVE  /\ rows' \in [Name -> Row]
         /\ \A x \in Name : x # n => rows'[x] = rows[x]
         /\ Len(rows'[n].log) = Len(rows[n].log) + 1
         /\ rows'[n].log[Len(rows[n].log) + 1] = c
         /\ \A i \in 1..Len(rows[n].log) : rows'[n].log[i] = rows[n].log[i]
<1>1. rows[n] \in Row /\ rows[n].log \in Seq(Bytes) /\ Len(rows[n].log) \in Nat
  BY LogTypes
<1>2. rows'[n] = [log |-> Append(rows[n].log, c), deleted |-> FALSE]
  BY DEF Put
<1>3. Append(rows[n].log, c) \in Seq(Bytes)
  BY <1>1
<1>4. /\ Len(Append(rows[n].log, c)) = Len(rows[n].log) + 1
      /\ Append(rows[n].log, c)[Len(rows[n].log) + 1] = c
      /\ \A i \in 1..Len(rows[n].log) : Append(rows[n].log, c)[i] = rows[n].log[i]
  BY <1>1
<1>5. rows' \in [Name -> Row]
  <2>1. [log |-> Append(rows[n].log, c), deleted |-> FALSE] \in Row
    BY <1>3 DEF Row
  <2> QED
    BY <2>1 DEF Put
<1> QED
  BY <1>2, <1>4, <1>5 DEF Put

LEMMA MarkFacts ==
  ASSUME rows \in [Name -> Row], NEW n \in Name, MarkDeleted(n)
  PROVE  rows' \in [Name -> Row] /\ \A x \in Name : rows'[x].log = rows[x].log
  BY DEF MarkDeleted, Row, Exists

-----------------------------------------------------------------------------
(* What a step does to the server.                                         *)

\* The puts a machine may make: of the file it works on, or of its session.
PutBy(m, n, c) ==
    \/ At(m, "create") /\ n = cmd[m].name /\ c = cmd[m].hash
    \/ /\ At(m, "send") /\ Accepted(sessions[cmd[m].upload])
       /\ n = sessions[cmd[m].upload].name /\ c = sessions[cmd[m].upload].content

LEMMA CmdTypes ==
  ASSUME TypeInv, NEW m \in Machine
  PROVE  cmd[m] \in Command /\ CmdOK(m)
  BY DEF TypeInv, DataOK

LEMMA SessionTypes ==
  ASSUME sessions \in Seq(Session)
  PROVE  /\ Len(sessions) \in Nat /\ DOMAIN sessions = 1..Len(sessions)
         /\ \A id \in DOMAIN sessions : sessions[id] \in Session
  BY LenProperties, ElementOfSeq

LEMMA RowsStep ==
  ASSUME TypeInv, NEW m \in Machine, MachineStep(m)
  PROVE  \/ rows' = rows
         \/ \E n \in Name : MarkDeleted(n)
         \/ \E n \in Name, c \in Bytes : PutBy(m, n, c) /\ Put(n, c)
<1>1. cmd[m] \in Command /\ CmdOK(m)
  BY CmdTypes
<1>2. CASE CreateFile(m) \/ CreateFileFails(m)
  BY <1>1, <1>2 DEF CreateFile, CreateFileFails, CmdOK, At, PutBy
<1>3. CASE Finalize(m) \/ FinalizeFails(m)
  <2> DEFINE s == sessions[cmd[m].upload]
  <2>1. At(m, "send")
    BY <1>3 DEF Finalize, FinalizeFails
  <2>2. s \in Session
    BY <1>1, <2>1, SessionTypes DEF CmdOK, At, TypeInv, DataOK
  <2>3. rows' = rows \/ (Accepted(s) /\ EndUpload(cmd[m].upload))
    BY <1>3 DEF Finalize, FinalizeFails, server
  <2>4. Accepted(s) /\ EndUpload(cmd[m].upload) => Put(s.name, s.content)
    BY DEF Accepted, EndUpload
  <2>5. s.name \in Name /\ s.content \in Bytes
    BY <2>2 DEF Session
  <2> QED
    BY <2>1, <2>3, <2>4, <2>5 DEF PutBy
<1>4. CASE \E n \in Name : DeleteNext(m, n) \/ DeleteFails(m, n)
  BY <1>4 DEF DeleteNext, DeleteFails
<1>5. CASE \/ StartPush(m) \/ StartPull(m) \/ PullStep(m) \/ Finish(m) \/ Kill(m)
           \/ FetchFails(m) \/ InitUploadFails(m)
           \/ (\E i \in DOMAIN cmd[m].buf : SendChunkFails(m, i))
           \/ \E n \in Written, c \in Content \cup {None} : Edit(m, n, c)
  BY <1>5
  DEF StartPush, StartPull, PullStep, PullNext, SaveConflict, Fetch, Install, SaveRecord,
      Finish, Kill, FetchFails, InitUploadFails, SendChunkFails, Edit, server
<1>6. CASE \/ (\E n \in Name : PushNext(m, n)) \/ ResumeUpload(m) \/ InitUpload(m)
           \/ GetUploadFails(m) \/ ReadChunks(m) \/ (\E i \in DOMAIN cmd[m].buf : SendChunk(m, i))
           \/ StartDeletions(m)
  BY <1>6
  DEF PushNext, ResumeUpload, InitUpload, GetUploadFails, NewUpload, ReadChunks, SendChunk,
      StartDeletions, server
<1> QED
  BY <1>2, <1>3, <1>4, <1>5, <1>6 DEF MachineStep, Step, PushStep, Fails

\* Logs only grow.
RowsGrow ==
    /\ rows' \in [Name -> Row]
    /\ \A n \in Name :
          /\ Len(rows[n].log) <= Len(rows'[n].log)
          /\ \A i \in 1..Len(rows[n].log) : rows'[n].log[i] = rows[n].log[i]

LEMMA RowsGrowStep ==
  ASSUME TypeInv, NEW m \in Machine, MachineStep(m)
  PROVE  RowsGrow
<1>1. rows \in [Name -> Row] /\ \A n \in Name : Len(rows[n].log) \in Nat
  BY LogTypes DEF TypeInv, DataOK
<1>2. CASE rows' = rows
  BY <1>1, <1>2 DEF RowsGrow
<1>3. ASSUME NEW n \in Name, MarkDeleted(n) PROVE RowsGrow
  <2>1. rows' \in [Name -> Row] /\ \A x \in Name : rows'[x].log = rows[x].log
    BY <1>1, <1>3, MarkFacts
  <2> QED
    BY <1>1, <2>1 DEF RowsGrow
<1>4. ASSUME NEW n \in Name, NEW c \in Bytes, Put(n, c) PROVE RowsGrow
  <2>1. /\ rows' \in [Name -> Row]
        /\ \A x \in Name : x # n => rows'[x] = rows[x]
        /\ Len(rows'[n].log) = Len(rows[n].log) + 1
        /\ \A i \in 1..Len(rows[n].log) : rows'[n].log[i] = rows[n].log[i]
    BY <1>1, <1>4, PutFacts
  <2> QED
    BY <1>1, <2>1 DEF RowsGrow
<1> QED
  BY <1>2, <1>3, <1>4, RowsStep

LEMMA ExistsStays ==
  ASSUME TypeInv, RowsGrow, NEW n \in Name, Exists(n)
  PROVE  Exists(n)'
<1>1. rows \in [Name -> Row] /\ rows' \in [Name -> Row]
  BY DEF TypeInv, DataOK, RowsGrow
<1>2. Len(rows[n].log) >= 1 /\ Len(rows[n].log) \in Nat
  BY <1>1, LogTypes
<1>3. rows'[n].log \in Seq(Bytes) /\ Len(rows'[n].log) >= Len(rows[n].log)
  BY <1>1 DEF RowsGrow, Row
<1>4. Len(rows'[n].log) # 0
  BY <1>2, <1>3, LenProperties
<1> QED
  BY <1>4, EmptySeq DEF Exists

\* What happens to the sessions.
LEMMA SessionsStep ==
  ASSUME TypeInv, NEW m \in Machine, MachineStep(m)
  PROVE  \/ sessions' = sessions
         \/ /\ At(m, "session")
            /\ OpenUpload(cmd[m].name, cmd[m].hash, ChunkCount(cmd[m].hash))
         \/ /\ At(m, "send")
            /\ \E i \in DOMAIN cmd[m].buf : StoreChunk(cmd[m].upload, i, cmd[m].buf[i])
         \/ /\ At(m, "send")
            /\ sessions' = [sessions EXCEPT ![cmd[m].upload].live = FALSE]
<1>1. CASE InitUpload(m) \/ GetUploadFails(m) \/ InitUploadFails(m)
  BY <1>1 DEF InitUpload, GetUploadFails, NewUpload, InitUploadFails
<1>2. CASE \E i \in DOMAIN cmd[m].buf : SendChunk(m, i) \/ SendChunkFails(m, i)
  BY <1>2 DEF SendChunk, SendChunkFails
<1>3. CASE Finalize(m) \/ FinalizeFails(m)
  BY <1>3 DEF Finalize, FinalizeFails, EndUpload, server
<1>4. CASE \/ StartPush(m) \/ StartPull(m) \/ PullStep(m) \/ Finish(m) \/ Kill(m)
           \/ FetchFails(m) \/ CreateFileFails(m)
           \/ (\E n \in Name : DeleteFails(m, n))
           \/ \E n \in Written, c \in Content \cup {None} : Edit(m, n, c)
  BY <1>4
  DEF StartPush, StartPull, PullStep, PullNext, SaveConflict, Fetch, Install, SaveRecord,
      Finish, Kill, FetchFails, CreateFileFails, DeleteFails, Edit, server
<1>5. CASE \/ (\E n \in Name : PushNext(m, n) \/ DeleteNext(m, n)) \/ CreateFile(m)
           \/ ResumeUpload(m) \/ ReadChunks(m) \/ StartDeletions(m)
  BY <1>5 DEF PushNext, DeleteNext, CreateFile, ResumeUpload, ReadChunks, StartDeletions, server
<1> QED
  BY <1>1, <1>2, <1>3, <1>4, <1>5 DEF MachineStep, Step, PushStep, Fails

\* Sessions are opened, filled and closed: what they are for stays.
SessionsGrow ==
    /\ sessions' \in Seq(Session)
    /\ Len(sessions) <= Len(sessions')
    /\ \A id \in 1..Len(sessions) : /\ sessions'[id].name = sessions[id].name
                                    /\ sessions'[id].content = sessions[id].content

LEMMA SessionsGrowStep ==
  ASSUME TypeInv, NEW m \in Machine, MachineStep(m)
  PROVE  SessionsGrow
<1>1. /\ cmd[m] \in Command /\ CmdOK(m)
      /\ sessions \in Seq(Session) /\ Len(sessions) \in Nat /\ DOMAIN sessions = 1..Len(sessions)
  BY CmdTypes, SessionTypes DEF TypeInv, DataOK
<1>2. CASE sessions' = sessions
  BY <1>1, <1>2 DEF SessionsGrow
<1>3. CASE /\ At(m, "session")
           /\ OpenUpload(cmd[m].name, cmd[m].hash, ChunkCount(cmd[m].hash))
  <2> DEFINE new == [name |-> cmd[m].name, content |-> cmd[m].hash,
                     count |-> ChunkCount(cmd[m].hash), got |-> <<>>, live |-> TRUE]
  <2>1. new \in Session
    BY <1>1, <1>3, ChunkCountPositive, EmptyBytes DEF Session, CmdOK, At
  <2>2. sessions' = Append(sessions, new)
    BY <1>3 DEF OpenUpload
  <2> HIDE DEF new
  <2> QED
    BY <1>1, <2>1, <2>2 DEF SessionsGrow
<1>4. CASE /\ At(m, "send")
           /\ \/ \E i \in DOMAIN cmd[m].buf : StoreChunk(cmd[m].upload, i, cmd[m].buf[i])
              \/ sessions' = [sessions EXCEPT ![cmd[m].upload].live = FALSE]
  <2> DEFINE id == cmd[m].upload
             s == sessions[id]
  <2>1. id \in 1..Len(sessions) /\ s \in Session
    BY <1>1, <1>4, SessionTypes DEF CmdOK, At
  <2>2. ASSUME NEW i \in DOMAIN cmd[m].buf, StoreChunk(id, i, cmd[m].buf[i])
        PROVE  \E e \in Session : /\ sessions' = [sessions EXCEPT ![id] = e]
                                  /\ e.name = s.name /\ e.content = s.content
    <3> DEFINE got == [j \in DOMAIN s.got \cup {i} |->
                          IF j = i THEN cmd[m].buf[i] ELSE s.got[j]]
               e == [s EXCEPT !.got = got]
    <3>1. /\ s.got \in Chunks /\ cmd[m].buf \in Chunks
      BY <1>1, <2>1 DEF Session, Command
    <3>2. PICK D \in SUBSET Nat : s.got \in [D -> Bytes]
      BY <3>1 DEF Chunks
    <3>3. PICK E \in SUBSET Nat : cmd[m].buf \in [E -> Bytes]
      BY <3>1 DEF Chunks
    <3>4. D \cup {i} \in SUBSET Nat /\ got \in [D \cup {i} -> Bytes]
      BY <2>2, <3>2, <3>3
    <3>5. got \in Chunks
      BY <3>4 DEF Chunks
    <3> HIDE DEF got
    <3>6. e \in Session /\ e.name = s.name /\ e.content = s.content
      BY <2>1, <3>5 DEF Session
    <3>7. sessions' = [sessions EXCEPT ![id] = e]
      <4>1. sessions' = [sessions EXCEPT ![id].got = got]
        BY <2>2 DEF StoreChunk, got
      <4> QED
        BY <4>1
    <3> QED
      BY <3>6, <3>7
  <2>3. ASSUME sessions' = [sessions EXCEPT ![id].live = FALSE]
        PROVE  \E e \in Session : /\ sessions' = [sessions EXCEPT ![id] = e]
                                  /\ e.name = s.name /\ e.content = s.content
    <3> DEFINE e == [s EXCEPT !.live = FALSE]
    <3>1. e \in Session /\ e.name = s.name /\ e.content = s.content
      BY <2>1 DEF Session
    <3>2. sessions' = [sessions EXCEPT ![id] = e]
      BY <2>3
    <3> QED
      BY <3>1, <3>2
  <2>4. PICK e \in Session : /\ sessions' = [sessions EXCEPT ![id] = e]
                             /\ e.name = s.name /\ e.content = s.content
    BY <1>4, <2>2, <2>3
  <2>5. /\ sessions' \in Seq(Session) /\ Len(sessions') = Len(sessions)
        /\ \A j \in 1..Len(sessions) : sessions'[j] = IF j = id THEN e ELSE sessions[j]
    BY <1>1, <2>1, <2>4, ExceptSeq
  <2> QED
    BY <1>1, <2>4, <2>5 DEF SessionsGrow
<1> QED
  BY <1>2, <1>3, <1>4, SessionsStep

-----------------------------------------------------------------------------
(* What a step does to files and records.                                  *)

\* The ".part" file and the content it is completed from.
LEMMA FetchTypes ==
  ASSUME TypeInv, NEW m \in Machine, cmd[m].at \in {"fetch", "install"}
  PROVE  LET n == cmd[m].name IN
         /\ n \in DOMAIN PartOf /\ n \in Written /\ PartOf[n] \in Name \ Written
         /\ Got(m, n) \in Bytes /\ Len(Got(m, n)) \in Nat
         /\ Exists(n)
         /\ Last(rows[n].log) \in Bytes /\ Len(Last(rows[n].log)) \in Nat
<1> DEFINE n == cmd[m].name
<1>1. n \in DOMAIN PartOf /\ Exists(n)
  BY CmdTypes DEF CmdOK
<1>2. n \in Written /\ n \in Name /\ PartOf[n] \in Name \ Written
  BY <1>1, PartNames
<1>3. Last(rows[n].log) \in Bytes
  BY <1>1, <1>2, LogTypes DEF TypeInv, DataOK
<1>4. local[m][PartOf[n]] \in Optional(Bytes)
  BY <1>2 DEF TypeInv, DataOK
<1>5. Got(m, n) \in Bytes
  BY <1>4, EmptyBytes DEF Got, Optional
<1> QED
  BY <1>1, <1>2, <1>3, <1>5, BytesParts

\* The user's edit, and what pull does to files.
UserEdits(m, n, c) == cmd' = cmd /\ local' = [local EXCEPT ![m][n] = c]
Downloads(m, bytes) ==
    At(m, "fetch") /\ local' = [local EXCEPT ![m][PartOf[cmd[m].name]] = bytes]
DropsPart(m) ==
    At(m, "install") /\ local' = [local EXCEPT ![m][PartOf[cmd[m].name]] = None]
TakesPart(m) ==
    /\ At(m, "install")
    /\ local' = [local EXCEPT ![m][cmd[m].name] = cmd[m].hash,
                              ![m][PartOf[cmd[m].name]] = None]

LEMMA LocalStep ==
  ASSUME TypeInv, NEW m \in Machine, MachineStep(m)
  PROVE  \/ local' = local
         \/ \E n \in Written, c \in Content \cup {None} : UserEdits(m, n, c)
         \/ \E bytes \in Bytes :
               Downloads(m, bytes) /\ Len(bytes) <= Len(Last(rows[cmd[m].name].log))
         \/ DropsPart(m) \/ TakesPart(m)
<1>1. CASE \E n \in Written, c \in Content \cup {None} : Edit(m, n, c)
  BY <1>1 DEF Edit, UserEdits
<1>2. CASE Fetch(m)
  <2> DEFINE n == cmd[m].name
             got == Got(m, n)
             now == Last(rows[n].log)
  <2>1. At(m, "fetch") /\ (local' = local \/
           /\ got = <<>> \/ Len(got) < Len(now)
           /\ local' = [local EXCEPT ![m][PartOf[n]] = got \o SubSeq(now, Len(got) + 1, Len(now))])
    BY <1>2 DEF Fetch
  <2>2. got \in Bytes /\ now \in Bytes /\ Len(got) \in Nat /\ Len(now) \in Nat
    BY <2>1, FetchTypes DEF At
  <2>3. got = <<>> => Len(got) = 0
    BY EmptySeq
  <2>4. got = <<>> \/ Len(got) < Len(now) => Len(now) \in Len(got)..Len(now)
    BY <2>2, <2>3
  <2> HIDE DEF n, got, now
  <2> DEFINE bytes == got \o SubSeq(now, Len(got) + 1, Len(now))
  <2>5. got = <<>> \/ Len(got) < Len(now) => bytes \in Bytes /\ Len(bytes) = Len(now)
    BY <2>2, <2>4, ResumedBytes
  <2>6. \/ local' = local
        \/ /\ bytes \in Bytes /\ Len(bytes) <= Len(now)
           /\ local' = [local EXCEPT ![m][PartOf[n]] = bytes]
    BY <2>1, <2>2, <2>5
  <2> HIDE DEF bytes
  <2> QED
    BY <2>1, <2>6 DEF Downloads, n, now
<1>3. CASE FetchFails(m)
  <2> DEFINE n == cmd[m].name
             got == Got(m, n)
             now == Last(rows[n].log)
  <2>1. At(m, "fetch") /\ \E k \in Len(got)..(Len(now) - 1) :
           local' = [local EXCEPT ![m][PartOf[n]] = got \o SubSeq(now, Len(got) + 1, k)]
    BY <1>3 DEF FetchFails
  <2>2. got \in Bytes /\ now \in Bytes /\ Len(got) \in Nat /\ Len(now) \in Nat
    BY <2>1, FetchTypes DEF At
  <2>3. \A k \in Len(got)..(Len(now) - 1) : k \in Len(got)..Len(now) /\ k <= Len(now)
    BY <2>2
  <2> HIDE DEF n, got, now
  <2>4. \A k \in Len(got)..(Len(now) - 1) :
           /\ got \o SubSeq(now, Len(got) + 1, k) \in Bytes
           /\ Len(got \o SubSeq(now, Len(got) + 1, k)) <= Len(now)
    <3> TAKE k \in Len(got)..(Len(now) - 1)
    <3>1. k \in Len(got)..Len(now) /\ k <= Len(now)
      BY <2>3
    <3> QED
      BY <2>2, <3>1, ResumedBytes
  <2>5. \E bytes \in Bytes :
           local' = [local EXCEPT ![m][PartOf[n]] = bytes] /\ Len(bytes) <= Len(now)
    BY <2>1, <2>4
  <2> QED
    BY <2>1, <2>5 DEF Downloads, n, now
<1>4. CASE Install(m)
  BY <1>4 DEF Install, DropsPart, TakesPart
<1>5. CASE \/ StartPush(m) \/ StartPull(m) \/ Finish(m) \/ Kill(m) \/ CreateFileFails(m)
           \/ GetUploadFails(m) \/ InitUploadFails(m) \/ FinalizeFails(m)
           \/ (\E i \in DOMAIN cmd[m].buf : SendChunkFails(m, i))
           \/ (\E n \in Name : DeleteFails(m, n))
           \/ (\E meta \in cmd[m].todo : PullNext(m, meta)) \/ SaveConflict(m) \/ SaveRecord(m)
  BY <1>5
  DEF StartPush, StartPull, Finish, Kill, CreateFileFails, GetUploadFails, NewUpload,
      InitUploadFails, FinalizeFails, SendChunkFails, DeleteFails, PullNext, SaveConflict, SaveRecord
<1>6. CASE PushStep(m)
  BY <1>6
  DEF PushStep, PushNext, DeleteNext, CreateFile, ResumeUpload, InitUpload, NewUpload,
      ReadChunks, SendChunk, Finalize, StartDeletions
<1> QED
  BY <1>1, <1>2, <1>3, <1>4, <1>5, <1>6 DEF MachineStep, Step, PullStep, Fails

LEMMA LocalTypesStep ==
  ASSUME TypeInv, NEW m \in Machine, MachineStep(m)
  PROVE  local' \in [Machine -> [Name -> Optional(Bytes)]]
<1>1. local \in [Machine -> [Name -> Optional(Bytes)]]
  BY DEF TypeInv, DataOK
<1>2. ASSUME NEW n \in Written, NEW c \in Content \cup {None}, UserEdits(m, n, c)
      PROVE  local' \in [Machine -> [Name -> Optional(Bytes)]]
  <2>1. n \in Name /\ c \in Optional(Bytes)
    BY PartNames, ContentBytes DEF Optional
  <2> QED
    BY <1>1, <1>2, <2>1 DEF UserEdits
<1>3. cmd[m].at \in {"fetch", "install"} =>
         /\ cmd[m].name \in Name /\ PartOf[cmd[m].name] \in Name
         /\ cmd[m].hash \in Optional(Bytes) /\ None \in Optional(Bytes)
  BY FetchTypes, CmdTypes, PartNames DEF Command, Optional
<1>4. ASSUME NEW bytes \in Bytes, Downloads(m, bytes)
      PROVE  local' \in [Machine -> [Name -> Optional(Bytes)]]
  BY <1>1, <1>3, <1>4 DEF Downloads, At, Optional
<1>5. CASE DropsPart(m) \/ TakesPart(m)
  BY <1>1, <1>3, <1>5 DEF DropsPart, TakesPart, At
<1> QED
  BY <1>1, <1>2, <1>4, <1>5, LocalStep

\* What happens to the records of m; the others' stay.
LEMMA RecordStep ==
  ASSUME TypeInv, NEW m \in Machine, MachineStep(m)
  PROVE  \/ record' = record
         \/ \E n \in Name : record' = [record EXCEPT ![m][n] = None]
         \/ /\ At(m, "create") /\ Put(cmd[m].name, cmd[m].hash)
            /\ Remember(m, cmd[m].name, cmd[m].hash, Version(cmd[m].name) + 1)
         \/ /\ At(m, "session")
            /\ OpenUpload(cmd[m].name, cmd[m].hash, ChunkCount(cmd[m].hash))
            /\ record' = [record EXCEPT ![m][cmd[m].name] =
                  IF @ = None THEN [hash |-> cmd[m].hash, version |-> 0, upload |-> Len(sessions) + 1]
                  ELSE [@ EXCEPT !.upload = Len(sessions) + 1]]
         \/ /\ At(m, "send")
            /\ Remember(m, cmd[m].name, cmd[m].hash, Version(sessions[cmd[m].upload].name) + 1)
         \/ /\ At(m, "save") /\ rows' = rows
            /\ Remember(m, cmd[m].name, cmd[m].hash, cmd[m].version)
<1>1. CASE CreateFile(m)
  BY <1>1 DEF CreateFile
<1>2. CASE InitUpload(m) \/ GetUploadFails(m)
  BY <1>2 DEF InitUpload, GetUploadFails, NewUpload
<1>3. CASE Finalize(m)
  BY <1>3 DEF Finalize
<1>4. CASE SaveRecord(m)
  BY <1>4 DEF SaveRecord, server
<1>5. CASE \E n \in Name : DeleteNext(m, n)
  BY <1>5 DEF DeleteNext
<1>6. CASE \/ StartPush(m) \/ StartPull(m) \/ Finish(m) \/ (Fails(m) /\ ~GetUploadFails(m))
           \/ (\E n \in Written, c \in Content \cup {None} : Edit(m, n, c))
           \/ (\E meta \in cmd[m].todo : PullNext(m, meta))
           \/ SaveConflict(m) \/ Fetch(m) \/ Install(m)
  BY <1>6
  DEF StartPush, StartPull, Finish, Fails, Kill, CreateFileFails, InitUploadFails,
      FinalizeFails, FetchFails, SendChunkFails, DeleteFails, Edit, PullNext, SaveConflict,
      Fetch, Install
<1>7. CASE \/ (\E n \in Name : PushNext(m, n)) \/ ResumeUpload(m) \/ ReadChunks(m)
           \/ (\E i \in DOMAIN cmd[m].buf : SendChunk(m, i)) \/ StartDeletions(m)
  BY <1>7 DEF PushNext, ResumeUpload, ReadChunks, SendChunk, StartDeletions
<1> QED
  BY <1>1, <1>2, <1>3, <1>4, <1>5, <1>6, <1>7 DEF MachineStep, Step, PushStep, PullStep

LEMMA RecordTypesStep ==
  ASSUME TypeInv, SessionsGrow, NEW m \in Machine, MachineStep(m)
  PROVE  /\ record' \in [Machine -> [Name -> Optional(Record)]]
         /\ \A v \in Machine, n \in Name : RecordOK(v, n)'
<1>1. /\ record \in [Machine -> [Name -> Optional(Record)]]
      /\ \A v \in Machine, n \in Name : RecordOK(v, n)
      /\ cmd[m] \in Command /\ CmdOK(m)
      /\ DOMAIN sessions = 1..Len(sessions) /\ Len(sessions) \in Nat
  BY CmdTypes, SessionTypes DEF TypeInv, DataOK
<1>2. /\ DOMAIN sessions' = 1..Len(sessions') /\ Len(sessions') \in Nat
      /\ \A id \in DOMAIN sessions : id \in DOMAIN sessions' /\ sessions'[id].name = sessions[id].name
  BY <1>1, LenProperties DEF SessionsGrow
\* The record of one file is set or removed.
<1>3. ASSUME NEW n \in Name, NEW r \in Optional(Record), record' = [record EXCEPT ![m][n] = r],
             r # None /\ r.upload # 0 =>
                r.upload \in DOMAIN sessions' /\ sessions'[r.upload].name = n
      PROVE  /\ record' \in [Machine -> [Name -> Optional(Record)]]
             /\ \A v \in Machine, x \in Name : RecordOK(v, x)'
  <2>1. record' \in [Machine -> [Name -> Optional(Record)]]
    BY <1>1, <1>3
  <2>2. ASSUME NEW v \in Machine, NEW x \in Name PROVE RecordOK(v, x)'
    <3>1. record'[v][x] = IF v = m /\ x = n THEN r ELSE record[v][x]
      BY <1>1, <1>3
    <3>2. RecordOK(v, x)
      BY <1>1
    <3> QED
      BY <1>2, <1>3, <3>1, <3>2 DEF RecordOK
  <2> QED
    BY <2>1, <2>2
<1>4. CASE record' = record
  BY <1>1, <1>2, <1>4 DEF RecordOK
<1>5. ASSUME NEW n \in Name, NEW hash \in Bytes, NEW version \in Nat, Remember(m, n, hash, version)
      PROVE  /\ record' \in [Machine -> [Name -> Optional(Record)]]
             /\ \A v \in Machine, x \in Name : RecordOK(v, x)'
  <2> DEFINE r == [hash |-> hash, version |-> version, upload |-> 0]
  <2>1. r \in Optional(Record) /\ r.upload = 0
    BY DEF Optional, Record
  <2>2. record' = [record EXCEPT ![m][n] = r]
    BY <1>5 DEF Remember
  <2> HIDE DEF r
  <2> QED
    BY <1>3, <2>1, <2>2
<1>6. CASE /\ At(m, "session")
           /\ OpenUpload(cmd[m].name, cmd[m].hash, ChunkCount(cmd[m].hash))
           /\ record' = [record EXCEPT ![m][cmd[m].name] =
                 IF @ = None THEN [hash |-> cmd[m].hash, version |-> 0, upload |-> Len(sessions) + 1]
                 ELSE [@ EXCEPT !.upload = Len(sessions) + 1]]
  <2> DEFINE n == cmd[m].name
             id == Len(sessions) + 1
             r == IF record[m][n] = None THEN [hash |-> cmd[m].hash, version |-> 0, upload |-> id]
                  ELSE [record[m][n] EXCEPT !.upload = id]
  <2>1. n \in Name /\ cmd[m].hash \in Bytes
    BY <1>1, <1>6 DEF CmdOK, At
  <2>2. record[m][n] \in Optional(Record) /\ id \in Nat
    BY <1>1, <2>1
  <2>3. r \in Optional(Record) /\ r.upload = id
    BY <2>1, <2>2 DEF Optional, Record
  <2>4. record' = [record EXCEPT ![m][n] = r]
    BY <1>6
  <2>5. id \in DOMAIN sessions' /\ sessions'[id].name = n
    BY <1>1, <1>2, <1>6, LenProperties DEF OpenUpload, TypeInv, DataOK
  <2> HIDE DEF r
  <2> QED
    BY <1>3, <2>1, <2>3, <2>4, <2>5
<1>7. CASE \E n \in Name : record' = [record EXCEPT ![m][n] = None]
  BY <1>3, <1>7 DEF Optional
<1>8. CASE /\ cmd[m].at \in {"create", "send", "save"}
           /\ \/ Remember(m, cmd[m].name, cmd[m].hash, Version(cmd[m].name) + 1)
              \/ /\ At(m, "send")
                 /\ Remember(m, cmd[m].name, cmd[m].hash,
                             Version(sessions[cmd[m].upload].name) + 1)
              \/ Remember(m, cmd[m].name, cmd[m].hash, cmd[m].version)
  <2>1. cmd[m].name \in Name /\ cmd[m].hash \in Bytes /\ cmd[m].version \in Nat
    BY <1>1, <1>8, PartNames DEF CmdOK, Command
  <2>2. \A n \in Name : Version(n) + 1 \in Nat
    BY LogTypes DEF TypeInv, DataOK, Version
  <2>3. At(m, "send") => sessions[cmd[m].upload].name \in Name
    BY <1>1, <2>1 DEF CmdOK, At
  <2> QED
    BY <1>5, <1>8, <2>1, <2>2, <2>3
<1> QED
  BY <1>4, <1>6, <1>7, <1>8, RecordStep DEF At

LEMMA CopiesTypesStep ==
  ASSUME TypeInv, NEW m \in Machine, MachineStep(m)
  PROVE  copies' \in [Machine -> SUBSET Bytes]
<1>1. copies \in [Machine -> SUBSET Bytes]
  BY DEF TypeInv, DataOK
<1>2. CASE SaveConflict(m)
  <2>1. cmd[m].hash \in Bytes
    BY <1>2, CmdTypes DEF SaveConflict, CmdOK, At
  <2> QED
    BY <1>1, <1>2, <2>1 DEF SaveConflict
<1>3. CASE ~SaveConflict(m)
  <2>1. copies' = copies
    BY <1>3
    DEF MachineStep, Step, PushStep, PullStep, Fails, StartPush, StartPull, PushNext,
        CreateFile, CreateFileFails, ResumeUpload, InitUpload, GetUploadFails, NewUpload,
        InitUploadFails, ReadChunks, SendChunk, SendChunkFails, Finalize, FinalizeFails, StartDeletions, DeleteNext,
        DeleteFails, PullNext, Fetch, FetchFails, Install, SaveRecord, Finish, Kill, Edit
  <2> QED
    BY <1>1, <2>1
<1> QED
  BY <1>2, <1>3

-----------------------------------------------------------------------------
(* What a step does to the commands.                                       *)

Stage == {"idle"} \cup PushStage \cup PullStage

LEMMA IdleFields ==
  /\ Idle \in Command
  /\ Idle.at = "idle" /\ Idle.name = None /\ Idle.hash = None /\ Idle.seen = None
  /\ Idle.upload = 0 /\ Idle.todo = {}
  BY EmptyBytes DEF Idle, Command, Optional

LEMMA LoopFields ==
  ASSUME TypeInv, NEW m \in Machine, NEW at \in Stage
  PROVE  /\ Loop(m, at) \in Command
         /\ Loop(m, at).at = at /\ Loop(m, at).todo = cmd[m].todo
         /\ Loop(m, at).name = None /\ Loop(m, at).hash = None /\ Loop(m, at).seen = None
         /\ Loop(m, at).upload = 0
<1>1. cmd[m].todo \in (SUBSET Name) \cup (SUBSET Meta)
  BY CmdTypes DEF Command
<1> QED
  BY <1>1, IdleFields DEF Loop, Command, Stage

\* The command of another machine, and of one that goes on with it.
LEMMA CmdStays ==
  ASSUME TypeInv, RowsGrow, SessionsGrow, NEW v \in Machine, cmd'[v] = cmd[v]
  PROVE  CmdOK(v)'
<1>1. cmd[v] \in Command /\ CmdOK(v)
  BY CmdTypes
<1>2. ASSUME cmd[v].at \in PullStage, NEW x \in cmd[v].todo PROVE Exists(x.name)'
  BY <1>1, <1>2, ExistsStays DEF CmdOK, Meta
<1>3. cmd[v].at \in {"conflict", "fetch", "install", "save"} => Exists(cmd[v].name)'
  BY <1>1, PartNames, ExistsStays DEF CmdOK
<1>4. cmd[v].at \in {"read", "send"} =>
         /\ cmd[v].upload \in DOMAIN sessions'
         /\ sessions'[cmd[v].upload].name = cmd[v].name
  <2>1. /\ DOMAIN sessions = 1..Len(sessions) /\ Len(sessions) \in Nat
        /\ DOMAIN sessions' = 1..Len(sessions') /\ Len(sessions') \in Nat
    BY SessionTypes, LenProperties DEF SessionsGrow, TypeInv, DataOK
  <2> QED
    BY <1>1, <2>1 DEF CmdOK, SessionsGrow
<1> QED
  BY <1>1, <1>2, <1>3, <1>4 DEF CmdOK

\* The loop over files goes on, or the client ends.
LEMMA LoopOK ==
  ASSUME TypeInv, RowsGrow, NEW m \in Machine, NEW at,
         \/ at = "push" /\ cmd[m].at \in PushStage
         \/ at = "pull" /\ cmd[m].at \in PullStage,
         NEW next \in {Loop(m, at), Idle}, cmd' = [cmd EXCEPT ![m] = next]
  PROVE  cmd'[m] \in Command /\ CmdOK(m)'
<1>1. cmd[m] \in Command /\ CmdOK(m) /\ cmd \in [Machine -> Command]
  BY CmdTypes DEF TypeInv, DataOK
<1>2. cmd'[m] = next
  BY <1>1
<1>3. CASE next = Idle
  <2>1. next \in Command /\ next.at = "idle" /\ next.upload = 0
    BY <1>3, IdleFields
  <2> QED
    BY <1>2, <2>1 DEF CmdOK, PushStage, PullStage
<1>4. CASE next = Loop(m, at)
  <2>1. next \in Command /\ next.at = at /\ next.upload = 0 /\ next.todo = cmd[m].todo
    BY <1>4, LoopFields DEF Stage, PushStage, PullStage
  <2>2. at = "pull" => \A x \in cmd[m].todo : Exists(x.name)'
    BY <1>1, ExistsStays DEF CmdOK, Meta, PushStage, PullStage
  <2> QED
    BY <1>1, <1>2, <2>1, <2>2 DEF CmdOK, PushStage, PullStage
<1> QED
  BY <1>3, <1>4

\* A command is started.
LEMMA StartOK ==
  ASSUME TypeInv, RowsGrow, NEW m \in Machine, StartPush(m) \/ StartPull(m)
  PROVE  cmd'[m] \in Command /\ CmdOK(m)'
<1>1. cmd \in [Machine -> Command] /\ rows \in [Name -> Row]
  BY DEF TypeInv, DataOK
<1>2. CASE StartPush(m)
  <2> DEFINE x == [Idle EXCEPT !.at = "push", !.todo = Scanned(m)]
  <2>1. x \in Command /\ x.at = "push" /\ x.todo \subseteq Name /\ x.upload = 0
    BY IdleFields DEF Command, Scanned, PushStage
  <2>2. cmd'[m] = x
    BY <1>1, <1>2 DEF StartPush
  <2> HIDE DEF x
  <2> QED
    BY <2>1, <2>2 DEF CmdOK, PullStage
<1>3. CASE StartPull(m)
  <2> DEFINE x == [Idle EXCEPT !.at = "pull", !.todo = Listed]
  <2>1. Listed \subseteq Meta /\ \A y \in Listed : Exists(y.name) /\ y.name \in Name
    <3> SUFFICES ASSUME NEW n \in Name, Exists(n)
                 PROVE  [name |-> n, version |-> Version(n), hash |-> Last(rows[n].log)] \in Meta
      BY DEF Listed
    <3> QED
      BY <1>1, LogTypes DEF Meta, Version
  <2>2. x \in Command /\ x.at = "pull" /\ x.todo = Listed /\ x.upload = 0
    BY <2>1, IdleFields DEF Command, PullStage
  <2>3. cmd'[m] = x
    BY <1>1, <1>3 DEF StartPull
  <2>4. \A y \in Listed : Exists(y.name)'
    BY <2>1, ExistsStays
  <2> HIDE DEF x
  <2> QED
    BY <2>1, <2>2, <2>3, <2>4 DEF CmdOK, PushStage
<1> QED
  BY <1>2, <1>3

\* The scan and the list of deletions.
LEMMA PushLoopOK ==
  ASSUME TypeInv, RowsGrow, NEW m \in Machine,
         \/ \E n \in Name : PushNext(m, n) \/ DeleteNext(m, n) \/ DeleteFails(m, n)
         \/ StartDeletions(m)
  PROVE  cmd'[m] \in Command /\ CmdOK(m)'
<1>1. cmd \in [Machine -> Command] /\ cmd[m] \in Command /\ CmdOK(m)
  BY CmdTypes DEF TypeInv, DataOK
<1>2. ASSUME NEW x \in Command, cmd' = [cmd EXCEPT ![m] = x], x.at \in {"push", "delete"},
             x.todo \subseteq Name, x.upload = 0
      PROVE  cmd'[m] \in Command /\ CmdOK(m)'
  <2>1. cmd'[m] = x
    BY <1>1, <1>2
  <2> QED
    BY <1>2, <2>1 DEF CmdOK, PullStage
<1>3. ASSUME NEW n \in Name, PushNext(m, n) PROVE cmd'[m] \in Command /\ CmdOK(m)'
  <2> DEFINE hash == local[m][n]
             rest == [Loop(m, "push") EXCEPT !.todo = @ \ {n}]
             stage == IF Len(hash) < ChunkSize THEN "create" ELSE "session"
             work == [rest EXCEPT !.name = n, !.hash = hash]
             x == [work EXCEPT !.at = stage]
  <2>1. cmd[m].at = "push" /\ cmd[m].todo \subseteq Name
    BY <1>1, <1>3 DEF PushNext, At, CmdOK, PushStage
  <2>2. hash \in Optional(Bytes)
    BY DEF TypeInv, DataOK
  <2>3. rest \in Command /\ rest.at = "push" /\ rest.todo \subseteq Name /\ rest.upload = 0
    <3>1. Loop(m, "push").todo \ {n} \in SUBSET Name
      BY <2>1, LoopFields DEF Stage, PushStage
    <3> QED
      BY <3>1, LoopFields DEF Command, Stage, PushStage
  <2> HIDE DEF rest
  <2>4. /\ work \in Command /\ work.todo \subseteq Name /\ work.upload = 0
        /\ work.name = n /\ work.hash = hash
    BY <2>2, <2>3 DEF Command, Optional
  <2> HIDE DEF work
  <2>5. /\ x \in Command /\ x.at = stage /\ x.todo \subseteq Name /\ x.upload = 0
        /\ x.name = n /\ x.hash = hash
    BY <2>4 DEF Command, PushStage
  <2> HIDE DEF x
  <2>6. \/ cmd' = [cmd EXCEPT ![m] = Idle]
        \/ cmd' = [cmd EXCEPT ![m] = rest]
        \/ hash # None /\ cmd' = [cmd EXCEPT ![m] = x]
    BY <1>3 DEF PushNext, rest, work, x
  <2>7. CASE cmd' = [cmd EXCEPT ![m] = Idle]
    BY <2>1, <2>7, LoopOK DEF PushStage
  <2>8. CASE cmd' = [cmd EXCEPT ![m] = rest]
    BY <1>2, <2>3, <2>8
  <2>9. CASE hash # None /\ cmd' = [cmd EXCEPT ![m] = x]
    <3>1. cmd'[m] = x
      BY <1>1, <2>9
    <3>2. hash \in Bytes
      BY <2>2, <2>9 DEF Optional
    <3>3. Len(hash) < ChunkSize \/ ChunkSize <= Len(hash)
      BY <3>2, BytesParts, ClientAssumption
    <3> QED
      BY <2>5, <3>1, <3>2, <3>3 DEF CmdOK, PullStage
  <2> QED
    BY <2>6, <2>7, <2>8, <2>9
<1>4. ASSUME NEW n \in Name, DeleteNext(m, n) \/ DeleteFails(m, n)
      PROVE  cmd'[m] \in Command /\ CmdOK(m)'
  <2> DEFINE x == [cmd[m] EXCEPT !.todo = @ \ {n}]
  <2>1. cmd[m].at = "delete" /\ cmd[m].todo \subseteq Name /\ cmd[m].upload = 0
    BY <1>1, <1>4 DEF DeleteNext, DeleteFails, At, CmdOK, PushStage
  <2>2. x \in Command /\ x.at = "delete" /\ x.todo \subseteq Name /\ x.upload = 0
    BY <1>1, <2>1 DEF Command
  <2>3. cmd' = [cmd EXCEPT ![m] = x] \/ cmd' = [cmd EXCEPT ![m] = Idle]
    BY <1>4 DEF DeleteNext, DeleteFails
  <2> HIDE DEF x
  <2>4. CASE cmd' = [cmd EXCEPT ![m] = Idle]
    BY <2>1, <2>4, LoopOK DEF PushStage
  <2> QED
    BY <1>2, <2>2, <2>3, <2>4
<1>5. CASE StartDeletions(m)
  <2> DEFINE x == [cmd[m] EXCEPT !.at = "delete", !.todo = {n \in Name : record[m][n] # None}]
  <2>1. cmd[m].at = "push" /\ cmd[m].upload = 0
    BY <1>1, <1>5 DEF StartDeletions, At, CmdOK
  <2>2. x \in Command /\ x.at = "delete" /\ x.todo \subseteq Name /\ x.upload = 0
    BY <1>1, <2>1 DEF Command, PushStage
  <2>3. cmd' = [cmd EXCEPT ![m] = x]
    BY <1>5 DEF StartDeletions
  <2> HIDE DEF x
  <2> QED
    BY <1>2, <2>2, <2>3
<1> QED
  BY <1>3, <1>4, <1>5

\* An upload: the session, the chunks read and the chunks sent.
LEMMA UploadOK ==
  ASSUME TypeInv, RowsGrow, SessionsGrow, NEW m \in Machine,
         \/ ResumeUpload(m) \/ InitUpload(m) \/ GetUploadFails(m) \/ ReadChunks(m)
         \/ \E i \in DOMAIN cmd[m].buf : SendChunk(m, i)
  PROVE  cmd'[m] \in Command /\ CmdOK(m)'
<1> DEFINE t == cmd[m]
<1>1. cmd \in [Machine -> Command] /\ t \in Command /\ CmdOK(m)
  BY CmdTypes DEF TypeInv, DataOK
<1>2. /\ Len(sessions) \in Nat /\ DOMAIN sessions = 1..Len(sessions)
      /\ Len(sessions') \in Nat /\ DOMAIN sessions' = 1..Len(sessions')
  BY SessionTypes, LenProperties DEF SessionsGrow, TypeInv, DataOK
<1>3. t.at \in {"session", "read", "send"} /\ t.name \in Name /\ t.hash \in Bytes
         /\ t.todo \subseteq Name
  BY <1>1
  DEF ResumeUpload, InitUpload, GetUploadFails, ReadChunks, SendChunk, At, CmdOK, PushStage
<1>4. ASSUME NEW x \in Command, cmd' = [cmd EXCEPT ![m] = x], x.at \in {"read", "send"},
             x.todo = t.todo, x.name = t.name, x.hash = t.hash,
             x.upload \in DOMAIN sessions', sessions'[x.upload].name = t.name
      PROVE  cmd'[m] \in Command /\ CmdOK(m)'
  <2>1. cmd'[m] = x
    BY <1>1, <1>4
  <2> QED
    BY <1>3, <1>4, <2>1 DEF CmdOK, PullStage
<1>5. t.at \in {"read", "send"} =>
         t.upload \in DOMAIN sessions' /\ sessions'[t.upload].name = t.name
  BY <1>1, <1>2 DEF CmdOK, SessionsGrow
<1>6. ASSUME NEW id \in Nat, t.at = "session",
             cmd' = [cmd EXCEPT ![m].at = "read", ![m].upload = id],
             id \in DOMAIN sessions', sessions'[id].name = t.name
      PROVE  cmd'[m] \in Command /\ CmdOK(m)'
  <2> DEFINE x == [t EXCEPT !.at = "read", !.upload = id]
  <2>1. /\ x \in Command /\ x.at = "read" /\ x.todo = t.todo /\ x.name = t.name
        /\ x.hash = t.hash /\ x.upload = id
    BY <1>1 DEF Command, PushStage
  <2>2. cmd' = [cmd EXCEPT ![m] = x]
    BY <1>6
  <2> HIDE DEF x
  <2> QED
    BY <1>4, <1>6, <2>1, <2>2
<1>7. CASE ResumeUpload(m)
  <2> DEFINE id == record[m][t.name].upload
  <2>1. /\ t.at = "session" /\ id # 0 /\ record[m][t.name] # None
        /\ cmd' = [cmd EXCEPT ![m].at = "read", ![m].upload = id]
    BY <1>7 DEF ResumeUpload, Resumable, At
  <2>2. id \in DOMAIN sessions /\ sessions[id].name = t.name
    BY <1>3, <2>1 DEF TypeInv, RecordOK
  <2>3. id \in DOMAIN sessions' /\ id \in Nat /\ sessions'[id].name = t.name
    BY <1>2, <2>2 DEF SessionsGrow
  <2> QED
    BY <1>6, <2>1, <2>3
<1>8. CASE InitUpload(m) \/ GetUploadFails(m)
  <2> DEFINE id == Len(sessions) + 1
  <2>1. /\ t.at = "session"
        /\ OpenUpload(t.name, t.hash, ChunkCount(t.hash))
        /\ cmd' = [cmd EXCEPT ![m].at = "read", ![m].upload = id]
    BY <1>8 DEF InitUpload, GetUploadFails, NewUpload, At
  <2>2. id \in DOMAIN sessions' /\ id \in Nat /\ sessions'[id].name = t.name
    BY <1>2, <2>1 DEF OpenUpload, TypeInv, DataOK
  <2> QED
    BY <1>6, <2>1, <2>2
<1>9. CASE ReadChunks(m)
  <2> DEFINE now == local[m][t.name]
             missing == Missing(sessions[t.upload])
  <2>1. t.at = "read"
    BY <1>9 DEF ReadChunks, At
  <2>2. CASE now = None
    <3>1. cmd' = [cmd EXCEPT ![m] = Loop(m, "push")]
      BY <1>9, <2>2 DEF ReadChunks, Continue
    <3> QED
      BY <2>1, <3>1, LoopOK DEF PushStage
  <2>3. CASE now # None
    <3>1. PICK from \in [missing -> {t.hash, now}] :
             cmd' = [cmd EXCEPT ![m].at = "send",
                                ![m].buf = [i \in missing |-> Piece(from[i], i)]]
      BY <1>9, <2>3 DEF ReadChunks
    <3> DEFINE buf == [i \in missing |-> Piece(from[i], i)]
               x == [t EXCEPT !.at = "send", !.buf = buf]
    <3>2. now \in Bytes
      BY <1>3, <2>3 DEF TypeInv, DataOK, Optional
    <3>3. missing \subseteq Nat
      <4>1. sessions[t.upload].count \in Nat
        BY <1>1, <2>1, SessionTypes DEF CmdOK, TypeInv, DataOK, Session
      <4> QED
        BY <4>1 DEF Missing
    <3>4. \A i \in missing : Piece(from[i], i) \in Bytes
      BY <1>3, <3>2, <3>3, PieceBytes
    <3> HIDE DEF missing
    <3>5. buf \in [missing -> Bytes] /\ missing \in SUBSET Nat
      BY <3>3, <3>4
    <3>6. buf \in Chunks
      BY <3>5 DEF Chunks
    <3> HIDE DEF buf
    <3>7. /\ x \in Command /\ x.at = "send" /\ x.todo = t.todo /\ x.name = t.name
          /\ x.hash = t.hash /\ x.upload = t.upload
      BY <1>1, <3>6 DEF Command, PushStage
    <3>8. cmd' = [cmd EXCEPT ![m] = x]
      BY <3>1 DEF missing, buf
    <3> HIDE DEF x
    <3> QED
      BY <1>4, <1>5, <2>1, <3>7, <3>8
  <2> QED
    BY <2>2, <2>3
<1>10. ASSUME NEW i \in DOMAIN t.buf, SendChunk(m, i)
       PROVE  cmd'[m] \in Command /\ CmdOK(m)'
  <2> DEFINE buf == [j \in DOMAIN t.buf \ {i} |-> t.buf[j]]
             x == [t EXCEPT !.buf = buf]
  <2>1. t.at = "send"
    BY <1>10 DEF SendChunk, At
  <2>2. PICK D \in SUBSET Nat : t.buf \in [D -> Bytes]
    BY <1>1 DEF Command, Chunks
  <2>3. buf \in [D \ {i} -> Bytes] /\ D \ {i} \in SUBSET Nat
    BY <2>2
  <2>4. buf \in Chunks
    BY <2>3 DEF Chunks
  <2> HIDE DEF buf
  <2>5. /\ x \in Command /\ x.at = "send" /\ x.todo = t.todo /\ x.name = t.name
        /\ x.hash = t.hash /\ x.upload = t.upload
    BY <1>1, <2>1, <2>4 DEF Command
  <2>6. cmd' = [cmd EXCEPT ![m] = x]
    <3>1. cmd' = [cmd EXCEPT ![m].buf = buf]
      BY <1>10 DEF SendChunk, buf
    <3> QED
      BY <3>1
  <2> HIDE DEF x
  <2> QED
    BY <1>4, <1>5, <2>1, <2>5, <2>6
<1> QED
  BY <1>7, <1>8, <1>9, <1>10

\* pull: the next of the listed files, and the stages of a download.
LEMMA PullOK ==
  ASSUME TypeInv, RowsGrow, NEW m \in Machine,
         (\E meta \in cmd[m].todo : PullNext(m, meta)) \/ Fetch(m) \/ Install(m)
  PROVE  cmd'[m] \in Command /\ CmdOK(m)'
<1> DEFINE t == cmd[m]
<1>1. cmd \in [Machine -> Command] /\ t \in Command /\ CmdOK(m)
  BY CmdTypes DEF TypeInv, DataOK
<1>2. /\ t.at \in PullStage /\ t.upload = 0
      /\ t.todo \subseteq Meta /\ \A y \in t.todo : Exists(y.name)
  BY <1>1 DEF PullNext, Fetch, Install, At, CmdOK, PullStage
<1>3. \A y \in t.todo : Exists(y.name)'
  BY <1>2, ExistsStays DEF Meta
<1>4. ASSUME NEW x \in Command, cmd' = [cmd EXCEPT ![m] = x], x.at \in PullStage,
             x.todo \subseteq t.todo, x.upload = 0,
             x.at # "pull" => x.name \in DOMAIN PartOf /\ Exists(x.name) /\ x.hash \in Bytes
      PROVE  cmd'[m] \in Command /\ CmdOK(m)'
  <2>1. cmd'[m] = x
    BY <1>1, <1>4
  <2>2. x.at # "pull" => Exists(x.name)'
    BY <1>4, PartNames, ExistsStays
  <2> QED
    BY <1>2, <1>3, <1>4, <2>1, <2>2 DEF CmdOK, PushStage, PullStage
<1>5. CASE \E meta \in t.todo : PullNext(m, meta)
  <2>1. PICK meta \in t.todo : PullNext(m, meta)
    BY <1>5
  <2> DEFINE n == meta.name
             rest == [Loop(m, "pull") EXCEPT !.todo = @ \ {meta}]
             work == [rest EXCEPT !.name = n, !.hash = meta.hash, !.version = meta.version,
                                  !.seen = Compared(m, meta)]
             conflict == [work EXCEPT !.at = "conflict"]
             fetch == [work EXCEPT !.at = "fetch"]
  <2>2. meta \in Meta /\ Exists(n) /\ n \in Name /\ meta.hash \in Bytes /\ meta.version \in Nat
    BY <1>2, <2>1 DEF Meta
  <2>3. Compared(m, meta) \in Optional(Bytes)
    BY <2>2 DEF Compared, TypeInv, DataOK, Optional
  <2>4. rest \in Command /\ rest.at = "pull" /\ rest.todo \subseteq t.todo /\ rest.upload = 0
    <3>1. Loop(m, "pull").todo \ {meta} \in SUBSET Meta
      BY <1>2, LoopFields DEF Stage, PullStage
    <3> QED
      BY <3>1, LoopFields DEF Command, Stage, PullStage
  <2>5. \/ cmd' = [cmd EXCEPT ![m] = rest]
        \/ n \in DOMAIN PartOf /\ cmd' = [cmd EXCEPT ![m] = conflict]
        \/ n \in DOMAIN PartOf /\ cmd' = [cmd EXCEPT ![m] = fetch]
    BY <2>1 DEF PullNext
  <2> HIDE DEF rest
  <2>6. /\ work \in Command /\ work.todo \subseteq t.todo /\ work.upload = 0
        /\ work.name = n /\ work.hash = meta.hash
    BY <2>2, <2>3, <2>4 DEF Command, Optional
  <2> HIDE DEF work
  <2>7. /\ conflict \in Command /\ conflict.at = "conflict" /\ conflict.todo \subseteq t.todo
        /\ conflict.upload = 0 /\ conflict.name = n /\ conflict.hash = meta.hash
        /\ fetch \in Command /\ fetch.at = "fetch" /\ fetch.todo \subseteq t.todo
        /\ fetch.upload = 0 /\ fetch.name = n /\ fetch.hash = meta.hash
    BY <2>6 DEF Command, PullStage
  <2> HIDE DEF conflict, fetch
  <2> QED
    BY <1>4, <2>2, <2>4, <2>5, <2>7 DEF PullStage
<1>6. CASE Fetch(m) \/ Install(m)
  <2>1. /\ t.at \in {"fetch", "install"}
        /\ \/ cmd' = [cmd EXCEPT ![m] = Loop(m, "pull")]
           \/ cmd' = [cmd EXCEPT ![m].at = "install"]
           \/ cmd' = [cmd EXCEPT ![m].at = "save"]
    BY <1>6 DEF Fetch, Install, Continue, At
  <2>2. t.name \in DOMAIN PartOf /\ Exists(t.name) /\ t.hash \in Bytes
    BY <1>1, <2>1 DEF CmdOK
  <2>3. ASSUME NEW at \in {"install", "save"}, cmd' = [cmd EXCEPT ![m].at = at]
        PROVE  cmd'[m] \in Command /\ CmdOK(m)'
    <3> DEFINE x == [t EXCEPT !.at = at]
    <3>1. /\ x \in Command /\ x.at = at /\ x.todo = t.todo /\ x.upload = 0
          /\ x.name = t.name /\ x.hash = t.hash
      BY <1>1, <1>2 DEF Command, PullStage
    <3>2. cmd' = [cmd EXCEPT ![m] = x]
      BY <2>3
    <3> HIDE DEF x
    <3> QED
      BY <1>4, <2>2, <3>1, <3>2 DEF PullStage
  <2>4. CASE cmd' = [cmd EXCEPT ![m] = Loop(m, "pull")]
    BY <1>2, <2>4, LoopOK
  <2> QED
    BY <2>1, <2>3, <2>4
<1> QED
  BY <1>5, <1>6

LEMMA CmdSelf ==
  ASSUME TypeInv, RowsGrow, SessionsGrow, NEW m \in Machine, MachineStep(m)
  PROVE  cmd'[m] \in Command /\ CmdOK(m)'
<1>1. cmd \in [Machine -> Command] /\ cmd[m] \in Command
  BY CmdTypes DEF TypeInv, DataOK
<1>2. CASE StartPush(m) \/ StartPull(m)
  BY <1>2, StartOK
<1>3. CASE \/ \E n \in Name : PushNext(m, n) \/ DeleteNext(m, n) \/ DeleteFails(m, n)
           \/ StartDeletions(m)
  BY <1>3, PushLoopOK
<1>4. CASE \/ ResumeUpload(m) \/ InitUpload(m) \/ GetUploadFails(m) \/ ReadChunks(m)
           \/ \E i \in DOMAIN cmd[m].buf : SendChunk(m, i)
  BY <1>4, UploadOK
<1>5. CASE (\E meta \in cmd[m].todo : PullNext(m, meta)) \/ Fetch(m) \/ Install(m)
  BY <1>5, PullOK
<1>6. CASE \/ CreateFile(m) \/ CreateFileFails(m) \/ InitUploadFails(m)
           \/ Finalize(m) \/ FinalizeFails(m)
           \/ \E i \in DOMAIN cmd[m].buf : SendChunkFails(m, i)
  <2>1. /\ cmd[m].at \in PushStage
        /\ \E next \in {Loop(m, "push"), Idle} : cmd' = [cmd EXCEPT ![m] = next]
    BY <1>6
    DEF CreateFile, CreateFileFails, InitUploadFails, Finalize, FinalizeFails,
        SendChunkFails, Mishap, Continue, At, PushStage
  <2> QED
    BY <2>1, LoopOK
<1>7. CASE SaveConflict(m) \/ FetchFails(m) \/ SaveRecord(m)
  <2>1. /\ cmd[m].at \in PullStage
        /\ \E next \in {Loop(m, "pull"), Idle} : cmd' = [cmd EXCEPT ![m] = next]
    BY <1>7 DEF SaveConflict, FetchFails, SaveRecord, Mishap, Continue, At, PullStage
  <2> QED
    BY <2>1, LoopOK
<1>8. CASE Finish(m) \/ Kill(m)
  <2>1. cmd[m].at # "idle" /\ cmd' = [cmd EXCEPT ![m] = Idle]
    BY <1>8 DEF Finish, Kill, At
  <2>2. cmd[m].at \in PushStage \/ cmd[m].at \in PullStage
    BY <1>1, <2>1 DEF Command
  <2> QED
    BY <2>1, <2>2, LoopOK
<1>9. CASE \E n \in Written, c \in Content \cup {None} : Edit(m, n, c)
  <2>1. cmd'[m] = cmd[m]
    BY <1>9 DEF Edit
  <2> QED
    BY <1>1, <2>1, CmdStays
<1> QED
  BY <1>2, <1>3, <1>4, <1>5, <1>6, <1>7, <1>8, <1>9 DEF MachineStep, Step, PushStep, PullStep, Fails

LEMMA CmdOthers ==
  ASSUME TypeInv, NEW m \in Machine, MachineStep(m)
  PROVE  \E x : cmd' = [cmd EXCEPT ![m] = x]
<1>1. cmd \in [Machine -> Command]
  BY DEF TypeInv, DataOK
<1>2. CASE \/ StartPush(m) \/ StartPull(m) \/ Finish(m)
           \/ (\E n \in Written, c \in Content \cup {None} : Edit(m, n, c))
  BY <1>1, <1>2 DEF StartPush, StartPull, Finish, Edit
<1>3. CASE Fails(m)
  BY <1>1, <1>3
  DEF Fails, Kill, CreateFileFails, GetUploadFails, NewUpload, InitUploadFails,
      FinalizeFails, FetchFails, SendChunkFails, DeleteFails, Mishap
<1>4. CASE PullStep(m)
  BY <1>1, <1>4 DEF PullStep, PullNext, SaveConflict, Fetch, Install, SaveRecord, Continue
<1>5. CASE PushStep(m)
  BY <1>1, <1>5
  DEF PushStep, PushNext, DeleteNext, CreateFile, ResumeUpload, InitUpload, NewUpload,
      ReadChunks, SendChunk, Finalize, StartDeletions, Continue
<1> QED
  BY <1>2, <1>3, <1>4, <1>5 DEF MachineStep, Step

LEMMA TypeInvStep == TypeInv /\ [Next]_vars => TypeInv'
<1> SUFFICES ASSUME TypeInv, [Next]_vars PROVE TypeInv'
  OBVIOUS
<1>1. ASSUME NEW m \in Machine, MachineStep(m) PROVE TypeInv'
  <2>1. RowsGrow /\ SessionsGrow
    BY <1>1, RowsGrowStep, SessionsGrowStep
  <2>2. /\ local' \in [Machine -> [Name -> Optional(Bytes)]]
        /\ copies' \in [Machine -> SUBSET Bytes]
        /\ record' \in [Machine -> [Name -> Optional(Record)]]
        /\ \A v \in Machine, n \in Name : RecordOK(v, n)'
    BY <1>1, <2>1, LocalTypesStep, CopiesTypesStep, RecordTypesStep
  <2>3. cmd'[m] \in Command /\ CmdOK(m)'
    BY <1>1, <2>1, CmdSelf
  <2>4. cmd \in [Machine -> Command]
    BY DEF TypeInv, DataOK
  <2>5. PICK x : cmd' = [cmd EXCEPT ![m] = x]
    BY <1>1, CmdOthers
  <2>6. cmd' \in [Machine -> Command] /\ \A v \in Machine : v # m => cmd'[v] = cmd[v]
    BY <2>3, <2>4, <2>5
  <2>7. \A v \in Machine : CmdOK(v)'
    BY <2>1, <2>3, <2>6, CmdStays
  <2> QED
    BY <2>1, <2>2, <2>6, <2>7 DEF TypeInv, DataOK, RowsGrow, SessionsGrow
<1>2. CASE UNCHANGED vars
  BY <1>2 DEF vars, TypeInv, DataOK, RecordOK, CmdOK, Exists
<1> QED
  BY <1>1, <1>2, StepCases

LEMMA TypeInvInit == Init => TypeInv
<1> SUFFICES ASSUME Init PROVE TypeInv
  OBVIOUS
<1>1. rows \in [Name -> Row]
  BY EmptySeq DEF Init, Row
<1>2. sessions \in Seq(Session)
  BY EmptySeq DEF Init
<1>3. cmd \in [Machine -> Command] /\ \A m \in Machine : cmd[m] = Idle
  BY IdleFields DEF Init
<1>4. \A m \in Machine : CmdOK(m)
  BY <1>3, IdleFields DEF CmdOK, PushStage, PullStage
<1> QED
  BY <1>1, <1>2, <1>3, <1>4 DEF Init, TypeInv, DataOK, RecordOK, Optional

\* Machines that push, pull, fail and are edited in any order keep their tables
\* well typed, and use an upload only for the file it was opened for.
THEOREM TypeCorrect == Spec => []TypeOK
<1>1. TypeInv => TypeOK
  <2> SUFFICES ASSUME TypeInv PROVE TypeOK
    OBVIOUS
  <2>1. ASSUME NEW id \in DOMAIN sessions
        PROVE  sessions[id].name \in Name /\ sessions[id].count > 0
    BY SessionTypes DEF TypeInv, DataOK, Session
  <2>2. ASSUME NEW m \in Machine, cmd[m].upload # 0
        PROVE  sessions[cmd[m].upload].name = cmd[m].name
    BY <2>2, CmdTypes DEF CmdOK
  <2> QED
    BY <2>1, <2>2 DEF TypeInv, DataOK, RecordOK, TypeOK
<1> QED
  BY <1>1, TypeInvInit, TypeInvStep, PTL DEF Spec

-----------------------------------------------------------------------------
(* Where a command's file and hash come from.                              *)

WorkStage == {"conflict", "fetch", "install", "save"}

PullsNext(m, meta) ==
    /\ cmd'[m].at \in {"conflict", "fetch"}
    /\ cmd'[m].at = "fetch" => ~Changed(m, meta)
    /\ cmd'[m].name = meta.name /\ cmd'[m].hash = meta.hash
    /\ cmd'[m].version = meta.version /\ cmd'[m].seen = Compared(m, meta)

GoesOn(m) ==
    /\ cmd[m].at \in WorkStage /\ cmd'[m].at \in WorkStage
    /\ cmd'[m].at = "fetch" => cmd[m].at = "fetch"
    /\ cmd'[m].at = "install" => cmd[m].at \in {"fetch", "install"}
    /\ cmd'[m].name = cmd[m].name /\ cmd'[m].hash = cmd[m].hash
    /\ cmd'[m].version = cmd[m].version /\ cmd'[m].seen = cmd[m].seen

LEMMA LoopMoves ==
  ASSUME TypeInv, NEW m \in Machine, NEW at \in {"push", "pull"},
         NEW next \in {Loop(m, at), Idle}, cmd' = [cmd EXCEPT ![m] = next]
  PROVE  /\ cmd'[m].at \in {at, "idle"}
         /\ cmd'[m].at = at => cmd'[m].todo = cmd[m].todo
<1>1. cmd'[m] = next
  BY DEF TypeInv, DataOK
<1>2. Loop(m, at).at = at /\ Loop(m, at).todo = cmd[m].todo
  BY LoopFields DEF Stage, PushStage, PullStage
<1> QED
  BY <1>1, <1>2, IdleFields

LEMMA PullNextMoves ==
  ASSUME TypeInv, NEW m \in Machine, NEW meta \in cmd[m].todo, PullNext(m, meta)
  PROVE  /\ cmd'[m].todo \subseteq cmd[m].todo
         /\ cmd'[m].at = "pull" \/ PullsNext(m, meta)
<1> DEFINE rest == [Loop(m, "pull") EXCEPT !.todo = @ \ {meta}]
           work == [rest EXCEPT !.name = meta.name, !.hash = meta.hash,
                                !.version = meta.version, !.seen = Compared(m, meta)]
           conflict == [work EXCEPT !.at = "conflict"]
           fetch == [work EXCEPT !.at = "fetch"]
<1>1. cmd \in [Machine -> Command] /\ Loop(m, "pull") \in Command
        /\ Loop(m, "pull").at = "pull" /\ Loop(m, "pull").todo = cmd[m].todo
  BY LoopFields DEF TypeInv, DataOK, Stage, PullStage
<1>2. /\ rest.at = "pull" /\ rest.todo \subseteq cmd[m].todo
      /\ DOMAIN rest = DOMAIN Idle
  BY <1>1 DEF Command, Idle
<1> HIDE DEF rest
<1>3. /\ work.name = meta.name /\ work.hash = meta.hash
      /\ work.version = meta.version /\ work.seen = Compared(m, meta)
      /\ work.todo = rest.todo /\ DOMAIN work = DOMAIN Idle
  BY <1>2 DEF Idle
<1> HIDE DEF work
<1>4. /\ conflict.at = "conflict" /\ conflict.name = meta.name /\ conflict.hash = meta.hash
      /\ conflict.version = meta.version /\ conflict.seen = Compared(m, meta)
      /\ conflict.todo = rest.todo
      /\ fetch.at = "fetch" /\ fetch.name = meta.name /\ fetch.hash = meta.hash
      /\ fetch.version = meta.version /\ fetch.seen = Compared(m, meta)
      /\ fetch.todo = rest.todo
  BY <1>3 DEF Idle
<1>5. \/ cmd' = [cmd EXCEPT ![m] = rest]
      \/ cmd' = [cmd EXCEPT ![m] = conflict]
      \/ ~Changed(m, meta) /\ cmd' = [cmd EXCEPT ![m] = fetch]
  BY DEF PullNext, rest, work
<1> HIDE DEF conflict, fetch
<1>6. cmd'[m] = rest \/ cmd'[m] = conflict \/ (~Changed(m, meta) /\ cmd'[m] = fetch)
  BY <1>1, <1>5
<1> QED
  BY <1>2, <1>4, <1>6 DEF PullsNext

\* Where the other stages lead.
LEMMA StartMoves ==
  ASSUME TypeInv, NEW m \in Machine
  PROVE  /\ StartPush(m) => cmd'[m].at = "push"
         /\ StartPull(m) => cmd'[m].at = "pull" /\ cmd'[m].todo = Listed
         /\ Finish(m) \/ Kill(m) => cmd'[m].at = "idle"
<1>1. cmd \in [Machine -> Command]
  BY DEF TypeInv, DataOK
<1>2. \A s, S : /\ [Idle EXCEPT !.at = s, !.todo = S].at = s
               /\ [Idle EXCEPT !.at = s, !.todo = S].todo = S
  BY DEF Idle
<1>3. ASSUME StartPush(m) PROVE cmd'[m].at = "push"
  <2>1. cmd'[m] = [Idle EXCEPT !.at = "push", !.todo = Scanned(m)]
    BY <1>1, <1>3 DEF StartPush
  <2> QED
    BY <1>2, <2>1
<1>4. ASSUME StartPull(m) PROVE cmd'[m].at = "pull" /\ cmd'[m].todo = Listed
  <2>1. cmd'[m] = [Idle EXCEPT !.at = "pull", !.todo = Listed]
    BY <1>1, <1>4 DEF StartPull
  <2> QED
    BY <1>2, <2>1
<1>5. ASSUME Finish(m) \/ Kill(m) PROVE cmd'[m].at = "idle"
  BY <1>1, <1>5, IdleFields DEF Finish, Kill
<1> QED
  BY <1>3, <1>4, <1>5

LEMMA PushNextMoves ==
  ASSUME TypeInv, NEW m \in Machine, NEW n \in Name, PushNext(m, n)
  PROVE  \/ cmd'[m].at \in {"idle", "push"}
         \/ /\ cmd'[m].at \in {"create", "session"}
            /\ local[m][n] # None /\ cmd'[m].name = n /\ cmd'[m].hash = local[m][n]
<1> DEFINE hash == local[m][n]
           rest == [Loop(m, "push") EXCEPT !.todo = @ \ {n}]
           stage == IF Len(hash) < ChunkSize THEN "create" ELSE "session"
           work == [rest EXCEPT !.name = n, !.hash = hash]
           x == [work EXCEPT !.at = stage]
<1>1. cmd \in [Machine -> Command]
  BY DEF TypeInv, DataOK
<1>2. rest.at = "push" /\ DOMAIN rest = DOMAIN Idle
  BY LoopFields DEF Stage, PushStage, Command, Idle
<1>3. \/ cmd' = [cmd EXCEPT ![m] = Idle]
      \/ cmd' = [cmd EXCEPT ![m] = rest]
      \/ hash # None /\ cmd' = [cmd EXCEPT ![m] = x]
  BY DEF PushNext
<1> HIDE DEF rest
<1>4. work.name = n /\ work.hash = hash /\ DOMAIN work = DOMAIN Idle
  BY <1>2 DEF Idle
<1> HIDE DEF work
<1>5. x.at = stage /\ x.name = n /\ x.hash = hash
  BY <1>4 DEF Idle
<1> HIDE DEF x
<1>6. cmd'[m] = Idle \/ cmd'[m] = rest \/ (hash # None /\ cmd'[m] = x)
  BY <1>1, <1>3
<1> QED
  BY <1>2, <1>5, <1>6, IdleFields

LEMMA UploadMoves ==
  ASSUME TypeInv, NEW m \in Machine,
         \/ (\E n \in Name : DeleteNext(m, n) \/ DeleteFails(m, n))
         \/ StartDeletions(m) \/ ResumeUpload(m) \/ InitUpload(m) \/ GetUploadFails(m)
         \/ ReadChunks(m)
         \/ \E i \in DOMAIN cmd[m].buf : SendChunk(m, i)
  PROVE  /\ cmd'[m].at \in {"idle", "push", "read", "send", "delete"}
         /\ cmd'[m].at \in {"read", "send"} => cmd[m].at \in {"session", "read", "send"}
<1>1. cmd \in [Machine -> Command] /\ cmd[m] \in Command
  BY CmdTypes DEF TypeInv, DataOK
<1>2. \A s : [cmd[m] EXCEPT !.at = s].at = s
  BY <1>1 DEF Command
<1>3. CASE \E n \in Name : DeleteNext(m, n) \/ DeleteFails(m, n)
  <2>1. PICK n \in Name : DeleteNext(m, n) \/ DeleteFails(m, n)
    BY <1>3
  <2>2. cmd[m].at = "delete"
    BY <2>1 DEF DeleteNext, DeleteFails, At
  <2>3. cmd'[m] = Idle \/ cmd'[m] = [cmd[m] EXCEPT !.todo = @ \ {n}]
    BY <1>1, <2>1 DEF DeleteNext, DeleteFails
  <2> QED
    BY <1>1, <2>2, <2>3, IdleFields DEF Command
<1>4. CASE StartDeletions(m)
  <2>1. cmd'[m] = [cmd[m] EXCEPT !.at = "delete", !.todo = {n \in Name : record[m][n] # None}]
    BY <1>1, <1>4 DEF StartDeletions
  <2> QED
    BY <1>1, <2>1 DEF Command
<1>5. CASE ResumeUpload(m) \/ InitUpload(m) \/ GetUploadFails(m)
  <2>1. \E id : cmd'[m] = [cmd[m] EXCEPT !.at = "read", !.upload = id]
    BY <1>1, <1>5 DEF ResumeUpload, InitUpload, GetUploadFails, NewUpload
  <2> QED
    BY <1>1, <1>5, <2>1 DEF Command, ResumeUpload, InitUpload, GetUploadFails, At
<1>6. CASE ReadChunks(m)
  <2>1. \/ cmd' = [cmd EXCEPT ![m] = Loop(m, "push")]
        \/ \E buf : cmd'[m] = [cmd[m] EXCEPT !.at = "send", !.buf = buf]
    BY <1>1, <1>6 DEF ReadChunks, Continue
  <2>2. \A buf : [cmd[m] EXCEPT !.at = "send", !.buf = buf].at = "send"
    BY <1>1 DEF Command
  <2>3. cmd[m].at = "read"
    BY <1>6 DEF ReadChunks, At
  <2>4. CASE cmd' = [cmd EXCEPT ![m] = Loop(m, "push")]
    BY <2>4, LoopMoves
  <2> QED
    BY <2>1, <2>2, <2>3, <2>4
<1>7. CASE \E i \in DOMAIN cmd[m].buf : SendChunk(m, i)
  <2>1. cmd[m].at = "send" /\ \E buf : cmd'[m] = [cmd[m] EXCEPT !.buf = buf]
    BY <1>1, <1>7 DEF SendChunk, At
  <2> QED
    BY <1>1, <2>1 DEF Command
<1> QED
  BY <1>3, <1>4, <1>5, <1>6, <1>7

LEMMA PushFailMoves ==
  ASSUME TypeInv, NEW m \in Machine,
         \/ CreateFile(m) \/ CreateFileFails(m) \/ InitUploadFails(m)
         \/ Finalize(m) \/ FinalizeFails(m)
         \/ \E i \in DOMAIN cmd[m].buf : SendChunkFails(m, i)
  PROVE  cmd'[m].at \in {"idle", "push"}
<1>1. \E next \in {Loop(m, "push"), Idle} : cmd' = [cmd EXCEPT ![m] = next]
  BY DEF CreateFile, CreateFileFails, InitUploadFails, Finalize, FinalizeFails,
         SendChunkFails, Mishap, Continue
<1> QED
  BY <1>1, LoopMoves

LEMMA DownloadMoves ==
  ASSUME TypeInv, NEW m \in Machine,
         SaveConflict(m) \/ FetchFails(m) \/ SaveRecord(m) \/ Fetch(m) \/ Install(m)
  PROVE  /\ cmd[m].at \in PullStage
         /\ \/ cmd'[m].at = "idle"
            \/ cmd'[m].todo = cmd[m].todo /\ (cmd'[m].at = "pull" \/ GoesOn(m))
<1>1. cmd \in [Machine -> Command] /\ cmd[m] \in Command
  BY CmdTypes DEF TypeInv, DataOK
<1>2. cmd[m].at \in PullStage
  BY DEF SaveConflict, FetchFails, SaveRecord, Fetch, Install, At, PullStage
<1>3. \/ \E next \in {Loop(m, "pull"), Idle} : cmd' = [cmd EXCEPT ![m] = next]
      \/ At(m, "fetch") /\ cmd' = [cmd EXCEPT ![m].at = "install"]
      \/ At(m, "install") /\ cmd' = [cmd EXCEPT ![m].at = "save"]
  BY DEF SaveConflict, FetchFails, SaveRecord, Fetch, Install, Mishap, Continue
<1>4. CASE \E next \in {Loop(m, "pull"), Idle} : cmd' = [cmd EXCEPT ![m] = next]
  BY <1>2, <1>4, LoopMoves
<1>5. CASE At(m, "fetch") /\ cmd' = [cmd EXCEPT ![m].at = "install"]
  <2>1. cmd'[m] = [cmd[m] EXCEPT !.at = "install"]
    BY <1>1, <1>5
  <2> QED
    BY <1>1, <1>2, <1>5, <2>1 DEF GoesOn, WorkStage, At, Command
<1>6. CASE At(m, "install") /\ cmd' = [cmd EXCEPT ![m].at = "save"]
  <2>1. cmd'[m] = [cmd[m] EXCEPT !.at = "save"]
    BY <1>1, <1>6
  <2> QED
    BY <1>1, <1>2, <1>6, <2>1 DEF GoesOn, WorkStage, At, Command
<1> QED
  BY <1>3, <1>4, <1>5, <1>6

\* A file that pull works on was listed, and compared when its turn came.
LEMMA PullMoves ==
  ASSUME TypeInv, NEW m \in Machine, MachineStep(m), cmd'[m].at \in PullStage
  PROVE  \/ StartPull(m) /\ cmd'[m].at = "pull" /\ cmd'[m].todo = Listed
         \/ /\ cmd[m].at \in PullStage
            /\ cmd'[m].todo \subseteq cmd[m].todo
            /\ \/ cmd'[m].at = "pull"
               \/ GoesOn(m)
               \/ \E meta \in cmd[m].todo : PullNext(m, meta) /\ PullsNext(m, meta)
<1>1. CASE \E meta \in cmd[m].todo : PullNext(m, meta)
  <2>1. cmd[m].at \in PullStage
    BY <1>1 DEF PullNext, At, PullStage
  <2> QED
    BY <1>1, <2>1, PullNextMoves
<1>2. CASE \E n \in Written, c \in Content \cup {None} : Edit(m, n, c)
  <2>1. cmd' = cmd
    BY <1>2 DEF Edit
  <2> QED
    BY <2>1 DEF GoesOn, WorkStage, PullStage
<1>3. CASE \E n \in Name : PushNext(m, n)
  BY <1>3, PushNextMoves DEF PullStage
<1> QED
  BY <1>1, <1>2, <1>3, StartMoves, UploadMoves, PushFailMoves, DownloadMoves
  DEF MachineStep, Step, PushStep, PullStep, Fails, PullStage

\* A file that is about to be put or to be uploaded has just been read.
LEMMA PushMoves ==
  ASSUME TypeInv, NEW m \in Machine, MachineStep(m), cmd'[m].at \in {"create", "session"}
  PROVE  \/ cmd'[m] = cmd[m]
         \/ /\ cmd'[m].name \in Name /\ local[m][cmd'[m].name] # None
            /\ cmd'[m].hash = local[m][cmd'[m].name]
<1>1. CASE \E n \in Name : PushNext(m, n)
  BY <1>1, PushNextMoves
<1>2. CASE \E n \in Written, c \in Content \cup {None} : Edit(m, n, c)
  BY <1>2 DEF Edit
<1>3. CASE \E meta \in cmd[m].todo : PullNext(m, meta)
  BY <1>3, PullNextMoves DEF PullsNext
<1> QED
  BY <1>1, <1>2, <1>3, StartMoves, UploadMoves, PushFailMoves, DownloadMoves
  DEF MachineStep, Step, PushStep, PullStep, Fails, GoesOn, WorkStage

-----------------------------------------------------------------------------
(* Files are whole: every content under a name that users write, wherever it *)
(* is kept on its way between two machines, is one that a user wrote.         *)

WholeLogs == \A n \in Written : \A i \in 1..Len(rows[n].log) : rows[n].log[i] \in Content

WholeUploads ==
    \A id \in 1..Len(sessions) : sessions[id].name \in Written => sessions[id].content \in Content

WholeDisks == \A m \in Machine, n \in Written : local[m][n] \in Optional(Content)

WholeCmd(m) ==
    /\ cmd[m].at \in {"create", "session"} /\ cmd[m].name \in Written => cmd[m].hash \in Content
    /\ cmd[m].at \in PullStage =>
          \A x \in cmd[m].todo : x.name \in Written => x.hash \in Content
    /\ cmd[m].at \in WorkStage => cmd[m].hash \in Content

WholeInv ==
    WholeLogs /\ WholeUploads /\ WholeDisks /\ \A m \in Machine : WholeCmd(m)

LEMMA PutsWhole ==
  ASSUME TypeInv, WholeInv, NEW m \in Machine, NEW n \in Written, NEW c, PutBy(m, n, c)
  PROVE  c \in Content
<1>1. CASE At(m, "create") /\ n = cmd[m].name /\ c = cmd[m].hash
  BY <1>1 DEF WholeInv, WholeCmd, At
<1>2. CASE At(m, "send") /\ n = sessions[cmd[m].upload].name
           /\ c = sessions[cmd[m].upload].content
  <2>1. cmd[m].upload \in 1..Len(sessions)
    BY <1>2, CmdTypes, SessionTypes DEF CmdOK, At, TypeInv, DataOK
  <2> QED
    BY <1>2, <2>1 DEF WholeInv, WholeUploads
<1> QED
  BY <1>1, <1>2 DEF PutBy

LEMMA WholeLogsStep ==
  ASSUME TypeInv, WholeInv, NEW m \in Machine, MachineStep(m)
  PROVE  WholeLogs'
<1> SUFFICES ASSUME NEW n \in Written, NEW i \in 1..Len(rows'[n].log)
             PROVE  rows'[n].log[i] \in Content
  BY DEF WholeLogs
<1>1. rows \in [Name -> Row] /\ n \in Name
  BY PartNames DEF TypeInv, DataOK
<1>2. \A j \in 1..Len(rows[n].log) : rows[n].log[j] \in Content
  BY DEF WholeInv, WholeLogs
<1>3. CASE rows' = rows
  BY <1>2, <1>3
<1>4. CASE \E x \in Name : MarkDeleted(x)
  BY <1>1, <1>2, <1>4, MarkFacts
<1>5. CASE \E x \in Name, c \in Bytes : PutBy(m, x, c) /\ Put(x, c)
  <2>1. PICK x \in Name, c \in Bytes : PutBy(m, x, c) /\ Put(x, c)
    BY <1>5
  <2>2. CASE x # n
    BY <1>1, <1>2, <2>1, <2>2, PutFacts
  <2>3. CASE x = n
    <3>1. c \in Content
      BY <2>1, <2>3, PutsWhole
    <3>2. /\ Len(rows[n].log) \in Nat /\ Len(rows'[n].log) = Len(rows[n].log) + 1
          /\ rows'[n].log[Len(rows[n].log) + 1] = c
          /\ \A j \in 1..Len(rows[n].log) : rows'[n].log[j] = rows[n].log[j]
      BY <1>1, <2>1, <2>3, PutFacts, LogTypes
    <3>3. i \in 1..Len(rows[n].log) \/ i = Len(rows[n].log) + 1
      BY <3>2
    <3> QED
      BY <1>2, <3>1, <3>2, <3>3
  <2> QED
    BY <2>2, <2>3
<1> QED
  BY <1>3, <1>4, <1>5, RowsStep

LEMMA WholeUploadsStep ==
  ASSUME TypeInv, WholeInv, NEW m \in Machine, MachineStep(m)
  PROVE  WholeUploads'
<1> SUFFICES ASSUME NEW id \in 1..Len(sessions'), sessions'[id].name \in Written
             PROVE  sessions'[id].content \in Content
  BY DEF WholeUploads
<1>1. /\ SessionsGrow /\ sessions \in Seq(Session) /\ Len(sessions) \in Nat
      /\ \A k \in 1..Len(sessions) :
            sessions[k].name \in Written => sessions[k].content \in Content
  BY SessionsGrowStep, SessionTypes DEF TypeInv, DataOK, WholeInv, WholeUploads
<1>2. CASE id \in 1..Len(sessions)
  BY <1>1, <1>2 DEF SessionsGrow
<1>3. CASE id \notin 1..Len(sessions)
  <2>1. At(m, "session") /\ OpenUpload(cmd[m].name, cmd[m].hash, ChunkCount(cmd[m].hash))
    <3>1. CASE sessions' = sessions
      BY <1>3, <3>1
    <3>2. CASE \E i \in DOMAIN cmd[m].buf : StoreChunk(cmd[m].upload, i, cmd[m].buf[i])
      BY <1>1, <1>3, <3>2 DEF StoreChunk
    <3>3. CASE sessions' = [sessions EXCEPT ![cmd[m].upload].live = FALSE]
      BY <1>1, <1>3, <3>3
    <3> QED
      BY <3>1, <3>2, <3>3, SessionsStep
  <2>2. sessions'[id].name = cmd[m].name /\ sessions'[id].content = cmd[m].hash
    <3> DEFINE s == [name |-> cmd[m].name, content |-> cmd[m].hash,
                     count |-> ChunkCount(cmd[m].hash), got |-> <<>>, live |-> TRUE]
    <3>1. sessions' = Append(sessions, s)
      BY <2>1 DEF OpenUpload
    <3>2. s.name = cmd[m].name /\ s.content = cmd[m].hash
      OBVIOUS
    <3> HIDE DEF s
    <3>3. Len(sessions') = Len(sessions) + 1 /\ sessions'[Len(sessions) + 1] = s
      BY <1>1, <3>1
    <3>4. id = Len(sessions) + 1
      BY <1>1, <1>3, <3>3
    <3> QED
      BY <3>2, <3>3, <3>4
  <2> QED
    BY <2>1, <2>2 DEF WholeInv, WholeCmd, At
<1> QED
  BY <1>2, <1>3

LEMMA WholeDisksStep ==
  ASSUME TypeInv, WholeInv, NEW m \in Machine, MachineStep(m)
  PROVE  WholeDisks'
<1> SUFFICES ASSUME NEW v \in Machine, NEW n \in Written
             PROVE  local'[v][n] \in Optional(Content)
  BY DEF WholeDisks
<1>1. /\ local \in [Machine -> [Name -> Optional(Bytes)]] /\ n \in Name
      /\ local[v][n] \in Optional(Content)
  BY PartNames DEF TypeInv, DataOK, WholeInv, WholeDisks
<1>2. CASE local' = local
  BY <1>1, <1>2
<1>3. CASE \E x \in Written, c \in Content \cup {None} : UserEdits(m, x, c)
  BY <1>1, <1>3, PartNames DEF UserEdits, Optional
<1>4. CASE At(m, "fetch") \/ At(m, "install")
  <2>1. /\ cmd[m].name \in DOMAIN PartOf /\ PartOf[cmd[m].name] \in Name
        /\ PartOf[cmd[m].name] # n /\ cmd[m].hash \in Content
    BY <1>4, FetchTypes DEF At, WholeInv, WholeCmd, WorkStage
  <2>2. CASE \E bytes \in Bytes : Downloads(m, bytes)
    BY <1>1, <2>1, <2>2 DEF Downloads
  <2>3. CASE DropsPart(m)
    BY <1>1, <2>1, <2>3 DEF DropsPart
  <2>4. CASE TakesPart(m)
    BY <1>1, <2>1, <2>4, PartNames DEF TakesPart, Optional
  <2> QED
    BY <1>2, <1>3, <2>2, <2>3, <2>4, LocalStep
<1> QED
  BY <1>2, <1>3, <1>4, LocalStep DEF Downloads, DropsPart, TakesPart

LEMMA WholeCmdStep ==
  ASSUME TypeInv, TypeInv', WholeInv, NEW m \in Machine, MachineStep(m),
         NEW v \in Machine
  PROVE  WholeCmd(v)'
<1>1. WholeCmd(m) /\ WholeCmd(v) /\ cmd \in [Machine -> Command]
  BY DEF WholeInv, TypeInv, DataOK
<1>2. CASE v # m
  <2>1. cmd'[v] = cmd[v]
    BY <1>1, <1>2, CmdOthers
  <2> QED
    BY <1>1, <2>1 DEF WholeCmd
<1>3. ASSUME cmd'[m].at \in {"create", "session"}, cmd'[m].name \in Written
      PROVE  cmd'[m].hash \in Content
  BY <1>1, <1>3, PushMoves DEF WholeCmd, WholeInv, WholeDisks, Optional
<1>4. ASSUME cmd'[m].at \in PullStage, NEW x \in cmd'[m].todo, x.name \in Written
      PROVE  x.hash \in Content
  <2>1. CASE cmd'[m].todo = Listed
    <3>1. PICK n \in Name : Exists(n) /\ x.name = n /\ x.hash = Last(rows[n].log)
      BY <1>4, <2>1 DEF Listed
    <3>2. /\ Len(rows[n].log) \in 1..Len(rows[n].log)
          /\ Last(rows[n].log) = rows[n].log[Len(rows[n].log)]
      BY <3>1, LogTypes DEF TypeInv, DataOK
    <3> QED
      BY <1>4, <3>1, <3>2 DEF WholeInv, WholeLogs
  <2>2. CASE cmd[m].at \in PullStage /\ cmd'[m].todo \subseteq cmd[m].todo
    BY <1>1, <1>4, <2>2 DEF WholeCmd
  <2> QED
    BY <1>4, <2>1, <2>2, PullMoves
<1>5. ASSUME cmd'[m].at \in WorkStage
      PROVE  cmd'[m].hash \in Content
  <2>1. cmd'[m].at \in PullStage /\ cmd'[m].at # "pull"
    BY <1>5 DEF WorkStage, PullStage
  <2>2. CASE GoesOn(m)
    BY <1>1, <2>2 DEF GoesOn, WholeCmd
  <2>3. CASE cmd[m].at \in PullStage /\ \E meta \in cmd[m].todo : PullsNext(m, meta)
    <3>1. PICK meta \in cmd[m].todo : PullsNext(m, meta)
      BY <2>3
    <3>2. cmd'[m].name \in Written
      BY <1>5, PartNames DEF TypeInv, CmdOK, WorkStage
    <3> QED
      BY <1>1, <2>3, <3>1, <3>2 DEF PullsNext, WholeCmd
  <2> QED
    BY <2>1, <2>2, <2>3, PullMoves
<1>6. CASE v = m
  BY <1>3, <1>4, <1>5, <1>6 DEF WholeCmd
<1> QED
  BY <1>2, <1>6

LEMMA WholeInvInit == Init => WholeInv
<1> SUFFICES ASSUME Init PROVE WholeInv
  OBVIOUS
<1>1. WholeLogs
  BY PartNames DEF Init, WholeLogs
<1>2. WholeUploads
  BY DEF Init, WholeUploads
<1>3. WholeDisks
  BY PartNames DEF Init, WholeDisks, Optional
<1>4. ASSUME NEW m \in Machine PROVE WholeCmd(m)
  <2>1. cmd[m].at = "idle"
    BY IdleFields DEF Init
  <2> QED
    BY <2>1 DEF WholeCmd, PullStage, WorkStage
<1> QED
  BY <1>1, <1>2, <1>3, <1>4 DEF WholeInv

LEMMA WholeInvStep == TypeInv /\ TypeInv' /\ WholeInv /\ [Next]_vars => WholeInv'
<1> SUFFICES ASSUME TypeInv, TypeInv', WholeInv, [Next]_vars PROVE WholeInv'
  OBVIOUS
<1>1. CASE \E m \in Machine : MachineStep(m)
  <2>1. PICK m \in Machine : MachineStep(m)
    BY <1>1
  <2>2. WholeLogs' /\ WholeUploads' /\ WholeDisks'
    BY <2>1, WholeLogsStep, WholeUploadsStep, WholeDisksStep
  <2>3. \A v \in Machine : WholeCmd(v)'
    BY <2>1, WholeCmdStep
  <2> QED
    BY <2>2, <2>3 DEF WholeInv
<1>2. CASE UNCHANGED vars
  BY <1>2 DEF vars, WholeInv, WholeLogs, WholeUploads, WholeDisks, WholeCmd
<1> QED
  BY <1>1, <1>2, StepCases

\* Chunks read while the user writes, resumed uploads and resumed downloads
\* never pass for a whole file.
THEOREM FilesStayWhole == Spec => []WholeFiles
<1>1. TypeInv /\ WholeInv => WholeFiles
  <2> SUFFICES ASSUME TypeInv, WholeInv, NEW n \in Written
               PROVE  /\ ToSet(rows[n].log) \subseteq Content
                      /\ \A m \in Machine : local[m][n] \in Optional(Content)
    BY DEF WholeFiles
  <2>1. DOMAIN rows[n].log = 1..Len(rows[n].log)
    BY PartNames, LogTypes DEF TypeInv, DataOK
  <2> QED
    BY <2>1 DEF WholeInv, WholeLogs, WholeDisks, ToSet
<1> QED
  BY <1>1, TypeInvInit, TypeInvStep, WholeInvInit, WholeInvStep, PTL DEF Spec

-----------------------------------------------------------------------------
(* Without chunked uploads a record tells the truth.  A session that is       *)
(* resumed keeps the content it was opened for, and the record then takes the *)
(* hash of the file as it is now: with files of a chunk and more the          *)
(* statements below are false.                                                *)

SmallFiles == \A c \in Content : Len(c) < ChunkSize

\* The content is the one put under n as version v.
AsPut(n, v, c) == v \in 1..Len(rows[n].log) /\ rows[n].log[v] = c

\* The next state's server has it as that.
PutAfter(n, v, c) == v \in 1..Len(rows'[n].log) /\ rows'[n].log[v] = c

EverPut(c) == \E n \in Name, v \in Nat : AsPut(n, v, c)

SmallLogs == \A n \in Name : \A i \in 1..Len(rows[n].log) : Len(rows[n].log[i]) < ChunkSize

SmallDisks == \A m \in Machine, n \in Name : local[m][n] # None => Len(local[m][n]) < ChunkSize

TrueRecords ==
    \A m \in Machine, n \in Name :
        record[m][n] # None => /\ record[m][n].upload = 0
                               /\ AsPut(n, record[m][n].version, record[m][n].hash)

SmallCmd(m) ==
    /\ cmd[m].at \notin {"session", "read", "send"}
    /\ cmd[m].at = "create" => Len(cmd[m].hash) < ChunkSize
    /\ cmd[m].at \in PullStage => \A x \in cmd[m].todo : AsPut(x.name, x.version, x.hash)
    /\ cmd[m].at \in WorkStage => AsPut(cmd[m].name, cmd[m].version, cmd[m].hash)
    /\ cmd[m].at \in {"fetch", "install"} /\ cmd[m].seen # None => EverPut(cmd[m].seen)

SmallInv == SmallLogs /\ SmallDisks /\ TrueRecords /\ \A m \in Machine : SmallCmd(m)

LEMMA PutsStay ==
  ASSUME TypeInv, RowsGrow, NEW n \in Name, NEW v, NEW c, AsPut(n, v, c)
  PROVE  PutAfter(n, v, c)
<1>1. rows'[n] \in Row
  BY DEF RowsGrow
<1>2. rows'[n].log \in Seq(Bytes)
  BY <1>1 DEF Row
<1>3. Len(rows'[n].log) \in Nat /\ Len(rows[n].log) \in Nat
  BY <1>2, LogTypes DEF TypeInv, DataOK
<1>4. /\ Len(rows[n].log) <= Len(rows'[n].log)
      /\ \A i \in 1..Len(rows[n].log) : rows'[n].log[i] = rows[n].log[i]
  BY DEF RowsGrow
<1> QED
  BY <1>3, <1>4 DEF AsPut, PutAfter

LEMMA SmallLogsStep ==
  ASSUME TypeInv, SmallInv, NEW m \in Machine, MachineStep(m)
  PROVE  SmallLogs'
<1> SUFFICES ASSUME NEW n \in Name, NEW i \in 1..Len(rows'[n].log)
             PROVE  Len(rows'[n].log[i]) < ChunkSize
  BY DEF SmallLogs
<1>1. rows \in [Name -> Row]
  BY DEF TypeInv, DataOK
<1>2. \A j \in 1..Len(rows[n].log) : Len(rows[n].log[j]) < ChunkSize
  BY DEF SmallInv, SmallLogs
<1>3. CASE rows' = rows
  BY <1>2, <1>3
<1>4. CASE \E x \in Name : MarkDeleted(x)
  BY <1>1, <1>2, <1>4, MarkFacts
<1>5. CASE \E x \in Name, c \in Bytes : PutBy(m, x, c) /\ Put(x, c)
  <2>1. PICK x \in Name, c \in Bytes : PutBy(m, x, c) /\ Put(x, c)
    BY <1>5
  <2>2. CASE x # n
    BY <1>1, <1>2, <2>1, <2>2, PutFacts
  <2>3. CASE x = n
    <3>1. Len(c) < ChunkSize
      BY <2>1 DEF PutBy, SmallInv, SmallCmd, At
    <3>2. /\ Len(rows[n].log) \in Nat /\ Len(rows'[n].log) = Len(rows[n].log) + 1
          /\ rows'[n].log[Len(rows[n].log) + 1] = c
          /\ \A j \in 1..Len(rows[n].log) : rows'[n].log[j] = rows[n].log[j]
      BY <1>1, <2>1, <2>3, PutFacts, LogTypes
    <3>3. i \in 1..Len(rows[n].log) \/ i = Len(rows[n].log) + 1
      BY <3>2
    <3> QED
      BY <1>2, <3>1, <3>2, <3>3
  <2> QED
    BY <2>2, <2>3
<1> QED
  BY <1>3, <1>4, <1>5, RowsStep

LEMMA SmallDisksStep ==
  ASSUME SmallFiles, TypeInv, SmallInv, NEW m \in Machine, MachineStep(m)
  PROVE  SmallDisks'
<1> SUFFICES ASSUME NEW v \in Machine, NEW n \in Name, local'[v][n] # None
             PROVE  Len(local'[v][n]) < ChunkSize
  BY DEF SmallDisks
<1>1. /\ local \in [Machine -> [Name -> Optional(Bytes)]]
      /\ local[v][n] # None => Len(local[v][n]) < ChunkSize
  BY DEF TypeInv, DataOK, SmallInv, SmallDisks
<1>2. CASE local' = local
  BY <1>1, <1>2
<1>3. CASE \E x \in Written, c \in Content \cup {None} : UserEdits(m, x, c)
  BY <1>1, <1>3, PartNames DEF UserEdits, SmallFiles
<1>4. CASE At(m, "fetch") \/ At(m, "install")
  <2>1. /\ cmd[m].name \in Name /\ PartOf[cmd[m].name] \in Name
        /\ Exists(cmd[m].name)
    BY <1>4, FetchTypes, PartNames DEF At
  <2>2. CASE \E bytes \in Bytes :
                Downloads(m, bytes) /\ Len(bytes) <= Len(Last(rows[cmd[m].name].log))
    <3>1. PICK bytes \in Bytes :
             Downloads(m, bytes) /\ Len(bytes) <= Len(Last(rows[cmd[m].name].log))
      BY <2>2
    <3>2. /\ Len(rows[cmd[m].name].log) \in 1..Len(rows[cmd[m].name].log)
          /\ Last(rows[cmd[m].name].log)
                = rows[cmd[m].name].log[Len(rows[cmd[m].name].log)]
          /\ Last(rows[cmd[m].name].log) \in Bytes
      BY <2>1, LogTypes DEF TypeInv, DataOK
    <3>3. Len(Last(rows[cmd[m].name].log)) < ChunkSize
      BY <2>1, <3>2 DEF SmallInv, SmallLogs
    <3>4. Len(bytes) < ChunkSize
      BY <3>1, <3>2, <3>3, BytesParts, ClientAssumption
    <3> QED
      BY <1>1, <2>1, <3>1, <3>4 DEF Downloads
  <2>3. CASE DropsPart(m)
    BY <1>1, <2>1, <2>3 DEF DropsPart
  <2>4. CASE TakesPart(m)
    <3>1. Len(cmd[m].hash) < ChunkSize
      <4>1. AsPut(cmd[m].name, cmd[m].version, cmd[m].hash)
        BY <2>4 DEF TakesPart, At, SmallInv, SmallCmd, WorkStage
      <4> QED
        BY <2>1, <4>1 DEF AsPut, SmallInv, SmallLogs
    <3> QED
      BY <1>1, <2>1, <2>4, <3>1 DEF TakesPart
  <2> QED
    BY <1>2, <1>3, <2>2, <2>3, <2>4, LocalStep
<1> QED
  BY <1>2, <1>3, <1>4, LocalStep DEF Downloads, DropsPart, TakesPart

LEMMA TrueRecordsStep ==
  ASSUME TypeInv, SmallInv, NEW m \in Machine, MachineStep(m)
  PROVE  TrueRecords'
<1> SUFFICES ASSUME NEW v \in Machine, NEW n \in Name, record'[v][n] # None
             PROVE  /\ record'[v][n].upload = 0
                    /\ PutAfter(n, record'[v][n].version, record'[v][n].hash)
  BY DEF TrueRecords, AsPut, PutAfter
<1>1. RowsGrow /\ record \in [Machine -> [Name -> Optional(Record)]]
  BY RowsGrowStep DEF TypeInv, DataOK
<1>2. record[v][n] # None =>
        /\ record[v][n].upload = 0
        /\ PutAfter(n, record[v][n].version, record[v][n].hash)
  BY <1>1, PutsStay DEF SmallInv, TrueRecords
<1>3. SmallCmd(m)
  BY DEF SmallInv
<1>4. CASE record' = record
  BY <1>2, <1>4
<1>5. CASE \E x \in Name : record' = [record EXCEPT ![m][x] = None]
  BY <1>1, <1>2, <1>5
<1>6. CASE /\ At(m, "create") /\ Put(cmd[m].name, cmd[m].hash)
           /\ Remember(m, cmd[m].name, cmd[m].hash, Version(cmd[m].name) + 1)
  <2> DEFINE x == cmd[m].name
             w == Version(x) + 1
             r == [hash |-> cmd[m].hash, version |-> w, upload |-> 0]
  <2>1. x \in Name /\ cmd[m].hash \in Bytes
    BY <1>6, CmdTypes DEF CmdOK, At
  <2>2. record' = [record EXCEPT ![m][x] = r]
    BY <1>6 DEF Remember
  <2>3. r.upload = 0 /\ r.version = w /\ r.hash = cmd[m].hash
    OBVIOUS
  <2>4. PutAfter(x, w, cmd[m].hash)
    <3>1. /\ Len(rows[x].log) \in Nat /\ Len(rows'[x].log) = Len(rows[x].log) + 1
          /\ rows'[x].log[Len(rows[x].log) + 1] = cmd[m].hash
      BY <1>6, <2>1, PutFacts, LogTypes DEF TypeInv, DataOK
    <3> QED
      BY <3>1 DEF PutAfter, Version
  <2> HIDE DEF r, w
  <2>5. CASE v = m /\ n = x
    BY <1>1, <2>1, <2>2, <2>3, <2>4, <2>5
  <2>6. CASE ~(v = m /\ n = x)
    BY <1>1, <1>2, <2>1, <2>2, <2>6
  <2> QED
    BY <2>5, <2>6
<1>7. CASE /\ At(m, "save") /\ rows' = rows
           /\ Remember(m, cmd[m].name, cmd[m].hash, cmd[m].version)
  <2> DEFINE x == cmd[m].name
             r == [hash |-> cmd[m].hash, version |-> cmd[m].version, upload |-> 0]
  <2>1. x \in Name /\ AsPut(x, cmd[m].version, cmd[m].hash)
    BY <1>3, <1>7, CmdTypes, PartNames DEF SmallCmd, CmdOK, At, WorkStage
  <2>2. record' = [record EXCEPT ![m][x] = r]
    BY <1>7 DEF Remember
  <2>3. r.upload = 0 /\ r.version = cmd[m].version /\ r.hash = cmd[m].hash
    OBVIOUS
  <2> HIDE DEF r
  <2>4. CASE v = m /\ n = x
    BY <1>1, <1>7, <2>1, <2>2, <2>3, <2>4 DEF AsPut, PutAfter
  <2>5. CASE ~(v = m /\ n = x)
    BY <1>1, <1>2, <2>1, <2>2, <2>5
  <2> QED
    BY <2>4, <2>5
<1> QED
  BY <1>3, <1>4, <1>5, <1>6, <1>7, RecordStep DEF SmallCmd, At

LEMMA ReadMoves ==
  ASSUME TypeInv, NEW m \in Machine, MachineStep(m), cmd'[m].at \in {"read", "send"}
  PROVE  cmd[m].at \in {"session", "read", "send"}
<1>1. CASE \E n \in Name : PushNext(m, n)
  BY <1>1, PushNextMoves
<1>2. CASE \E n \in Written, c \in Content \cup {None} : Edit(m, n, c)
  BY <1>2 DEF Edit
<1>3. CASE \E meta \in cmd[m].todo : PullNext(m, meta)
  BY <1>3, PullNextMoves DEF PullsNext
<1> QED
  BY <1>1, <1>2, <1>3, StartMoves, UploadMoves, PushFailMoves, DownloadMoves
  DEF MachineStep, Step, PushStep, PullStep, Fails, GoesOn, WorkStage

\* What is listed is what was put last.
LEMMA ListedPut ==
  ASSUME TypeInv, NEW x \in Listed
  PROVE  /\ x.name \in Name /\ x.version = Len(rows[x.name].log)
         /\ x.hash = Last(rows[x.name].log) /\ AsPut(x.name, x.version, x.hash)
<1>1. PICK n \in Name : Exists(n) /\ x.name = n /\ x.version = Version(n)
                        /\ x.hash = Last(rows[n].log)
  BY DEF Listed
<1>2. /\ Len(rows[n].log) \in 1..Len(rows[n].log)
      /\ Last(rows[n].log) = rows[n].log[Len(rows[n].log)]
  BY <1>1, LogTypes DEF TypeInv, DataOK
<1> QED
  BY <1>1, <1>2 DEF AsPut, Version

LEMMA SmallCmdStep ==
  ASSUME TypeInv, TypeInv', SmallInv, NEW m \in Machine, MachineStep(m),
         NEW v \in Machine
  PROVE  SmallCmd(v)'
<1>1. /\ SmallCmd(m) /\ SmallCmd(v) /\ cmd \in [Machine -> Command]
      /\ RowsGrow
  BY RowsGrowStep DEF SmallInv, TypeInv, DataOK
<1>2. \A c : EverPut(c) => \E n \in Name, w \in Nat : PutAfter(n, w, c)
  BY <1>1, PutsStay DEF EverPut
<1>3. CASE v # m
  <2>1. cmd'[v] = cmd[v]
    BY <1>1, <1>3, CmdOthers
  <2>2. cmd[v].at \in PullStage =>
           \A x \in cmd[v].todo : PutAfter(x.name, x.version, x.hash)
    BY <1>1, CmdTypes, PutsStay DEF SmallCmd, CmdOK, Meta
  <2>3. cmd[v].at \in WorkStage => PutAfter(cmd[v].name, cmd[v].version, cmd[v].hash)
    BY <1>1, CmdTypes, PartNames, PutsStay DEF SmallCmd, CmdOK, WorkStage
  <2>4. /\ cmd[v].at \notin {"session", "read", "send"}
        /\ cmd[v].at = "create" => Len(cmd[v].hash) < ChunkSize
        /\ cmd[v].at \in {"fetch", "install"} /\ cmd[v].seen # None => EverPut(cmd[v].seen)
    BY <1>1 DEF SmallCmd
  <2>5. \A c : EverPut(c) => EverPut(c)'
    BY <1>2 DEF EverPut, AsPut, PutAfter
  <2>6. \A n, w, c : PutAfter(n, w, c) => AsPut(n, w, c)'
    BY DEF AsPut, PutAfter
  <2> QED
    BY <2>1, <2>2, <2>3, <2>4, <2>5, <2>6 DEF SmallCmd
<1>4. cmd'[m].at \notin {"read", "send"}
  BY <1>1, ReadMoves DEF SmallCmd
<1>5. ASSUME cmd'[m].at \in {"create", "session"}
      PROVE  cmd'[m].at = "create" /\ Len(cmd'[m].hash) < ChunkSize
  <2>1. CASE cmd'[m] = cmd[m]
    BY <1>1, <1>5, <2>1 DEF SmallCmd
  <2>2. CASE /\ cmd'[m].name \in Name /\ local[m][cmd'[m].name] # None
             /\ cmd'[m].hash = local[m][cmd'[m].name]
    <3>1. Len(cmd'[m].hash) < ChunkSize
      BY <2>2 DEF SmallInv, SmallDisks
    <3>2. cmd'[m].hash \in Bytes /\ (cmd'[m].at = "session" => ChunkSize <= Len(cmd'[m].hash))
      BY <1>5 DEF TypeInv, CmdOK
    <3>3. ~(ChunkSize <= Len(cmd'[m].hash))
      BY <3>1, <3>2, BytesParts, ClientAssumption
    <3> QED
      BY <1>5, <3>1, <3>2, <3>3
  <2> QED
    BY <1>5, <2>1, <2>2, PushMoves
<1>6. ASSUME cmd'[m].at \in PullStage, NEW x \in cmd'[m].todo
      PROVE  PutAfter(x.name, x.version, x.hash)
  <2>1. x.name \in Name /\ AsPut(x.name, x.version, x.hash)
    <3>1. CASE cmd'[m].todo = Listed
      BY <1>6, <3>1, ListedPut
    <3>2. CASE cmd[m].at \in PullStage /\ cmd'[m].todo \subseteq cmd[m].todo
      BY <1>1, <1>6, <3>2, CmdTypes DEF SmallCmd, CmdOK, Meta
    <3> QED
      BY <1>6, <3>1, <3>2, PullMoves
  <2> QED
    BY <1>1, <2>1, PutsStay
<1>7. ASSUME cmd'[m].at \in WorkStage
      PROVE  /\ PutAfter(cmd'[m].name, cmd'[m].version, cmd'[m].hash)
             /\ cmd'[m].at \in {"fetch", "install"} /\ cmd'[m].seen # None
                  => EverPut(cmd'[m].seen)
  <2>1. cmd'[m].at \in PullStage /\ cmd'[m].at # "pull" /\ cmd'[m].name \in Name
    BY <1>7, PartNames DEF WorkStage, PullStage, TypeInv, CmdOK
  <2>2. CASE GoesOn(m)
    <3>1. AsPut(cmd'[m].name, cmd'[m].version, cmd'[m].hash)
      BY <1>1, <2>2 DEF GoesOn, SmallCmd
    <3>2. PutAfter(cmd'[m].name, cmd'[m].version, cmd'[m].hash)
      BY <1>1, <2>1, <3>1, PutsStay
    <3> QED
      BY <1>1, <2>2, <3>2 DEF GoesOn, SmallCmd
  <2>3. CASE cmd[m].at \in PullStage /\ \E meta \in cmd[m].todo : PullsNext(m, meta)
    <3>1. PICK meta \in cmd[m].todo : PullsNext(m, meta)
      BY <2>3
    <3>2. AsPut(meta.name, meta.version, meta.hash) /\ meta.name = cmd'[m].name
      BY <1>1, <2>3, <3>1 DEF PullsNext, SmallCmd
    <3>3. PutAfter(meta.name, meta.version, meta.hash)
      BY <1>1, <2>1, <3>2, PutsStay
    <3>4. ASSUME cmd'[m].at \in {"fetch", "install"}, cmd'[m].seen # None
          PROVE  EverPut(cmd'[m].seen)
      <4> DEFINE r == record[m][meta.name]
      <4>1. ~Changed(m, meta) /\ cmd'[m].seen = Compared(m, meta)
        BY <3>1, <3>4 DEF PullsNext
      <4>2. r # None /\ cmd'[m].seen = r.hash
        BY <3>4, <4>1 DEF Changed, Compared
      <4>3. AsPut(meta.name, r.version, r.hash) /\ r.version \in Nat
        BY <2>1, <3>2, <4>2, LogTypes DEF SmallInv, TrueRecords, AsPut, TypeInv, DataOK
      <4> QED
        BY <2>1, <3>2, <4>2, <4>3 DEF EverPut
    <3> QED
      BY <3>1, <3>3, <3>4 DEF PullsNext
  <2> QED
    BY <2>1, <2>2, <2>3, PullMoves
<1>8. CASE v = m
  <2>1. SmallCmd(m)' <=>
          /\ cmd'[m].at \notin {"session", "read", "send"}
          /\ cmd'[m].at = "create" => Len(cmd'[m].hash) < ChunkSize
          /\ cmd'[m].at \in PullStage =>
                \A x \in cmd'[m].todo : PutAfter(x.name, x.version, x.hash)
          /\ cmd'[m].at \in WorkStage =>
                PutAfter(cmd'[m].name, cmd'[m].version, cmd'[m].hash)
          /\ cmd'[m].at \in {"fetch", "install"} /\ cmd'[m].seen # None =>
                \E n \in Name, w \in Nat : PutAfter(n, w, cmd'[m].seen)
    BY DEF SmallCmd, AsPut, PutAfter, EverPut
  <2>2. cmd'[m].at \in {"fetch", "install"} => cmd'[m].at \in WorkStage
    BY DEF WorkStage
  <2> QED
    BY <1>2, <1>4, <1>5, <1>6, <1>7, <1>8, <2>1, <2>2
<1> QED
  BY <1>3, <1>8

LEMMA SmallInvInit == Init => SmallInv
<1> SUFFICES ASSUME Init PROVE SmallInv
  OBVIOUS
<1>1. SmallLogs
  BY DEF Init, SmallLogs
<1>2. SmallDisks /\ TrueRecords
  BY DEF Init, SmallDisks, TrueRecords
<1>3. ASSUME NEW m \in Machine PROVE SmallCmd(m)
  <2>1. cmd[m].at = "idle"
    BY IdleFields DEF Init
  <2> QED
    BY <2>1 DEF SmallCmd, PullStage, WorkStage
<1> QED
  BY <1>1, <1>2, <1>3 DEF SmallInv

LEMMA SmallInvStep ==
  ASSUME SmallFiles
  PROVE  TypeInv /\ TypeInv' /\ SmallInv /\ [Next]_vars => SmallInv'
<1> SUFFICES ASSUME TypeInv, TypeInv', SmallInv, [Next]_vars PROVE SmallInv'
  OBVIOUS
<1>1. CASE \E m \in Machine : MachineStep(m)
  <2>1. PICK m \in Machine : MachineStep(m)
    BY <1>1
  <2>2. SmallLogs' /\ SmallDisks' /\ TrueRecords'
    BY <2>1, SmallLogsStep, SmallDisksStep, TrueRecordsStep
  <2>3. \A v \in Machine : SmallCmd(v)'
    BY <2>1, SmallCmdStep
  <2> QED
    BY <2>2, <2>3 DEF SmallInv
<1>2. CASE UNCHANGED vars
  BY <1>2 DEF vars, SmallInv, SmallLogs, SmallDisks, TrueRecords, SmallCmd, AsPut, EverPut
<1> QED
  BY <1>1, <1>2, StepCases

\* The content a record names is the one the server had, or has, under the
\* version it names.
THEOREM RecordsTellTheTruth ==
  ASSUME SmallFiles
  PROVE  Spec => []RecordTruthful
<1>1. TypeInv /\ SmallInv => RecordTruthful
  <2> SUFFICES ASSUME TypeInv, SmallInv, NEW m \in Machine, NEW n \in Name, Settled(m, n)
               PROVE  /\ record[m][n].version \in DOMAIN rows[n].log
                      /\ rows[n].log[record[m][n].version] = record[m][n].hash
    BY DEF RecordTruthful
  <2>1. DOMAIN rows[n].log = 1..Len(rows[n].log)
    BY LogTypes DEF TypeInv, DataOK
  <2>2. AsPut(n, record[m][n].version, record[m][n].hash)
    BY DEF SmallInv, TrueRecords, Settled
  <2> QED
    BY <2>1, <2>2 DEF AsPut
<1> QED
  BY <1>1, TypeInvInit, TypeInvStep, SmallInvInit, SmallInvStep, PTL DEF Spec

\* A record is not ahead of the list, and one that is level with it has its hash.
LEMMA RecordAndList ==
  ASSUME TypeInv, SmallInv, NEW m \in Machine, NEW meta \in Listed,
         record[m][meta.name] # None
  PROVE  LET r == record[m][meta.name] IN
         /\ r.version \in Nat /\ meta.version \in Nat /\ r.version <= meta.version
         /\ r.version = meta.version => r.hash = meta.hash
<1>1. meta.name \in Name /\ AsPut(meta.name, meta.version, meta.hash)
        /\ meta.version = Len(rows[meta.name].log)
  BY ListedPut
<1>2. AsPut(meta.name, record[m][meta.name].version, record[m][meta.name].hash)
  BY <1>1 DEF SmallInv, TrueRecords
<1>3. Len(rows[meta.name].log) \in Nat
  BY <1>1, LogTypes DEF TypeInv, DataOK
<1> QED
  BY <1>1, <1>2, <1>3 DEF AsPut

LEMMA ListedOnce ==
  ASSUME TypeInv, NEW x \in Listed, NEW y \in Listed, x.name = y.name
  PROVE  x.hash = y.hash /\ x.version = y.version
BY ListedPut

\* What the lines say of the file, its record and the list.
LEMMA StatusLines ==
  ASSUME NEW m \in Machine, NEW meta \in Listed, TypeInv
  PROVE  LET n == meta.name
             r == record[m][meta.name]
             s == StatusOf(m, meta.name)
         IN
         /\ s \in {"update (server)", "conflict", "update (local)"} =>
               local[m][n] # None /\ r # None
         /\ s = "update (server)" => local[m][n] = r.hash /\ meta.hash # r.hash
         /\ s = "conflict" => local[m][n] # r.hash /\ meta.version > r.version
         /\ s = "no update" => r # None /\ local[m][n] = r.hash /\ meta.hash = r.hash
         /\ s = "new (server)" => r = None
         /\ s = "update (local)" => local[m][n] # r.hash /\ ~(meta.version > r.version)
<1> DEFINE n == meta.name
           r == record[m][n]
           s == StatusOf(m, n)
           listed == {x \in Listed : x.name = n}
<1>1. /\ (\E x \in listed : x.version > r.version) <=> meta.version > r.version
      /\ (\E x \in listed : x.hash # r.hash) <=> meta.hash # r.hash
  BY ListedOnce
<1>2. CASE local[m][n] = None
  <2>1. s \in {"nothing", "new (server)", "deleted (local)"}
        /\ (s = "new (server)" => r = None)
    BY <1>2 DEF StatusOf, Unsynced
  <2> QED
    BY <2>1
<1>3. CASE local[m][n] # None /\ r = None
  <2>1. s = "new (local)"
    BY <1>3 DEF StatusOf
  <2> QED
    BY <2>1
<1>4. CASE local[m][n] # None /\ r # None /\ local[m][n] # r.hash
  <2>1. s = IF \E x \in listed : x.version > r.version THEN "conflict" ELSE "update (local)"
    BY <1>4 DEF StatusOf
  <2> QED
    BY <1>1, <1>4, <2>1
<1>5. CASE local[m][n] # None /\ r # None /\ local[m][n] = r.hash
  <2>1. s = IF \E x \in listed : x.hash # r.hash THEN "update (server)" ELSE "no update"
    BY <1>5 DEF StatusOf
  <2> QED
    BY <1>1, <1>5, <2>1
<1> QED
  BY <1>2, <1>3, <1>4, <1>5

\* status foretells pull, although it compares hashes where pull compares
\* versions: what each of its lines but "new (local)" and "deleted (local)" says
\* is what a pull would do.
THEOREM StatusIsRight ==
  ASSUME SmallFiles
  PROVE  Spec => []StatusForetellsPull
<1>1. TypeInv /\ SmallInv => StatusForetellsPull
  <2> SUFFICES ASSUME TypeInv, SmallInv, NEW m \in Machine, NEW meta \in Listed
               PROVE  LET s == StatusOf(m, meta.name) IN
                      /\ s \in {"update (server)", "new (server)"} => PullDoes(m, meta) = "replace"
                      /\ s = "conflict" => PullDoes(m, meta) = "conflict"
                      /\ s = "update (local)" => PullDoes(m, meta) = "leave"
                      /\ s = "no update" =>
                            \/ PullDoes(m, meta) = "leave"
                            \/ PullDoes(m, meta) = "replace" /\ meta.hash = local[m][meta.name]
    BY DEF StatusForetellsPull
  <2> DEFINE r == record[m][meta.name]
             s == StatusOf(m, meta.name)
  <2>1. ASSUME s = "update (server)" PROVE PullDoes(m, meta) = "replace"
    <3>1. r # None /\ local[m][meta.name] = r.hash /\ meta.hash # r.hash
      BY <2>1, StatusLines
    <3>2. ~Current(m, meta)
      BY <3>1, RecordAndList DEF Current
    <3>3. ~Changed(m, meta)
      BY <3>1 DEF Changed, Compared
    <3> QED
      BY <3>2, <3>3 DEF PullDoes
  <2>2. ASSUME s = "conflict" PROVE PullDoes(m, meta) = "conflict"
    <3>1. /\ r # None /\ local[m][meta.name] # None /\ local[m][meta.name] # r.hash
          /\ meta.version > r.version
      BY <2>2, StatusLines
    <3>2. r.version < meta.version /\ r.version # meta.version
      BY <3>1, RecordAndList
    <3>3. ~Current(m, meta) /\ Changed(m, meta)
      BY <3>1, <3>2 DEF Current, Changed, Compared
    <3> QED
      BY <3>3 DEF PullDoes
  <2>3. ASSUME s = "update (local)" PROVE PullDoes(m, meta) = "leave"
    <3>1. r # None /\ ~(meta.version > r.version)
      BY <2>3, StatusLines
    <3>2. r.version = meta.version
      BY <3>1, RecordAndList
    <3> QED
      BY <3>1, <3>2 DEF PullDoes, Current
  <2>4. ASSUME s = "new (server)" PROVE PullDoes(m, meta) = "replace"
    <3>1. r = None
      BY <2>4, StatusLines
    <3> QED
      BY <3>1 DEF PullDoes, Current, Changed, Compared
  <2>5. ASSUME s = "no update"
        PROVE  \/ PullDoes(m, meta) = "leave"
               \/ PullDoes(m, meta) = "replace" /\ meta.hash = local[m][meta.name]
    <3>1. r # None /\ local[m][meta.name] = r.hash /\ meta.hash = r.hash
      BY <2>5, StatusLines
    <3>2. ~Changed(m, meta)
      BY <3>1 DEF Changed, Compared
    <3> QED
      BY <3>1, <3>2 DEF PullDoes
  <2> QED
    BY <2>1, <2>2, <2>3, <2>4, <2>5
<1> QED
  BY <1>1, TypeInvInit, TypeInvStep, SmallInvInit, SmallInvStep, PTL DEF Spec

LEMMA PutIsStored ==
  ASSUME TypeInv, NEW c, EverPut(c)
  PROVE  c \in Stored
<1>1. PICK n \in Name, v \in Nat : AsPut(n, v, c)
  BY DEF EverPut
<1>2. v \in DOMAIN rows[n].log /\ rows[n].log[v] = c
  BY <1>1, LogTypes DEF AsPut, TypeInv, DataOK
<1>3. c \in ToSet(rows[n].log)
  BY <1>2 DEF ToSet
<1> QED
  BY <1>3 DEF Stored

\* A step of a command replaces a user's file only when it installs a download.
LEMMA OnlyInstallOverwrites ==
  ASSUME TypeInv, NEW k \in Machine, MachineStep(k),
         NEW m \in Machine, NEW n \in Written, Overwrites(m, n)
  PROVE  At(m, "install")
<1>1. /\ cmd \in [Machine -> Command]
      /\ local \in [Machine -> [Name -> Optional(Bytes)]]
      /\ cmd'[m] # cmd[m] /\ local'[m][n] # local[m][n] /\ n \in Name
  BY PartNames DEF TypeInv, DataOK, Overwrites
<1>2. k = m
  BY <1>1, CmdOthers
<1>3. ~UserEdits(m, n, local'[m][n]) /\ cmd' # cmd
  BY <1>1 DEF UserEdits
<1>4. ASSUME NEW bytes \in Bytes, Downloads(m, bytes) PROVE FALSE
  <2>1. PartOf[cmd[m].name] \in Name /\ PartOf[cmd[m].name] # n
    BY <1>4, FetchTypes DEF Downloads, At
  <2> QED
    BY <1>1, <1>4, <2>1 DEF Downloads
<1> QED
  BY <1>1, <1>2, <1>3, <1>4, LocalStep DEF UserEdits, DropsPart, TakesPart

\* A file with a sync record, that its user leaves alone between pull's
\* comparison and its rename, is replaced only if the server has, or had, its
\* content.
THEOREM TrackedEditsKept ==
  ASSUME SmallFiles
  PROVE  Spec => TrackedEditKept
<1> DEFINE Kept == \A m \in Machine, n \in Written :
                      Overwrites(m, n) /\ Settled(m, n) /\ local[m][n] = cmd[m].seen
                          => local[m][n] \in Stored
<1>1. TypeInv /\ SmallInv /\ [Next]_vars => [Kept]_vars
  <2> SUFFICES ASSUME TypeInv, SmallInv, Next, NEW m \in Machine, NEW n \in Written,
                      Overwrites(m, n), local[m][n] = cmd[m].seen
               PROVE  local[m][n] \in Stored
    OBVIOUS
  <2>1. PICK k \in Machine : MachineStep(k)
    BY DEF Next, MachineStep
  <2>2. At(m, "install") /\ cmd[m].seen # None
    BY <2>1, OnlyInstallOverwrites DEF Overwrites
  <2>3. EverPut(cmd[m].seen)
    BY <2>2 DEF SmallInv, SmallCmd, At
  <2> QED
    BY <2>3, PutIsStored
<1> QED
  BY <1>1, TypeInvInit, TypeInvStep, SmallInvInit, SmallInvStep, PTL DEF Spec, TrackedEditKept
=============================================================================
