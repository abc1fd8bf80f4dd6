--------------------------- MODULE BrowserUpload ---------------------------
(***************************************************************************)
(* The uploader of the web page (static/upload.js).                        *)
(*                                                                         *)
(* handleFiles starts one uploadFile per dropped file and awaits none, so  *)
(* that all of them interleave at their awaits; between two awaits nothing *)
(* else of the page runs.  Each file is hashed, announced, sent chunk by   *)
(* chunk by up to CONCURRENCY workers, and finalized.  The page has one    *)
(* BLAKE3 hasher for all files.                                            *)
(*                                                                         *)
(* A file's content is a sequence of chunks, and its own hash.             *)
(***************************************************************************)
EXTENDS Naturals, Sequences, FiniteSets, Functions

CONSTANTS
    File,           \* files the user drops on the page
    Content,        \* the chunks of each file
    CONCURRENCY,    \* workers per file
    None,           \* no hash, no stored content
    MaxDrops        \* bound on the files dropped

ASSUME ContentAssumption ==
    /\ DOMAIN Content = File
    /\ \A f \in File : Content[f] \in Seq(Range(Content[f]))
ASSUME ConcurrencyAssumption == CONCURRENCY \in Nat \ {0}

VARIABLES
    step,       \* where each file's uploadFile is
    hasher,     \* the shared hasher: fed since init, and whether it is on
    read,       \* chunks of each file that hashFile has read
    hash,       \* the total_hash of each file
    next,       \* runWithConcurrency: the next chunk to send
    flight,     \*   chunks whose PUT has no answer yet
    failed,     \*   files with an entry in errors
    got,        \* server: chunks received in each file's last session
    blobs,      \*   contents stored
    stored,     \*   content under each file's path
    overlap,    \* history: files hashed while another one was
    fault,      \* history: files that met a failing read or request
    drops       \* files dropped so far

page == <<step, hasher, read, hash, next, flight, failed>>
server == <<got, blobs, stored>>
history == <<overlap, fault, drops>>
vars == <<page, server, history>>

-----------------------------------------------------------------------------

ChunkCount(f) == IF Content[f] = <<>> THEN 1 ELSE Len(Content[f])
Chunks(f) == 0 .. ChunkCount(f) - 1

Hashing == {f \in File : step[f] = "hashing"}

Goto(f, s) == step' = [step EXCEPT ![f] = s]

Init ==
    /\ step = [f \in File |-> "none"]
    /\ hasher = [on |-> TRUE, fed |-> <<>>]
    /\ read = [f \in File |-> 0]
    /\ hash = [f \in File |-> None]
    /\ next = [f \in File |-> 0]
    /\ flight = [f \in File |-> {}]
    /\ failed = {}
    /\ got = [f \in File |-> {}]
    /\ blobs = {}
    /\ stored = [f \in File |-> None]
    /\ overlap = {}
    /\ fault = {}
    /\ drops = 0

-----------------------------------------------------------------------------
(* Hashing *)

(* The user drops a file, for the first time or again: a new uploadFile    *)
(* with counters of its own, whose hashFile waits for the hasher to load.  *)
Drop(f) ==
    /\ step[f] \in {"none", "done", "error"}
    /\ drops < MaxDrops
    /\ drops' = drops + 1
    /\ Goto(f, "dropped")
    /\ read' = [read EXCEPT ![f] = 0]
    /\ hash' = [hash EXCEPT ![f] = None]
    /\ next' = [next EXCEPT ![f] = 0]
    /\ failed' = failed \ {f}
    /\ got' = [got EXCEPT ![f] = {}]
    /\ overlap' = overlap \ {f}
    /\ fault' = fault \ {f}
    /\ UNCHANGED <<hasher, flight, blobs, stored>>

(* digest: the hash is known, and the hasher wants an init. *)
Digest(f, fed) ==
    /\ hash' = [hash EXCEPT ![f] = fed]
    /\ hasher' = [on |-> FALSE, fed |-> <<>>]
    /\ Goto(f, "hashed")

Overlapping(f) ==
    overlap' = IF Hashing \subseteq {f} THEN overlap ELSE overlap \cup Hashing \cup {f}

(* Plausible bug: init is left out while the hasher is usable. *)
InitHasherOnce(f) ==
    /\ step[f] = "dropped"
    /\ IF Content[f] = <<>>
         THEN Digest(f, hasher.fed)
         ELSE /\ hasher' = [hasher EXCEPT !.on = TRUE]
              /\ Goto(f, "hashing")
              /\ UNCHANGED hash
    /\ Overlapping(f)
    /\ UNCHANGED <<read, next, flight, failed, server, fault, drops>>

(* hashFile up to its first await: init, whoever is using the hasher.  An  *)
(* empty file has no await and is digested at once.                        *)
InitHasher(f) ==
    /\ step[f] = "dropped"
    /\ IF Content[f] = <<>>
         THEN Digest(f, <<>>)
         ELSE /\ hasher' = [on |-> TRUE, fed |-> <<>>]
              /\ Goto(f, "hashing")
              /\ UNCHANGED hash
    /\ Overlapping(f)
    /\ UNCHANGED <<read, next, flight, failed, server, fault, drops>>

(* A chunk of the file has been read: update, and digest after the last.   *)
(* update throws when another file's digest has turned the hasher off.     *)
Update(f) ==
    /\ step[f] = "hashing"
    /\ LET fed == Append(hasher.fed, Content[f][read[f] + 1]) IN
       \/ /\ hasher.on
          /\ read' = [read EXCEPT ![f] = @ + 1]
          /\ IF read'[f] < Len(Content[f])
               THEN hasher' = [hasher EXCEPT !.fed = fed] /\ UNCHANGED <<step, hash>>
               ELSE Digest(f, fed)
       \/ /\ ~hasher.on
          /\ Goto(f, "error")
          /\ UNCHANGED <<hasher, read, hash>>
    /\ UNCHANGED <<next, flight, failed, server, history>>

(* The file cannot be read any more; the hasher stays as it is. *)
ReadFails(f) ==
    /\ step[f] = "hashing"
    /\ Goto(f, "error")
    /\ fault' = fault \cup {f}
    /\ UNCHANGED <<hasher, read, hash, next, flight, failed, server, overlap, drops>>

-----------------------------------------------------------------------------
(* Sending *)

(* POST /api/v1/uploads, answered; the workers start with the first chunks. *)
InitUpload(f) ==
    LET first == {i \in Chunks(f) : i < CONCURRENCY} IN
    /\ step[f] = "hashed"
    /\ flight' = [flight EXCEPT ![f] = first]
    /\ next' = [next EXCEPT ![f] = Cardinality(first)]
    /\ Goto(f, "sending")
    /\ UNCHANGED <<hasher, read, hash, failed, server, history>>

InitUploadFails(f) ==
    /\ step[f] = "hashed"
    /\ Goto(f, "error")
    /\ fault' = fault \cup {f}
    /\ UNCHANGED <<hasher, read, hash, next, flight, failed, server, overlap, drops>>

(* runOne: the worker whose chunk is through takes the next one, if any. *)
RunOne(f, i) ==
    LET taken == {next[f]} \cap Chunks(f) IN
    /\ flight' = [flight EXCEPT ![f] = (@ \ {i}) \cup taken]
    /\ next' = [next EXCEPT ![f] = @ + 1]

PutChunk(f, i) ==
    /\ i \in flight[f]
    /\ got' = [got EXCEPT ![f] = @ \cup {i}]
    /\ RunOne(f, i)
    /\ UNCHANGED <<step, hasher, read, hash, failed, blobs, stored, history>>

(* The PUT fails, before or after the server has the chunk: the worker     *)
(* notes the error and stops, the others go on.                            *)
PutChunkFails(f, i) ==
    /\ i \in flight[f]
    /\ got' \in {got, [got EXCEPT ![f] = @ \cup {i}]}
    /\ flight' = [flight EXCEPT ![f] = @ \ {i}]
    /\ failed' = failed \cup {f}
    /\ fault' = fault \cup {f}
    /\ UNCHANGED <<step, hasher, read, hash, next, blobs, stored, overlap, drops>>

-----------------------------------------------------------------------------
(* Finalizing *)

(* Plausible bug: the workers are started and not waited for. *)
WorkersStarted(f) == step[f] = "sending" /\ next[f] >= ChunkCount(f)

(* Plausible bug: waits until every chunk was taken, not for the workers. *)
WorkersDoneAllTaken(f) ==
    step[f] = "sending" /\ flight[f] = {} /\ next[f] >= ChunkCount(f)

(* All workers have returned. *)
WorkersDone(f) == step[f] = "sending" /\ flight[f] = {}

(* Plausible bug: the hash of the reassembled content is not compared. *)
AcceptsUnverified(f) == got[f] = Chunks(f)

(* What finalize_upload asks: all chunks there, and their content has the  *)
(* announced hash.  When the hash is on disk already, only the sizes are   *)
(* compared.                                                               *)
Accepts(f) ==
    /\ got[f] = Chunks(f)
    /\ IF hash[f] \in blobs THEN Len(hash[f]) = Len(Content[f])
                            ELSE hash[f] = Content[f]

(* The server's part of a finalize that it accepts. *)
Commit(f) ==
    /\ Accepts(f)
    /\ blobs' = blobs \cup {hash[f]}
    /\ stored' = [stored EXCEPT ![f] = hash[f]]
    /\ UNCHANGED got

Finalize(f) ==
    /\ WorkersDone(f)
    /\ f \notin failed
    /\ \/ Commit(f) /\ Goto(f, "done")
       \/ ~Accepts(f) /\ Goto(f, "error") /\ UNCHANGED server
    /\ UNCHANGED <<hasher, read, hash, next, flight, failed, history>>

(* The request is lost, or its answer after the server has committed. *)
FinalizeFails(f) ==
    /\ WorkersDone(f)
    /\ f \notin failed
    /\ Commit(f) \/ UNCHANGED server
    /\ Goto(f, "error")
    /\ fault' = fault \cup {f}
    /\ UNCHANGED <<hasher, read, hash, next, flight, failed, overlap, drops>>

(* A worker has noted an error: no finalize, the row shows it. *)
GiveUp(f) ==
    /\ WorkersDone(f)
    /\ f \in failed
    /\ Goto(f, "error")
    /\ UNCHANGED <<hasher, read, hash, next, flight, failed, server, history>>

-----------------------------------------------------------------------------

Proceed(f) ==
    \/ InitHasher(f) \/ Update(f) \/ InitUpload(f)
    \/ \E i \in flight[f] : PutChunk(f, i)
    \/ Finalize(f) \/ GiveUp(f)

Fault(f) ==
    \/ ReadFails(f) \/ InitUploadFails(f) \/ FinalizeFails(f)
    \/ \E i \in flight[f] : PutChunkFails(f, i)

Next == \E f \in File : Drop(f) \/ Proceed(f) \/ Fault(f)

Spec == Init /\ [][Next]_vars

(* Reads end, and every request is answered or fails. *)
FairSpec == Spec /\ \A f \in File : WF_vars(Proceed(f) \/ Fault(f))

-----------------------------------------------------------------------------
(* Properties *)

(* The variables hold values of their kinds; chunks in flight exist. *)
TypeOK ==
    /\ step \in [File -> {"none", "dropped", "hashing", "hashed", "sending",
                          "done", "error"}]
    /\ hasher.on \in BOOLEAN
    /\ \A f \in File :
        /\ read[f] \in 0 .. Len(Content[f])
        /\ next[f] \in Nat
        /\ flight[f] \subseteq Chunks(f)
        /\ got[f] \subseteq Chunks(f)
    /\ failed \cup overlap \cup fault \subseteq File

(* A file that no other one overlapped announces its own hash, also after  *)
(* a file whose reading was cut off.                                       *)
AloneHashesItself ==
    \A f \in File \ overlap : hash[f] # None => hash[f] = Content[f]

(* No mixture of two files is ever stored: only the content of some file   *)
(* gets a row, whatever hashes were announced.                             *)
MixtureRefused == \A f \in File : stored[f] # None => stored[f] \in Range(Content)

(* An upload fails only when a read or request of its own failed, or when  *)
(* its hashing met another file's: neither the worker pool nor the other   *)
(* uploads make it fail.                                                   *)
FailureExplained ==
    \A f \in File : step[f] = "error" => f \in overlap \cup fault

(* Every dropped file ends with "done" or an error on the page. *)
EveryUploadEnds ==
    \A f \in File : step[f] = "dropped" ~> step[f] \in {"done", "error"}

(* The announced hash is the hash of the file (upload.js:4), also when     *)
(* several files are dropped at once.                                      *)
AnnouncesOwnHash == \A f \in File : hash[f] # None => hash[f] = Content[f]
=============================================================================
