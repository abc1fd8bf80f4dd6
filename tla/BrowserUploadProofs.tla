------------------------ MODULE BrowserUploadProofs ------------------------
(***************************************************************************)
(* Proofs about BrowserUpload, for any number of files of any length, any  *)
(* number of workers and any number of drops.                              *)
(***************************************************************************)
EXTENDS BrowserUpload, FiniteSetTheorems, SequenceTheorems, TLAPS

Steps == {"none", "dropped", "hashing", "hashed", "sending", "done", "error"}
Data == UNION {Range(Content[f]) : f \in File}
Hash == Seq(Data) \cup {None}

Shape ==
    /\ step \in [File -> Steps]
    /\ hasher \in [on : BOOLEAN, fed : Seq(Data)]
    /\ read \in [File -> Nat]
    /\ hash \in [File -> Hash]
    /\ next \in [File -> Nat]
    /\ flight \in [File -> SUBSET Nat]
    /\ got \in [File -> SUBSET Nat]
    /\ stored \in [File -> Hash]
    /\ failed \cup overlap \cup fault \subseteq File

(* A file that hashes alone has fed the hasher with what it has read; one   *)
(* that is hashed alone has its own hash; all that hash together know it.   *)
HashInv ==
    /\ \A f \in File :
        /\ step[f] = "dropped" => read[f] = 0
        /\ read[f] <= Len(Content[f])
        /\ step[f] = "hashing" => read[f] < Len(Content[f])
        /\ step[f] = "hashing" /\ f \notin overlap =>
              /\ hasher.on
              /\ Len(hasher.fed) = read[f]
              /\ \A i \in 1 .. read[f] : hasher.fed[i] = Content[f][i]
        /\ f \notin overlap =>
              /\ hash[f] # None => hash[f] = Content[f]
              /\ step[f] \in {"hashed", "sending"} => hash[f] = Content[f]
    /\ \A f, g \in Hashing : f # g => f \in overlap

(* A chunk that was taken is under way or received, and as long as no       *)
(* request has failed the workers stop only when every chunk was taken.     *)
SendInv ==
    /\ \A f \in File :
        /\ flight[f] \subseteq Chunks(f) /\ got[f] \subseteq Chunks(f)
        /\ step[f] # "sending" => flight[f] = {}
        /\ step[f] = "sending" /\ f \notin fault =>
              /\ flight[f] = {} => next[f] >= ChunkCount(f)
              /\ \A i \in Chunks(f) : i < next[f] => i \in got[f] \cup flight[f]
    /\ failed \subseteq fault

(* What is on disk is the content of a file. *)
BlobInv ==
    /\ blobs \subseteq Range(Content)
    /\ MixtureRefused

IInv == Shape /\ HashInv /\ SendInv /\ BlobInv /\ FailureExplained

-----------------------------------------------------------------------------
(* Contents and chunks *)

LEMMA ContentFacts ==
    ASSUME NEW f \in File
    PROVE  /\ Content[f] \in Seq(Data)
           /\ Content[f] \in Range(Content)
           /\ Len(Content[f]) \in Nat
           /\ ChunkCount(f) \in Nat \ {0}
           /\ Content[f] # <<>> => Len(Content[f]) > 0
           /\ \A i \in 1 .. Len(Content[f]) : Content[f][i] \in Data
  <1>1. Content[f] \in Seq(Range(Content[f])) /\ DOMAIN Content = File
    BY ContentAssumption
  <1>2. Range(Content[f]) \subseteq Data
    BY DEF Data
  <1>3. Content[f] \in Seq(Data)
    BY <1>1, <1>2
  <1>4. Content[f] \in Range(Content)
    BY <1>1 DEF Range
  <1>5. Len(Content[f]) \in Nat /\ (Content[f] # <<>> => Len(Content[f]) > 0)
    BY <1>3
  <1>6. \A i \in 1 .. Len(Content[f]) : Content[f][i] \in Data
    BY <1>3
  <1> QED
    BY <1>3, <1>4, <1>5, <1>6 DEF ChunkCount

First(f) == {i \in Chunks(f) : i < CONCURRENCY}

(* The first chunks: as many as there are workers, or all. *)
LEMMA FirstChunks ==
    ASSUME NEW f \in File
    PROVE  /\ First(f) \subseteq Chunks(f) /\ 0 \in First(f)
           /\ Cardinality(First(f)) \in Nat
           /\ \A i \in Chunks(f) : i < Cardinality(First(f)) => i \in First(f)
  <1> DEFINE m == IF ChunkCount(f) <= CONCURRENCY THEN ChunkCount(f) ELSE CONCURRENCY
  <1>1. m \in Nat \ {0} /\ m <= ChunkCount(f) /\ m <= CONCURRENCY /\ ChunkCount(f) \in Nat
    BY ContentFacts, ConcurrencyAssumption
  <1>2. First(f) = 0 .. m - 1
    BY <1>1, ConcurrencyAssumption DEF First, Chunks
  <1> HIDE DEF m
  <1>3. Cardinality(First(f)) = m
    <2>1. 0 \in Int /\ m - 1 \in Int
      BY <1>1
    <2>2. Cardinality(0 .. m - 1) = IF 0 > m - 1 THEN 0 ELSE m - 1 - 0 + 1
      BY ONLY <2>1, FS_Interval
    <2>3. Cardinality(0 .. m - 1) = m
      BY <1>1, <2>2
    <2> QED
      BY <1>2, <2>3
  <1>4. /\ First(f) \subseteq Chunks(f) /\ 0 \in First(f)
        /\ \A i \in Chunks(f) : i < m => i \in First(f)
    BY <1>1, <1>2 DEF Chunks
  <1>5. Cardinality(First(f)) \in Nat
    BY <1>1, <1>3
  <1>6. \A i \in Chunks(f) : i < Cardinality(First(f)) => i \in First(f)
    BY <1>3, <1>4
  <1> QED
    BY <1>4, <1>5, <1>6

-----------------------------------------------------------------------------
(* The invariant *)

LEMMA InitInv == Init => IInv
  <1> SUFFICES ASSUME Init PROVE IInv
    OBVIOUS
  <1> USE DEF Init
  <1>1. Shape
    BY DEF Shape, Steps, Hash
  <1>2. HashInv
    BY ContentFacts DEF HashInv, Hashing
  <1>3. SendInv
    BY DEF SendInv
  <1>4. BlobInv /\ FailureExplained
    BY DEF BlobInv, MixtureRefused, FailureExplained
  <1> QED
    BY <1>1, <1>2, <1>3, <1>4 DEF IInv

LEMMA DropInv == ASSUME IInv, NEW f \in File, Drop(f) PROVE IInv'
  <1> USE DEF Drop, Goto, IInv
  <1>1. Shape'
    BY DEF Shape, Steps, Hash
  <1>2. HashInv'
    BY ContentFacts DEF Shape, Steps, HashInv, Hashing
  <1>3. SendInv'
    BY DEF Shape, Steps, SendInv, Chunks, ChunkCount
  <1>4. BlobInv'
    BY DEF BlobInv, MixtureRefused
  <1>5. FailureExplained'
    BY DEF Shape, FailureExplained
  <1> QED
    BY <1>1, <1>2, <1>3, <1>4, <1>5

(* Files that hash at the same time all know of it. *)
LEMMA OverlapFacts ==
    ASSUME Shape, HashInv, NEW f \in File, step[f] = "dropped", Overlapping(f)
    PROVE  /\ overlap \subseteq overlap' /\ overlap' \subseteq File
           /\ \A g \in Hashing \ {f} : f \in overlap' /\ g \in overlap'
  BY DEF Overlapping, Hashing, Shape

LEMMA InitHasherInv == ASSUME IInv, NEW f \in File, InitHasher(f) PROVE IInv'
  <1> USE DEF InitHasher, Goto, IInv
  <1>0. /\ overlap \subseteq overlap' /\ overlap' \subseteq File
        /\ \A g \in Hashing \ {f} : f \in overlap' /\ g \in overlap'
    BY OverlapFacts
  <1>1. CASE Content[f] = <<>>
    <2>1. /\ hash' = [hash EXCEPT ![f] = <<>>] /\ hasher' = [on |-> FALSE, fed |-> <<>>]
          /\ step' = [step EXCEPT ![f] = "hashed"]
      BY <1>1 DEF Digest
    <2>2. Shape'
      BY <1>0, <2>1 DEF Shape, Steps, Hash, server
    <2>3. HashInv'
      BY <1>0, <1>1, <2>1, ContentFacts DEF Shape, Steps, HashInv, Hashing
    <2>4. SendInv'
      BY <2>1 DEF Shape, Steps, SendInv, server
    <2>5. BlobInv' /\ FailureExplained'
      BY <1>0, <2>1 DEF Shape, BlobInv, MixtureRefused, FailureExplained, server
    <2> QED
      BY <2>2, <2>3, <2>4, <2>5
  <1>2. CASE Content[f] # <<>>
    <2>1. /\ hasher' = [on |-> TRUE, fed |-> <<>>] /\ UNCHANGED hash
          /\ step' = [step EXCEPT ![f] = "hashing"]
      BY <1>2
    <2>2. Shape'
      BY <1>0, <2>1 DEF Shape, Steps, Hash, server
    <2>3. HashInv'
      BY <1>0, <1>2, <2>1, ContentFacts DEF Shape, Steps, HashInv, Hashing
    <2>4. SendInv'
      BY <2>1 DEF Shape, Steps, SendInv, server
    <2>5. BlobInv' /\ FailureExplained'
      BY <1>0, <2>1 DEF Shape, BlobInv, MixtureRefused, FailureExplained, server
    <2> QED
      BY <2>2, <2>3, <2>4, <2>5
  <1> QED
    BY <1>1, <1>2

(* What a file that hashes alone has fed after one more chunk. *)
LEMMA FedFacts ==
    ASSUME Shape, HashInv, NEW f \in File, step[f] = "hashing"
    PROVE  LET fed == Append(hasher.fed, Content[f][read[f] + 1]) IN
           /\ fed \in Seq(Data)
           /\ f \notin overlap =>
                 /\ Len(fed) = read[f] + 1
                 /\ \A i \in 1 .. read[f] + 1 : fed[i] = Content[f][i]
                 /\ read[f] + 1 = Len(Content[f]) => fed = Content[f]
  <1> DEFINE fed == Append(hasher.fed, Content[f][read[f] + 1])
  <1>1. read[f] \in Nat /\ hasher.fed \in Seq(Data) /\ read[f] + 1 \in 1 .. Len(Content[f])
    BY ContentFacts DEF Shape, HashInv
  <1>2. Content[f] \in Seq(Data) /\ Content[f][read[f] + 1] \in Data
    BY <1>1, ContentFacts
  <1>3. fed \in Seq(Data)
    BY <1>1, <1>2
  <1>4. ASSUME f \notin overlap
        PROVE  Len(fed) = read[f] + 1 /\ \A i \in 1 .. read[f] + 1 : fed[i] = Content[f][i]
    BY <1>1, <1>2, <1>4 DEF HashInv
  <1>5. ASSUME f \notin overlap, read[f] + 1 = Len(Content[f]) PROVE fed = Content[f]
    <2>1. fed \in Seq(Data) /\ Content[f] \in Seq(Data) /\ Len(fed) = Len(Content[f])
      BY <1>2, <1>3, <1>4, <1>5
    <2>2. \A i \in 1 .. Len(fed) : fed[i] = Content[f][i]
      BY <1>4, <1>5
    <2> HIDE DEF fed
    <2> QED
      BY <2>1, <2>2, SeqEqual
  <1> QED
    BY <1>3, <1>4, <1>5

LEMMA UpdateInv == ASSUME IInv, NEW f \in File, Update(f) PROVE IInv'
  <1> DEFINE fed == Append(hasher.fed, Content[f][read[f] + 1])
  <1> USE DEF IInv
  <1>1. step[f] = "hashing" /\ UNCHANGED <<next, flight, failed, got, blobs, stored, overlap, fault>>
    BY DEF Update, server, history
  <1>2. /\ fed \in Seq(Data)
        /\ f \notin overlap =>
              /\ Len(fed) = read[f] + 1
              /\ \A i \in 1 .. read[f] + 1 : fed[i] = Content[f][i]
              /\ read[f] + 1 = Len(Content[f]) => fed = Content[f]
    BY <1>1, FedFacts
  <1>3. \/ /\ hasher.on /\ read[f] + 1 < Len(Content[f])
           /\ read' = [read EXCEPT ![f] = read[f] + 1]
           /\ hasher' = [hasher EXCEPT !.fed = fed] /\ UNCHANGED <<step, hash>>
        \/ /\ hasher.on /\ read[f] + 1 = Len(Content[f])
           /\ read' = [read EXCEPT ![f] = read[f] + 1]
           /\ hash' = [hash EXCEPT ![f] = fed]
           /\ hasher' = [on |-> FALSE, fed |-> <<>>]
           /\ step' = [step EXCEPT ![f] = "hashed"]
        \/ /\ ~hasher.on /\ step' = [step EXCEPT ![f] = "error"]
           /\ UNCHANGED <<hasher, read, hash>>
    <2>1. /\ read[f] \in Nat /\ read[f] < Len(Content[f]) /\ Len(Content[f]) \in Nat
          /\ read \in [File -> Nat] /\ hasher \in [on : BOOLEAN, fed : Seq(Data)]
      BY <1>1, ContentFacts DEF Shape, HashInv
    <2> HIDE DEF fed
    <2>2. \/ /\ hasher.on
             /\ read' = [read EXCEPT ![f] = read[f] + 1]
             /\ IF read'[f] < Len(Content[f])
                  THEN hasher' = [hasher EXCEPT !.fed = fed] /\ UNCHANGED <<step, hash>>
                  ELSE Digest(f, fed)
          \/ /\ ~hasher.on /\ step' = [step EXCEPT ![f] = "error"]
             /\ UNCHANGED <<hasher, read, hash>>
      BY DEF Update, Goto, fed
    <2> QED
      BY <2>1, <2>2 DEF Digest, Goto
  <1> HIDE DEF fed
  <1>a. /\ [hasher EXCEPT !.fed = fed] \in [on : BOOLEAN, fed : Seq(Data)]
        /\ [hasher EXCEPT !.fed = fed].on = hasher.on
        /\ [hasher EXCEPT !.fed = fed].fed = fed
    <2>1. hasher \in [on : BOOLEAN, fed : Seq(Data)]
      BY DEF Shape
    <2> QED
      BY ONLY <1>2, <2>1
  <1>4. Shape'
    <2>0. read \in [File -> Nat] /\ step \in [File -> Steps]
      BY DEF Shape
    <2>1. read' \in [File -> Nat]
      BY <2>0, <1>3
    <2>7. step' \in [File -> Steps]
      BY <2>0, <1>3 DEF Steps
    <2>2. fed \in Hash /\ hash' \in {hash, [hash EXCEPT ![f] = fed]}
      BY <1>2, <1>3 DEF Hash
    <2>3. hash' \in [File -> Hash]
      BY <2>2 DEF Shape
    <2>4. hasher' \in {hasher, [hasher EXCEPT !.fed = fed], [on |-> FALSE, fed |-> <<>>]}
      BY <1>3
    <2>5. [on |-> FALSE, fed |-> <<>>] \in [on : BOOLEAN, fed : Seq(Data)]
      <3>1. <<>> \in Seq(Data) /\ FALSE \in BOOLEAN
        OBVIOUS
      <3> QED
        BY ONLY <3>1
    <2>6. hasher' \in [on : BOOLEAN, fed : Seq(Data)]
      BY <1>a, <2>4, <2>5 DEF Shape
    <2> QED
      BY <1>1, <2>1, <2>3, <2>6, <2>7 DEF Shape
  <1>5. HashInv'
    <2>1. CASE hasher.on /\ read[f] + 1 < Len(Content[f])
      <3>1. /\ read' = [read EXCEPT ![f] = read[f] + 1]
            /\ hasher'.on /\ hasher'.fed = fed /\ UNCHANGED <<step, hash>>
        BY <1>3, <1>a, <2>1
      <3>2. \A g \in Hashing \ {f} : g \in overlap
        BY <1>1 DEF HashInv, Hashing
      <3> QED
        BY <1>1, <1>2, <2>1, <3>1, <3>2, ContentFacts DEF Shape, HashInv, Hashing
    <2>2. CASE hasher.on /\ read[f] + 1 = Len(Content[f])
      <3>1. /\ read'[f] = read[f] + 1 /\ hash'[f] = fed /\ step'[f] = "hashed"
            /\ \A g \in File \ {f} : /\ read'[g] = read[g] /\ hash'[g] = hash[g]
                                     /\ step'[g] = step[g]
        BY <1>3, <2>2, ContentFacts DEF Shape
      <3>2. \A g \in Hashing \ {f} : g \in overlap
        BY <1>1 DEF HashInv, Hashing
      <3>3. f \notin overlap => hash'[f] = Content[f]
        BY <1>2, <2>2, <3>1
      <3> QED
        BY <1>1, <2>2, <3>1, <3>2, <3>3, ContentFacts DEF HashInv, Hashing
    <2>3. CASE ~hasher.on
      BY <1>1, <1>3, <2>3, ContentFacts DEF Shape, Steps, HashInv, Hashing
    <2> QED
      BY <1>3, <2>1, <2>2, <2>3
  <1>6. SendInv'
    BY <1>1, <1>3 DEF Shape, Steps, SendInv, Chunks, ChunkCount
  <1>7. BlobInv'
    BY <1>1 DEF BlobInv, MixtureRefused
  <1>8. FailureExplained'
    BY <1>1, <1>3 DEF Shape, HashInv, FailureExplained
  <1> QED
    BY <1>4, <1>5, <1>6, <1>7, <1>8

(* A request or a read fails, and nothing is under way any more. *)
LEMMA FailInv ==
    ASSUME IInv, NEW f \in File, step[f] \in {"hashing", "hashed"},
           Goto(f, "error"), fault' = fault \cup {f},
           UNCHANGED <<hasher, read, hash, next, flight, failed, server, overlap>>
    PROVE  IInv'
  <1> USE DEF IInv, Goto, server
  <1>1. Shape'
    BY DEF Shape, Steps, Hash
  <1>2. HashInv'
    BY DEF Shape, Steps, HashInv, Hashing
  <1>3. SendInv'
    BY DEF Shape, Steps, SendInv, Chunks, ChunkCount
  <1>4. BlobInv' /\ FailureExplained'
    BY DEF Shape, BlobInv, MixtureRefused, FailureExplained
  <1> QED
    BY <1>1, <1>2, <1>3, <1>4

LEMMA InitUploadInv == ASSUME IInv, NEW f \in File, InitUpload(f) PROVE IInv'
  <1> USE DEF IInv, Goto, server, history
  <1>1. /\ flight' = [flight EXCEPT ![f] = First(f)]
        /\ next' = [next EXCEPT ![f] = Cardinality(First(f))]
        /\ step[f] = "hashed" /\ step' = [step EXCEPT ![f] = "sending"]
        /\ UNCHANGED <<hasher, read, hash, failed, got, blobs, stored, overlap, fault>>
    BY DEF InitUpload, First
  <1>2. /\ First(f) \subseteq Chunks(f) /\ 0 \in First(f) /\ Cardinality(First(f)) \in Nat
        /\ \A i \in Chunks(f) : i < Cardinality(First(f)) => i \in First(f)
        /\ Chunks(f) \subseteq Nat
    BY FirstChunks, ContentFacts DEF Chunks
  <1>3. Shape'
    BY <1>1, <1>2 DEF Shape, Steps, Hash
  <1>4. HashInv'
    BY <1>1 DEF Shape, Steps, HashInv, Hashing
  <1>5. SendInv'
    BY <1>1, <1>2 DEF Shape, Steps, SendInv
  <1>6. BlobInv' /\ FailureExplained'
    BY <1>1 DEF Shape, BlobInv, MixtureRefused, FailureExplained
  <1> QED
    BY <1>3, <1>4, <1>5, <1>6

LEMMA PutChunkInv == ASSUME IInv, NEW f \in File, NEW i \in flight[f], PutChunk(f, i) PROVE IInv'
  <1> USE DEF IInv, history
  <1>1. /\ got' = [got EXCEPT ![f] = @ \cup {i}]
        /\ flight' = [flight EXCEPT ![f] = (@ \ {i}) \cup ({next[f]} \cap Chunks(f))]
        /\ next' = [next EXCEPT ![f] = @ + 1]
        /\ UNCHANGED <<step, hasher, read, hash, failed, blobs, stored, overlap, fault>>
    BY DEF PutChunk, RunOne
  <1>2. i \in Chunks(f) /\ Chunks(f) = 0 .. ChunkCount(f) - 1 /\ ChunkCount(f) \in Nat
    BY ContentFacts DEF SendInv, Chunks
  <1>3. Shape'
    BY <1>1, <1>2 DEF Shape, Hash
  <1>4. HashInv'
    BY <1>1 DEF HashInv, Hashing
  <1>5. SendInv'
    <2>1. ASSUME NEW g \in File \ {f}
          PROVE  flight'[g] = flight[g] /\ got'[g] = got[g] /\ next'[g] = next[g]
      BY <1>1 DEF Shape
    <2>2. /\ flight'[f] = (flight[f] \ {i}) \cup ({next[f]} \cap Chunks(f))
          /\ got'[f] = got[f] \cup {i} /\ next'[f] = next[f] + 1 /\ next[f] \in Nat
      BY <1>1 DEF Shape
    <2>3. step[f] = "sending"
      BY DEF SendInv
    <2>4. /\ flight'[f] = {} => next'[f] >= ChunkCount(f)
          /\ \A k \in Chunks(f) : k < next'[f] /\ k # next[f] => k < next[f]
      BY <1>2, <2>2
    <2> QED
      BY <1>1, <1>2, <2>1, <2>2, <2>3, <2>4 DEF SendInv
  <1>6. BlobInv' /\ FailureExplained'
    BY <1>1 DEF BlobInv, MixtureRefused, FailureExplained
  <1> QED
    BY <1>3, <1>4, <1>5, <1>6

LEMMA PutChunkFailsInv ==
    ASSUME IInv, NEW f \in File, NEW i \in flight[f], PutChunkFails(f, i) PROVE IInv'
  <1> USE DEF IInv
  <1>1. /\ got' \in {got, [got EXCEPT ![f] = @ \cup {i}]}
        /\ flight' = [flight EXCEPT ![f] = @ \ {i}]
        /\ failed' = failed \cup {f} /\ fault' = fault \cup {f}
        /\ UNCHANGED <<step, hasher, read, hash, next, blobs, stored, overlap>>
    BY DEF PutChunkFails
  <1>2. i \in Chunks(f) /\ Chunks(f) \subseteq Nat
    BY ContentFacts DEF SendInv, Chunks
  <1>3. Shape'
    <2>1. got' \in [File -> SUBSET Nat] /\ flight' \in [File -> SUBSET Nat]
      BY <1>1, <1>2 DEF Shape
    <2> QED
      BY <1>1, <2>1 DEF Shape, Hash
  <1>4. HashInv'
    BY <1>1 DEF HashInv, Hashing
  <1>5. SendInv'
    BY <1>1, <1>2 DEF Shape, SendInv
  <1>6. BlobInv' /\ FailureExplained'
    BY <1>1 DEF BlobInv, MixtureRefused, FailureExplained
  <1> QED
    BY <1>3, <1>4, <1>5, <1>6

(* The upload is over: finalized, refused, or given up. *)
LEMMA OverInv ==
    ASSUME IInv, NEW f \in File, WorkersDone(f),
           Goto(f, "done") \/ (Goto(f, "error") /\ f \in overlap \cup fault'),
           Commit(f) \/ UNCHANGED server,
           fault' \in {fault, fault \cup {f}},
           UNCHANGED <<hasher, read, hash, next, flight, failed, overlap>>
    PROVE  IInv'
  <1> USE DEF IInv, Goto, WorkersDone
  <1>1. /\ step[f] = "sending" /\ flight[f] = {}
        /\ step' \in {[step EXCEPT ![f] = "done"], [step EXCEPT ![f] = "error"]}
        /\ \A g \in File \ {f} : step'[g] = step[g]
        /\ step'[f] \in {"done", "error"}
        /\ step' \in [File -> Steps]
    BY DEF Shape, Steps
  <1>2. /\ got' = got
        /\ hash[f] \in Hash /\ stored' \in {stored, [stored EXCEPT ![f] = hash[f]]}
        /\ \/ UNCHANGED <<blobs, stored>>
           \/ /\ hash[f] \in Range(Content)
              /\ blobs' = blobs \cup {hash[f]}
              /\ stored' = [stored EXCEPT ![f] = hash[f]]
    BY ContentFacts DEF Commit, Accepts, BlobInv, server, Shape
  <1>3. Shape'
    BY <1>1, <1>2 DEF Shape, Hash
  <1>4. HashInv'
    BY <1>1 DEF HashInv, Hashing
  <1>5. SendInv'
    BY <1>1, <1>2 DEF SendInv
  <1>6. BlobInv'
    BY <1>2 DEF BlobInv, MixtureRefused, Shape
  <1>7. FailureExplained'
    BY <1>1 DEF FailureExplained, Shape
  <1> QED
    BY <1>3, <1>4, <1>5, <1>6, <1>7

(* The server refuses no upload whose hashing met no other, and none of    *)
(* whose requests failed.                                                  *)
LEMMA AcceptedAlone ==
    ASSUME IInv, NEW f \in File, WorkersDone(f), f \notin overlap \cup fault
    PROVE  Accepts(f)
  <1> USE DEF IInv, WorkersDone
  <1>1. hash[f] = Content[f]
    BY DEF HashInv
  <1>2. \A i \in Chunks(f) : i < next[f]
    <2>1. next[f] >= ChunkCount(f)
      BY DEF SendInv
    <2>2. next[f] \in Nat /\ ChunkCount(f) \in Nat
      BY ContentFacts DEF Shape
    <2> QED
      BY <2>1, <2>2 DEF Chunks
  <1>3. got[f] = Chunks(f)
    BY <1>2 DEF SendInv
  <1> QED
    BY <1>1, <1>3 DEF Accepts

LEMMA NextInv == IInv /\ [Next]_vars => IInv'
  <1>1. ASSUME IInv, UNCHANGED vars PROVE IInv'
    <2> USE <1>1 DEF IInv, vars, page, server, history
    <2>1. Shape'
      BY DEF Shape, Hash
    <2>2. HashInv'
      BY DEF HashInv, Hashing
    <2>3. SendInv'
      BY DEF SendInv
    <2>4. BlobInv' /\ FailureExplained'
      BY DEF BlobInv, MixtureRefused, FailureExplained
    <2> QED
      BY <2>1, <2>2, <2>3, <2>4
  <1>2. ASSUME IInv, NEW f \in File, Finalize(f) PROVE IInv'
    <2>1. /\ WorkersDone(f) /\ fault' = fault
          /\ UNCHANGED <<hasher, read, hash, next, flight, failed, overlap>>
      BY <1>2 DEF Finalize, history
    <2>2. \/ Commit(f) /\ Goto(f, "done")
          \/ ~Accepts(f) /\ Goto(f, "error") /\ UNCHANGED server
      BY <1>2 DEF Finalize
    <2>3. CASE Commit(f) /\ Goto(f, "done")
      <3>1. /\ Goto(f, "done") \/ (Goto(f, "error") /\ f \in overlap \cup fault')
            /\ Commit(f) \/ UNCHANGED server
            /\ fault' \in {fault, fault \cup {f}}
        BY <2>1, <2>3
      <3> QED
        BY <1>2, <2>1, <3>1, OverInv
    <2>4. CASE ~Accepts(f) /\ Goto(f, "error") /\ UNCHANGED server
      <3>1. f \in overlap \cup fault'
        BY <1>2, <2>1, <2>4, AcceptedAlone
      <3> QED
        BY <1>2, <2>1, <2>4, <3>1, OverInv
    <2> QED
      BY <2>2, <2>3, <2>4
  <1>3. ASSUME IInv, NEW f \in File, FinalizeFails(f) PROVE IInv'
    BY <1>3, OverInv DEF FinalizeFails
  <1>4. ASSUME IInv, NEW f \in File, GiveUp(f) PROVE IInv'
    BY <1>4, OverInv DEF GiveUp, history, IInv, SendInv
  <1>5. ASSUME IInv, NEW f \in File, ReadFails(f) \/ InitUploadFails(f) PROVE IInv'
    BY <1>5, FailInv DEF ReadFails, InitUploadFails
  <1> QED
    BY <1>1, <1>2, <1>3, <1>4, <1>5, DropInv, InitHasherInv, UpdateInv, InitUploadInv,
       PutChunkInv, PutChunkFailsInv
    DEF Next, Proceed, Fault

LEMMA Invariant == Spec => []IInv
  BY InitInv, NextInv, PTL DEF Spec

-----------------------------------------------------------------------------

(* The page and the server keep their types, and a chunk in flight or       *)
(* received is one of its file's (upload.js:145-153, 196-215).              *)
THEOREM UploadTypeCorrect == Spec => []TypeOK
  <1>1. IInv => TypeOK
    BY ContentFacts DEF IInv, Shape, Steps, HashInv, SendInv, TypeOK
  <1> QED
    BY <1>1, Invariant, PTL

(* However many files share the hasher of the page (upload.js:83-111), one  *)
(* that no other overlaps announces its own hash.                           *)
THEOREM AloneHashed == Spec => []AloneHashesItself
  <1>1. IInv => AloneHashesItself
    BY DEF IInv, HashInv, AloneHashesItself
  <1> QED
    BY <1>1, Invariant, PTL

(* Whatever is announced, what gets a row is the content of one file: the   *)
(* server compares the hash of what it has received (service.rs:310-318),   *)
(* and what it has on disk passed that comparison before.                   *)
THEOREM MixturesRefused == Spec => []MixtureRefused
  <1>1. IInv => MixtureRefused
    BY DEF IInv, BlobInv
  <1> QED
    BY <1>1, Invariant, PTL

(* An upload ends in an error only after a failure of its own requests or   *)
(* reads, or because its hashing met another file's: the workers of         *)
(* runWithConcurrency send every chunk before they all return               *)
(* (upload.js:196-215).                                                     *)
THEOREM FailuresExplained == Spec => []FailureExplained
  <1>1. IInv => FailureExplained
    BY DEF IInv
  <1> QED
    BY <1>1, Invariant, PTL
=============================================================================
