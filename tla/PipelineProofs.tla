--------------------------- MODULE PipelineProofs ---------------------------
(***************************************************************************)
(* Proofs about Pipeline for any files, threads and queue capacities: a    *)
(* file in the manifest is whole, a pipeline that reports success has left *)
(* no file out, and without an error no producer meets a closed queue.     *)
(***************************************************************************)
EXTENDS Pipeline, FiniteSetTheorems, TLAPS

Elems(q) == {q[i] : i \in 1..Len(q)}

Distinct(q) == \A i, j \in 1..Len(q) : q[i] = q[j] => i = j

(* What a thread has in hand.                                              *)
Encoding(k) == compressor[k] = "encode"
Storing(s) == storer[s] = "store"

HandsOK ==
    /\ \A w \in Workers : reader[w] = "read" => readerFile[w] \in Files
    /\ \A w \in Workers : chunker[w] \in {"chunk", "complete", "finalize"}
                             => chunkerFile[w] \in Files
    /\ \A k \in Compressors : Encoding(k) => compTask[k] \in Task
    /\ \A s \in Storers : Storing(s) => storeTask[s] \in Task

(* Main has not come to these workers yet.                                 *)
Unstarted ==
    \A w \in Workers : w > cur \/ (w = cur /\ mainPc = "start")
                          => reader[w] = "idle" /\ chunker[w] = "idle"

(* Without an error the queues are closed from the first to the last, each *)
(* by the last of its producers, and a thread that has left has drained    *)
(* its queue.                                                              *)
CloseOrder ==
    error \/
        /\ \A w \in Workers :
              /\ FileQueue(w) \in closed => w < cur \/ mainPc \in {"join", "returned"}
              /\ reader[w] = "done" => FileQueue(w) \in closed /\ fileQ[w] = <<>>
              /\ ReadQueue(w) \in closed => reader[w] = "done"
              /\ chunker[w] = "done" => ReadQueue(w) \in closed /\ readQ[w] = <<>>
              /\ chunker[w] # "closing"
              /\ ChunkQueue \in closed => chunker[w] = "done"
        /\ \A k \in Compressors :
              /\ compressor[k] = "done" => ChunkQueue \in closed /\ chunkQ = <<>>
              /\ compressor[k] # "closing"
              /\ EncodedQueue \in closed => compressor[k] = "done"
        /\ \A s \in Storers :
              /\ storer[s] = "done" => EncodedQueue \in closed /\ encodedQ = <<>>
              /\ storer[s] # "closing"

(* Chunks are counted before they are pushed, and all of them before the   *)
(* file counts as cut.                                                     *)
CountsOK ==
    /\ \A f \in Files : pushed[f] <= total[f] /\ total[f] <= NumChunks[f]
    /\ \A f \in complete : total[f] = NumChunks[f]
    /\ \A w \in Workers : chunker[w] \in {"complete", "finalize"}
                             => total[chunkerFile[w]] = NumChunks[chunkerFile[w]]

(* A task on its way was pushed, and its hash is not recorded yet.         *)
OnItsWay(t) == t.chunk \in 1..pushed[t.file] /\ t.chunk \notin hashes[t.file]

(* No task is in two places.                                               *)
TasksOnce ==
    /\ Distinct(chunkQ) /\ Distinct(encodedQ)
    /\ \A t \in Elems(chunkQ) : OnItsWay(t) /\ t \notin Elems(encodedQ)
    /\ \A t \in Elems(encodedQ) : OnItsWay(t)
    /\ \A k \in Compressors : Encoding(k) =>
          /\ OnItsWay(compTask[k])
          /\ compTask[k] \notin Elems(chunkQ) /\ compTask[k] \notin Elems(encodedQ)
          /\ \A j \in Compressors : Encoding(j) /\ compTask[j] = compTask[k] => j = k
    /\ \A s \in Storers : Storing(s) =>
          /\ OnItsWay(storeTask[s])
          /\ storeTask[s] \notin Elems(chunkQ) /\ storeTask[s] \notin Elems(encodedQ)
          /\ \A k \in Compressors : Encoding(k) => compTask[k] # storeTask[s]
          /\ \A r \in Storers : Storing(r) /\ storeTask[r] = storeTask[s] => r = s

(* So chunks_done counts the hashes.                                       *)
DoneCounts ==
    \A f \in Files : /\ hashes[f] \subseteq 1..pushed[f]
                     /\ done[f] = Cardinality(hashes[f])

(* A file that is cut is in the manifest, or waits for its chunker, or for *)
(* the store worker of a chunk.                                            *)
FinalizeDue ==
    \A f \in complete :
        \/ f \in finalized
        \/ \E w \in Workers : chunker[w] = "finalize" /\ chunkerFile[w] = f
        \/ done[f] < total[f]

(* Without an error every file and every chunk is somewhere.               *)
Awaited(w, i) ==
    w > cur \/ (w = cur /\ (mainPc = "start" \/ (mainPc = "push" /\ i >= nextFile)))

InHands(w, f) ==
    \/ f \in Elems(fileQ[w])
    \/ reader[w] = "read" /\ readerFile[w] = f
    \/ f \in issues
    \/ f \in Elems(readQ[w])
    \/ chunker[w] \in {"chunk", "complete"} /\ chunkerFile[w] = f
    \/ f \in complete

FilesAccounted ==
    \A w \in Workers : \A i \in 1..Len(Assigned[w]) :
        Awaited(w, i) \/ InHands(w, Assigned[w][i])

TaskSomewhere(f, i) ==
    \/ i \in hashes[f]
    \/ TaskOf(f, i) \in Elems(chunkQ) \union Elems(encodedQ)
    \/ \E k \in Compressors : Encoding(k) /\ compTask[k] = TaskOf(f, i)
    \/ \E s \in Storers : Storing(s) /\ storeTask[s] = TaskOf(f, i)

TasksAccounted ==
    \A f \in Files : f \notin finalized => \A i \in 1..pushed[f] : TaskSomewhere(f, i)

PushedAll ==
    /\ \A f \in complete : pushed[f] = total[f]
    /\ \A w \in Workers : chunker[w] \in {"complete", "finalize"}
                             => pushed[chunkerFile[w]] = total[chunkerFile[w]]

IInv ==
    /\ TypeOK /\ HandsOK /\ Unstarted /\ CloseOrder
    /\ CountsOK /\ TasksOnce /\ DoneCounts /\ EntriesWhole /\ FinalizeDue
    /\ error \/ (FilesAccounted /\ TasksAccounted /\ PushedAll)
    /\ result # "running" => mainPc = "returned"
    /\ NothingLeftOut

-----------------------------------------------------------------------------
(* Queues: what the ends of a sequence do to its elements.                 *)

(* What Push adds to a queue. *)
LEMMA AppendElems ==
    ASSUME NEW T, NEW q \in Seq(T), NEW x \in T
    PROVE  /\ Append(q, x) \in Seq(T) /\ Len(Append(q, x)) = Len(q) + 1
           /\ Elems(Append(q, x)) = Elems(q) \union {x}
           /\ Distinct(q) /\ x \notin Elems(q) => Distinct(Append(q, x))
  <1> DEFINE r == Append(q, x)
  <1>1. /\ r \in Seq(T) /\ Len(r) = Len(q) + 1 /\ Len(q) \in Nat
        /\ \A i \in 1..Len(q) : r[i] = q[i]
        /\ r[Len(q) + 1] = x
    OBVIOUS
  <1> HIDE DEF r
  <1>2. 1..(Len(q) + 1) = 1..Len(q) \union {Len(q) + 1}
    BY <1>1
  <1>3. Elems(r) = Elems(q) \union {x}
    BY <1>1, <1>2 DEF Elems
  <1>4. ASSUME Distinct(q), x \notin Elems(q)
        PROVE  Distinct(r)
    <2> SUFFICES ASSUME NEW i \in 1..Len(r), NEW j \in 1..Len(r), r[i] = r[j]
                 PROVE  i = j
      BY DEF Distinct
    <2>1. \A n \in 1..Len(q) : q[n] # x
      BY <1>4 DEF Elems
    <2> QED BY <1>1, <1>2, <1>4, <2>1 DEF Distinct
  <1> QED BY <1>1, <1>3, <1>4 DEF r

(* What Pop takes from a queue. *)
LEMMA TailElems ==
    ASSUME NEW T, NEW q \in Seq(T), q # <<>>
    PROVE  /\ Head(q) \in T /\ Tail(q) \in Seq(T) /\ Len(Tail(q)) = Len(q) - 1
           /\ Head(q) \in Elems(q)
           /\ Elems(q) = Elems(Tail(q)) \union {Head(q)}
           /\ Distinct(q) => Distinct(Tail(q)) /\ Head(q) \notin Elems(Tail(q))
  <1> DEFINE r == Tail(q)
  <1>1. /\ r \in Seq(T) /\ Len(r) = Len(q) - 1 /\ Len(q) \in Nat \ {0}
        /\ \A i \in 1..Len(r) : r[i] = q[i + 1]
        /\ Head(q) = q[1] /\ q[1] \in T
    OBVIOUS
  <1> HIDE DEF r
  <1>2. Head(q) \in Elems(q)
    BY <1>1 DEF Elems
  <1>3. Elems(q) = Elems(r) \union {Head(q)}
    <2>1. ASSUME NEW x \in Elems(q), x # Head(q)
          PROVE  x \in Elems(r)
      <3>1. PICK i \in 1..Len(q) : x = q[i]
        BY <2>1 DEF Elems
      <3>2. i # 1
        BY <1>1, <2>1, <3>1
      <3>3. i - 1 \in 1..Len(r) /\ r[i - 1] = x
        BY <1>1, <3>1, <3>2
      <3> QED BY <3>3 DEF Elems
    <2>2. ASSUME NEW x \in Elems(r)
          PROVE  x \in Elems(q)
      <3>1. PICK i \in 1..Len(r) : x = r[i]
        BY <2>2 DEF Elems
      <3>2. i + 1 \in 1..Len(q) /\ x = q[i + 1]
        BY <1>1, <3>1
      <3> QED BY <3>2 DEF Elems
    <2> QED BY <1>2, <2>1, <2>2
  <1>4. ASSUME Distinct(q)
        PROVE  Distinct(r) /\ Head(q) \notin Elems(r)
    <2>1. Distinct(r)
      <3> SUFFICES ASSUME NEW i \in 1..Len(r), NEW j \in 1..Len(r), r[i] = r[j]
                   PROVE  i = j
        BY DEF Distinct
      <3>1. i + 1 \in 1..Len(q) /\ j + 1 \in 1..Len(q) /\ q[i + 1] = q[j + 1]
        BY <1>1
      <3>2. i + 1 = j + 1
        BY <1>4, <3>1 DEF Distinct
      <3> QED BY <1>1, <3>2
    <2>2. ASSUME Head(q) \in Elems(r)
          PROVE  FALSE
      <3>1. PICK i \in 1..Len(r) : q[1] = r[i]
        BY <1>1, <2>2 DEF Elems
      <3>2. i + 1 \in 1..Len(q) /\ 1 \in 1..Len(q) /\ q[i + 1] = q[1] /\ i \in Nat
        BY <1>1, <3>1
      <3> QED BY <1>4, <3>1, <3>2 DEF Distinct
    <2> QED BY <2>1, <2>2
  <1> QED BY <1>1, <1>2, <1>3, <1>4 DEF r

(* The elements of a queue have its type. *)
LEMMA ElemsType ==
    ASSUME NEW T, NEW q \in Seq(T)
    PROVE  Elems(q) \subseteq T
  BY DEF Elems

(* An empty queue has no elements. *)
LEMMA EmptyElems == Elems(<<>>) = {} /\ Distinct(<<>>)
  BY DEF Elems, Distinct

-----------------------------------------------------------------------------
(* Types.                                                                  *)

(* The queues are all different. *)
LEMMA QueueNames ==
    /\ \A v, w : /\ FileQueue(v) # ReadQueue(w)
                 /\ FileQueue(v) = FileQueue(w) => v = w
                 /\ ReadQueue(v) = ReadQueue(w) => v = w
    /\ \A w : /\ FileQueue(w) \notin {ChunkQueue, EncodedQueue}
              /\ ReadQueue(w) \notin {ChunkQueue, EncodedQueue}
    /\ ChunkQueue # EncodedQueue
  BY DEF FileQueue, ReadQueue, ChunkQueue, EncodedQueue

AllQueues ==
    {FileQueue(w) : w \in Workers} \union {ReadQueue(w) : w \in Workers}
        \union {ChunkQueue, EncodedQueue}

(* The queues that are closed together are queues. *)
LEMMA QueueTypes ==
    /\ \A w \in Workers : FileQueue(w) \in AllQueues /\ ReadQueue(w) \in AllQueues
    /\ ChunkQueue \in AllQueues /\ EncodedQueue \in AllQueues
    /\ Registered \subseteq AllQueues
  BY DEF AllQueues, Registered

(* The types hold before any thread has started. *)
LEMMA TypeInit == Init => TypeOK
  <1> SUFFICES ASSUME Init PROVE TypeOK
    OBVIOUS
  <1>1. error \in BOOLEAN
    BY DEF Init
  <1>2. cur \in Workers /\ nextFile \in Nat \ {0}
    BY WorkersAssumption DEF Init, Workers
  <1>3. /\ fileQ \in [Workers -> Seq(Files)] /\ readQ \in [Workers -> Seq(Files)]
        /\ \A w \in Workers : Len(fileQ[w]) <= QueueDepth /\ Len(readQ[w]) <= QueueDepth
        /\ chunkQ \in Seq(Task) /\ Len(chunkQ) <= StageDepth
        /\ encodedQ \in Seq(Task) /\ Len(encodedQ) <= StageDepth
    BY DepthAssumption DEF Init
  <1>4. /\ total \in [Files -> Nat] /\ pushed \in [Files -> Nat] /\ done \in [Files -> Nat]
        /\ hashes \in [Files -> SUBSET Nat]
        /\ {complete, finalized, issues} \subseteq SUBSET Files
    BY DEF Init
  <1>5. /\ readerFile \in [Workers -> Files \union {None}]
        /\ chunkerFile \in [Workers -> Files \union {None}]
        /\ compTask \in [Compressors -> TaskOrNone]
        /\ storeTask \in [Storers -> TaskOrNone]
    BY DEF Init, TaskOrNone
  <1> QED BY <1>1, <1>2, <1>3, <1>4, <1>5 DEF Init, TypeOK

(* A thread that leaves keeps its types. *)
LEMMA ExitTypes ==
    ASSUME TypeOK
    PROVE  /\ \A w \in Workers : ReaderExit(w) =>
                 /\ closed' \subseteq AllQueues
                 /\ reader' \in [Workers -> {"idle", "pop", "read", "done"}]
                 /\ readerFile' \in [Workers -> Files \union {None}]
           /\ \A w \in Workers : ChunkerExit(w) =>
                 /\ closed' \subseteq AllQueues
                 /\ chunker' \in [Workers -> {"idle", "pop", "chunk", "closing", "complete",
                                              "finalize", "done"}]
                 /\ chunkerFile' \in [Workers -> Files \union {None}]
           /\ \A k \in Compressors : CompressorExit(k) =>
                 /\ closed' \subseteq AllQueues
                 /\ compressor' \in [Compressors -> {"pop", "encode", "closing", "done"}]
                 /\ compTask' \in [Compressors -> TaskOrNone]
           /\ \A s \in Storers : StorerExit(s) =>
                 /\ storer' \in [Storers -> {"pop", "store", "closing", "done"}]
                 /\ storeTask' \in [Storers -> TaskOrNone]
  <1>1. closed \subseteq AllQueues
    BY DEF TypeOK, AllQueues
  <1>2. ASSUME NEW w \in Workers, ReaderExit(w)
        PROVE  /\ closed' \subseteq AllQueues
               /\ reader' \in [Workers -> {"idle", "pop", "read", "done"}]
               /\ readerFile' \in [Workers -> Files \union {None}]
    BY <1>1, <1>2, QueueTypes DEF ReaderExit, TypeOK
  <1>3. ASSUME NEW w \in Workers, ChunkerExit(w)
        PROVE  /\ closed' \subseteq AllQueues
               /\ chunker' \in [Workers -> {"idle", "pop", "chunk", "closing", "complete",
                                            "finalize", "done"}]
               /\ chunkerFile' \in [Workers -> Files \union {None}]
    BY <1>1, <1>3, QueueTypes DEF ChunkerExit, TypeOK
  <1>4. ASSUME NEW k \in Compressors, CompressorExit(k)
        PROVE  /\ closed' \subseteq AllQueues
               /\ compressor' \in [Compressors -> {"pop", "encode", "closing", "done"}]
               /\ compTask' \in [Compressors -> TaskOrNone]
    BY <1>1, <1>4, QueueTypes DEF CompressorExit, TypeOK, TaskOrNone
  <1>5. ASSUME NEW s \in Storers, StorerExit(s)
        PROVE  /\ storer' \in [Storers -> {"pop", "store", "closing", "done"}]
               /\ storeTask' \in [Storers -> TaskOrNone]
    BY <1>5 DEF StorerExit, TypeOK, TaskOrNone
  <1> QED BY <1>2, <1>3, <1>4, <1>5

(* Steps of the calling thread keep the types. *)
LEMMA MainType ==
    ASSUME TypeOK, HandsOK, Main
    PROVE  TypeOK' /\ HandsOK'
  <1> USE DEF queueVars, mainVars, readerVars, chunkerVars, compVars, storeVars, stateVars
  <1>1. CASE StartWorker
    <2>1. /\ reader' \in [Workers -> {"idle", "pop", "read", "done"}]
          /\ chunker' \in [Workers -> {"idle", "pop", "chunk", "closing", "complete",
                                       "finalize", "done"}]
      BY <1>1 DEF StartWorker, TypeOK
    <2>2. nextFile' \in Nat \ {0}
      BY <1>1 DEF StartWorker
    <2>3. TypeOK'
      BY <1>1, <2>1, <2>2 DEF StartWorker, TypeOK
    <2> QED BY <1>1, <2>3 DEF StartWorker, TypeOK, HandsOK, Encoding, Storing
  <1>2. CASE PushFile
    <2>1. Assigned[cur][nextFile] \in Files /\ fileQ[cur] \in Seq(Files)
      <3>1. cur \in Workers /\ nextFile \in Nat \ {0} /\ nextFile <= Len(Assigned[cur])
        BY <1>2 DEF PushFile, TypeOK
      <3>2. Assigned[cur] \in Seq(Files)
        BY <3>1, AssignedAssumption
      <3> QED BY <3>1, <3>2 DEF TypeOK
    <2>2. Append(fileQ[cur], Assigned[cur][nextFile]) \in Seq(Files)
      BY <2>1, AppendElems
    <2>3. Len(Append(fileQ[cur], Assigned[cur][nextFile])) <= QueueDepth
      BY <1>2, <2>1, AppendElems, DepthAssumption DEF PushFile, Room
    <2>4. /\ fileQ' \in [Workers -> Seq(Files)]
          /\ \A w \in Workers : Len(fileQ'[w]) <= QueueDepth
      BY <1>2, <2>2, <2>3 DEF PushFile, TypeOK
    <2>5. nextFile' \in Nat \ {0}
      BY <1>2 DEF PushFile, TypeOK
    <2>6. TypeOK'
      BY <1>2, <2>4, <2>5 DEF PushFile, TypeOK
    <2> QED BY <1>2, <2>6 DEF PushFile, HandsOK, Encoding, Storing
  <1>3. CASE CloseFileQueue
    <2>1. closed' \subseteq AllQueues
      BY <1>3, QueueTypes DEF CloseFileQueue, TypeOK, AllQueues
    <2>2. cur' \in Workers /\ mainPc' \in {"start", "push", "join", "returned"}
      BY <1>3, WorkersAssumption DEF CloseFileQueue, TypeOK, Workers
    <2>3. TypeOK'
      BY <1>3, <2>1, <2>2 DEF CloseFileQueue, TypeOK, AllQueues
    <2> QED BY <1>3, <2>3 DEF CloseFileQueue, HandsOK, Encoding, Storing
  <1>4. CASE Join
    <2>1. TypeOK'
      BY <1>4 DEF Join, TypeOK
    <2> QED BY <1>4, <2>1 DEF Join, HandsOK, Encoding, Storing
  <1> QED BY <1>1, <1>2, <1>3, <1>4 DEF Main

(* Steps of a reader keep the types. *)
LEMMA ReaderType ==
    ASSUME TypeOK, HandsOK, NEW w \in Workers, Reader(w)
    PROVE  TypeOK' /\ HandsOK'
  <1> USE DEF queueVars, mainVars, readerVars, chunkerVars, compVars, storeVars, stateVars
  <1>1. CASE ReaderPop(w)
    <2>1. fileQ[w] \in Seq(Files) /\ fileQ[w] # <<>>
      BY <1>1 DEF ReaderPop, TypeOK
    <2>2. /\ Head(fileQ[w]) \in Files /\ Tail(fileQ[w]) \in Seq(Files)
          /\ Len(Tail(fileQ[w])) <= QueueDepth
      BY <2>1, TailElems, DepthAssumption DEF TypeOK
    <2>3. /\ fileQ' \in [Workers -> Seq(Files)]
          /\ \A v \in Workers : Len(fileQ'[v]) <= QueueDepth
      BY <1>1, <2>2 DEF ReaderPop, TypeOK
    <2>4. CASE error
      <3>1. TypeOK'
        BY <1>1, <2>3, <2>4, ExitTypes DEF ReaderPop, TypeOK, AllQueues
      <3> QED BY <1>1, <2>4, <3>1 DEF ReaderPop, ReaderExit, TypeOK, HandsOK, Encoding, Storing
    <2>5. CASE ~error
      <3>1. TypeOK'
        BY <1>1, <2>2, <2>3, <2>5 DEF ReaderPop, TypeOK
      <3> QED BY <1>1, <2>2, <2>5, <3>1 DEF ReaderPop, TypeOK, HandsOK, Encoding, Storing
    <2> QED BY <2>4, <2>5
  <1>2. CASE ReaderLeave(w)
    <2>1. TypeOK'
      BY <1>2, ExitTypes DEF ReaderLeave, TypeOK, AllQueues
    <2> QED BY <1>2, <2>1 DEF ReaderLeave, ReaderExit, TypeOK, HandsOK, Encoding, Storing
  <1>3. CASE ReadUnreadable(w)
    <2>1. readerFile[w] \in Files
      BY <1>3 DEF ReadUnreadable, HandsOK
    <2>2. TypeOK'
      BY <1>3, <2>1 DEF ReadUnreadable, TypeOK
    <2> QED BY <1>3, <2>2 DEF ReadUnreadable, TypeOK, HandsOK, Encoding, Storing
  <1>4. CASE ReadFile(w)
    <2>1. readerFile[w] \in Files /\ readQ[w] \in Seq(Files)
      BY <1>4 DEF ReadFile, HandsOK, TypeOK
    <2>2. /\ Append(readQ[w], readerFile[w]) \in Seq(Files)
          /\ Len(Append(readQ[w], readerFile[w])) <= QueueDepth
      BY <1>4, <2>1, AppendElems, DepthAssumption DEF ReadFile, Room
    <2>3. TypeOK'
      BY <1>4, <2>2 DEF ReadFile, TypeOK
    <2> QED BY <1>4, <2>3 DEF ReadFile, TypeOK, HandsOK, Encoding, Storing
  <1> QED BY <1>1, <1>2, <1>3, <1>4 DEF Reader

(* Steps of a chunker keep the types. *)
LEMMA ChunkerType ==
    ASSUME TypeOK, HandsOK, NEW w \in Workers, Chunker(w)
    PROVE  TypeOK' /\ HandsOK'
  <1> USE DEF queueVars, mainVars, readerVars, chunkerVars, compVars, storeVars, stateVars
  <1>1. CASE ChunkerPop(w)
    <2>1. readQ[w] \in Seq(Files) /\ readQ[w] # <<>>
      BY <1>1 DEF ChunkerPop, TypeOK
    <2>2. /\ Head(readQ[w]) \in Files /\ Tail(readQ[w]) \in Seq(Files)
          /\ Len(Tail(readQ[w])) <= QueueDepth
      BY <2>1, TailElems, DepthAssumption DEF TypeOK
    <2>3. /\ readQ' \in [Workers -> Seq(Files)]
          /\ \A v \in Workers : Len(readQ'[v]) <= QueueDepth
      BY <1>1, <2>2 DEF ChunkerPop, TypeOK
    <2>4. CASE error
      <3>1. TypeOK'
        BY <1>1, <2>3, <2>4, ExitTypes DEF ChunkerPop, TypeOK, AllQueues
      <3> QED BY <1>1, <2>4, <3>1 DEF ChunkerPop, ChunkerExit, TypeOK, HandsOK, Encoding, Storing
    <2>5. CASE ~error
      <3>1. TypeOK'
        BY <1>1, <2>2, <2>3, <2>5 DEF ChunkerPop, TypeOK
      <3> QED BY <1>1, <2>2, <2>5, <3>1 DEF ChunkerPop, TypeOK, HandsOK, Encoding, Storing
    <2> QED BY <2>4, <2>5
  <1>2. CASE ChunkerLeave(w)
    <2>1. TypeOK'
      BY <1>2, ExitTypes DEF ChunkerLeave, TypeOK, AllQueues
    <2> QED BY <1>2, <2>1 DEF ChunkerLeave, ChunkerExit, TypeOK, HandsOK, Encoding, Storing
  <1>3. CASE CutBatch(w)
    <2>1. PICK n \in (total[chunkerFile[w]] + 1)..NumChunks[chunkerFile[w]] :
             total' = [total EXCEPT ![chunkerFile[w]] = n]
      BY <1>3 DEF CutBatch
    <2>2. chunkerFile[w] \in Files
      BY <1>3 DEF CutBatch, HandsOK
    <2>3. total' \in [Files -> Nat]
      BY <2>1, <2>2, ChunksAssumption DEF TypeOK
    <2>4. TypeOK'
      BY <1>3, <2>3 DEF CutBatch, TypeOK
    <2> QED BY <1>3, <2>4 DEF CutBatch, HandsOK, Encoding, Storing
  <1>4. CASE PushChunk(w)
    <2>1. chunkerFile[w] \in Files
      BY <1>4 DEF PushChunk, HandsOK
    <2>2. TaskOf(chunkerFile[w], pushed[chunkerFile[w]] + 1) \in Task
      BY <2>1 DEF TaskOf, Task, TypeOK
    <2>3. chunkQ' \in Seq(Task) /\ Len(chunkQ') <= StageDepth
      BY <1>4, <2>2, AppendElems, DepthAssumption DEF PushChunk, Room, TypeOK
    <2>4. pushed' \in [Files -> Nat]
      BY <1>4, <2>1 DEF PushChunk, TypeOK
    <2>5. TypeOK'
      BY <1>4, <2>3, <2>4 DEF PushChunk, TypeOK
    <2> QED BY <1>4, <2>5 DEF PushChunk, HandsOK, Encoding, Storing
  <1>5. CASE ChunkedAll(w)
    <2>1. TypeOK'
      BY <1>5 DEF ChunkedAll, TypeOK
    <2> QED BY <1>5, <2>1 DEF ChunkedAll, TypeOK, HandsOK, Encoding, Storing
  <1>6. CASE ChunkError(w)
    <2>1. CASE error
      <3>1. TypeOK'
        BY <1>6, <2>1, ExitTypes DEF ChunkError, TypeOK, AllQueues
      <3>2. ASSUME NEW v \in Workers, chunker'[v] \in {"chunk", "complete", "finalize"}
            PROVE  chunkerFile'[v] \in Files
        BY <1>6, <2>1, <3>2 DEF ChunkError, ChunkerExit, TypeOK, HandsOK
      <3> QED BY <1>6, <2>1, <3>1, <3>2 DEF ChunkError, ChunkerExit, HandsOK, Encoding, Storing
    <2>2. CASE ~error
      <3>1. error' \in BOOLEAN
        BY <1>6, <2>2 DEF ChunkError
      <3>2. TypeOK'
        BY <1>6, <2>2, <3>1 DEF ChunkError, TypeOK
      <3> QED BY <1>6, <2>2, <3>2 DEF ChunkError, TypeOK, HandsOK, Encoding, Storing
    <2> QED BY <2>1, <2>2
  <1>7. CASE ChunkerCloseAll(w)
    <2>1. closed' \subseteq AllQueues
      BY <1>7, QueueTypes DEF ChunkerCloseAll, TypeOK, AllQueues
    <2>2. TypeOK'
      BY <1>7, <2>1 DEF ChunkerCloseAll, TypeOK, AllQueues
    <2> QED BY <1>7, <2>2 DEF ChunkerCloseAll, TypeOK, HandsOK, Encoding, Storing
  <1>8. CASE CompleteChunking(w)
    <2>1. chunkerFile[w] \in Files
      BY <1>8 DEF CompleteChunking, HandsOK
    <2>2. TypeOK'
      BY <1>8, <2>1 DEF CompleteChunking, TypeOK
    <2> QED BY <1>8, <2>2 DEF CompleteChunking, TypeOK, HandsOK, Encoding, Storing
  <1>9. CASE TryFinalizeFile(w)
    <2>1. chunkerFile[w] \in Files
      BY <1>9 DEF TryFinalizeFile, HandsOK
    <2>2. {complete', finalized', issues'} \subseteq SUBSET Files
      BY <1>9, <2>1 DEF TryFinalizeFile, TypeOK
    <2>3. CASE error
      <3>1. TypeOK'
        BY <1>9, <2>2, <2>3, ExitTypes DEF TryFinalizeFile, ChunkerNext, TypeOK, AllQueues
      <3>2. ASSUME NEW v \in Workers, chunker'[v] \in {"chunk", "complete", "finalize"}
            PROVE  chunkerFile'[v] \in Files
        BY <1>9, <2>3, <3>2 DEF TryFinalizeFile, ChunkerNext, ChunkerExit, TypeOK, HandsOK
      <3> QED BY <1>9, <2>3, <3>1, <3>2 DEF TryFinalizeFile, ChunkerNext, ChunkerExit, HandsOK, Encoding, Storing
    <2>4. CASE ~error
      <3>1. TypeOK'
        BY <1>9, <2>2, <2>4 DEF TryFinalizeFile, ChunkerNext, TypeOK
      <3>2. ASSUME NEW v \in Workers, chunker'[v] \in {"chunk", "complete", "finalize"}
            PROVE  chunkerFile'[v] \in Files
        BY <1>9, <2>4, <3>2 DEF TryFinalizeFile, ChunkerNext, TypeOK, HandsOK
      <3> QED BY <1>9, <2>4, <3>1, <3>2 DEF TryFinalizeFile, ChunkerNext, HandsOK, Encoding, Storing
    <2> QED BY <2>3, <2>4
  <1> QED BY <1>1, <1>2, <1>3, <1>4, <1>5, <1>6, <1>7, <1>8, <1>9 DEF Chunker

(* Steps of a compressor keep the types. *)
LEMMA CompressorType ==
    ASSUME TypeOK, HandsOK, NEW k \in Compressors, Compressor(k)
    PROVE  TypeOK' /\ HandsOK'
  <1> USE DEF queueVars, mainVars, readerVars, chunkerVars, compVars, storeVars, stateVars
  <1>1. CASE CompressorPop(k)
    <2>1. chunkQ \in Seq(Task) /\ chunkQ # <<>>
      BY <1>1 DEF CompressorPop, TypeOK
    <2>2. /\ Head(chunkQ) \in Task /\ chunkQ' \in Seq(Task)
          /\ Len(chunkQ') <= StageDepth
      BY <1>1, <2>1, TailElems, DepthAssumption DEF TypeOK, CompressorPop
    <2>3. CASE error
      <3>1. TypeOK'
        BY <1>1, <2>2, <2>3, ExitTypes DEF CompressorPop, TypeOK, AllQueues
      <3>2. ASSUME NEW j \in Compressors, compressor'[j] = "encode"
            PROVE  compTask'[j] \in Task
        BY <1>1, <2>3, <3>2 DEF CompressorPop, CompressorExit, TypeOK, HandsOK, Encoding
      <3> QED BY <1>1, <3>1, <3>2 DEF CompressorPop, HandsOK, Encoding, Storing
    <2>4. CASE ~error
      <3>1. TypeOK'
        BY <1>1, <2>2, <2>4 DEF CompressorPop, TypeOK, TaskOrNone
      <3>2. ASSUME NEW j \in Compressors, compressor'[j] = "encode"
            PROVE  compTask'[j] \in Task
        BY <1>1, <2>2, <2>4, <3>2 DEF CompressorPop, TypeOK, HandsOK, Encoding
      <3> QED BY <1>1, <3>1, <3>2 DEF CompressorPop, HandsOK, Encoding, Storing
    <2> QED BY <2>3, <2>4
  <1>2. CASE CompressorLeave(k)
    <2>1. TypeOK'
      BY <1>2, ExitTypes DEF CompressorLeave, TypeOK, AllQueues
    <2> QED BY <1>2, <2>1 DEF CompressorLeave, CompressorExit, TypeOK, HandsOK, Encoding, Storing
  <1>3. CASE EncodeChunk(k)
    <2>1. compTask[k] \in Task
      BY <1>3 DEF EncodeChunk, HandsOK, Encoding
    <2>2. encodedQ' \in Seq(Task) /\ Len(encodedQ') <= StageDepth
      BY <1>3, <2>1, AppendElems, DepthAssumption DEF EncodeChunk, Room, TypeOK
    <2>3. compTask' \in [Compressors -> TaskOrNone]
      BY <1>3 DEF EncodeChunk, TypeOK, TaskOrNone
    <2>4. TypeOK'
      BY <1>3, <2>2, <2>3 DEF EncodeChunk, TypeOK
    <2> QED BY <1>3, <2>4 DEF EncodeChunk, TypeOK, HandsOK, Encoding, Storing
  <1>4. CASE EncodeError(k)
    <2>1. error' \in BOOLEAN
      BY <1>4 DEF EncodeError
    <2>2. TypeOK'
      BY <1>4, <2>1 DEF EncodeError, TypeOK
    <2> QED BY <1>4, <2>2 DEF EncodeError, TypeOK, HandsOK, Encoding, Storing
  <1>5. CASE CompressorCloseAll(k)
    <2>1. closed' \subseteq AllQueues
      BY <1>5, QueueTypes DEF CompressorCloseAll, TypeOK, AllQueues
    <2>2. TypeOK'
      BY <1>5, <2>1 DEF CompressorCloseAll, TypeOK, AllQueues, TaskOrNone
    <2> QED BY <1>5, <2>2 DEF CompressorCloseAll, TypeOK, HandsOK, Encoding, Storing
  <1> QED BY <1>1, <1>2, <1>3, <1>4, <1>5 DEF Compressor

(* Steps of a store worker keep the types. *)
LEMMA StorerType ==
    ASSUME TypeOK, HandsOK, NEW s \in Storers, Storer(s)
    PROVE  TypeOK' /\ HandsOK'
  <1> USE DEF queueVars, mainVars, readerVars, chunkerVars, compVars, storeVars, stateVars
  <1>1. CASE StorerPop(s)
    <2>1. encodedQ \in Seq(Task) /\ encodedQ # <<>>
      BY <1>1 DEF StorerPop, TypeOK
    <2>2. /\ Head(encodedQ) \in Task /\ encodedQ' \in Seq(Task)
          /\ Len(encodedQ') <= StageDepth
      BY <1>1, <2>1, TailElems, DepthAssumption DEF TypeOK, StorerPop
    <2>3. CASE error
      <3>1. TypeOK'
        BY <1>1, <2>2, <2>3, ExitTypes DEF StorerPop, TypeOK
      <3>2. ASSUME NEW r \in Storers, storer'[r] = "store"
            PROVE  storeTask'[r] \in Task
        BY <1>1, <2>3, <3>2 DEF StorerPop, StorerExit, TypeOK, HandsOK, Storing
      <3> QED BY <1>1, <3>1, <3>2 DEF StorerPop, HandsOK, Encoding, Storing
    <2>4. CASE ~error
      <3>1. TypeOK'
        BY <1>1, <2>2, <2>4 DEF StorerPop, TypeOK, TaskOrNone
      <3>2. ASSUME NEW r \in Storers, storer'[r] = "store"
            PROVE  storeTask'[r] \in Task
        BY <1>1, <2>2, <2>4, <3>2 DEF StorerPop, TypeOK, HandsOK, Storing
      <3> QED BY <1>1, <3>1, <3>2 DEF StorerPop, HandsOK, Encoding, Storing
    <2> QED BY <2>3, <2>4
  <1>2. CASE StorerLeave(s)
    <2>1. TypeOK'
      BY <1>2, ExitTypes DEF StorerLeave, TypeOK
    <2> QED BY <1>2, <2>1 DEF StorerLeave, StorerExit, TypeOK, HandsOK, Encoding, Storing
  <1>3. CASE StoreChunk(s)
    <2>1. storeTask[s].file \in Files /\ storeTask[s].chunk \in Nat
      BY <1>3 DEF StoreChunk, HandsOK, Storing, Task
    <2>2. /\ hashes' \in [Files -> SUBSET Nat] /\ done' \in [Files -> Nat]
          /\ finalized' \subseteq Files
      <3>1. CASE storeTask[s].file \in finalized
        BY <1>3, <3>1 DEF StoreChunk, TypeOK
      <3>2. CASE storeTask[s].file \notin finalized
        <4> DEFINE f == storeTask[s].file
        <4>0. /\ hashes' = [hashes EXCEPT ![f] = hashes[f] \union {storeTask[s].chunk}]
              /\ done' = [done EXCEPT ![f] = done[f] + 1]
          BY <1>3, <3>2 DEF StoreChunk
        <4>1. hashes' \in [Files -> SUBSET Nat]
          <5>1. hashes \in [Files -> SUBSET Nat]
            BY DEF TypeOK
          <5>2. hashes[f] \union {storeTask[s].chunk} \in SUBSET Nat
            BY <2>1, <5>1
          <5> QED BY <4>0, <5>1, <5>2
        <4>2. done' \in [Files -> Nat]
          <5>1. done \in [Files -> Nat]
            BY DEF TypeOK
          <5> QED BY <2>1, <4>0, <5>1
        <4>3. finalized' \subseteq Files
          BY <1>3, <2>1, <3>2 DEF StoreChunk, TypeOK
        <4> QED BY <4>1, <4>2, <4>3
      <3> QED BY <3>1, <3>2
    <2>3. /\ storer' \in [Storers -> {"pop", "store", "closing", "done"}]
          /\ storeTask' \in [Storers -> TaskOrNone]
      BY <1>3, ExitTypes DEF StoreChunk, TypeOK, TaskOrNone
    <2>4. TypeOK'
      BY <1>3, <2>2, <2>3 DEF StoreChunk, TypeOK
    <2>5. ASSUME NEW r \in Storers, storer'[r] = "store"
          PROVE  storeTask'[r] \in Task
      BY <1>3, <2>5 DEF StoreChunk, StorerExit, TypeOK, HandsOK, Storing
    <2> QED BY <1>3, <2>4, <2>5 DEF StoreChunk, HandsOK, Encoding, Storing
  <1>4. CASE StoreError(s)
    <2>1. error' \in BOOLEAN
      BY <1>4 DEF StoreError
    <2>2. TypeOK'
      BY <1>4, <2>1 DEF StoreError, TypeOK
    <2> QED BY <1>4, <2>2 DEF StoreError, TypeOK, HandsOK, Encoding, Storing
  <1>5. CASE StorerCloseAll(s)
    <2>1. closed' \subseteq AllQueues
      BY <1>5, QueueTypes DEF StorerCloseAll, TypeOK, AllQueues
    <2>2. TypeOK'
      BY <1>5, <2>1, ExitTypes DEF StorerCloseAll, TypeOK, AllQueues
    <2> QED BY <1>5, <2>2 DEF StorerCloseAll, StorerExit, TypeOK, HandsOK, Encoding, Storing
  <1> QED BY <1>1, <1>2, <1>3, <1>4, <1>5 DEF Storer

(* Every step keeps the types, and a thread at work has something in       *)
(* hand.                                                                   *)
LEMMA TypeStep == TypeOK /\ HandsOK /\ [Next]_vars => TypeOK' /\ HandsOK'
  <1> SUFFICES ASSUME TypeOK, HandsOK, [Next]_vars PROVE TypeOK' /\ HandsOK'
    OBVIOUS
  <1>1. CASE UNCHANGED vars
    BY <1>1 DEF vars, queueVars, mainVars, readerVars, chunkerVars, compVars, storeVars,
                stateVars, TypeOK, HandsOK, Encoding, Storing
  <1> QED BY <1>1, MainType, ReaderType, ChunkerType, CompressorType, StorerType DEF Next

(* The variables of the pipeline keep their types and no queue exceeds its *)
(* capacity, whatever the number of threads.                               *)
THEOREM TypeCorrect == Spec => []TypeOK
  <1>1. Init => TypeOK /\ HandsOK
    BY TypeInit DEF Init, HandsOK, Encoding, Storing
  <1> QED BY <1>1, TypeStep, PTL DEF Spec

-----------------------------------------------------------------------------
(* The order in which queues are closed.                                   *)

(* The error is never taken back, and only under it does a thread close    *)
(* all queues.                                                             *)
LEMMA ErrorStays ==
    ASSUME [Next]_vars, error
    PROVE  error'
  BY DEF Next, Main, StartWorker, PushFile, CloseFileQueue, Join,
         Reader, ReaderPop, ReaderLeave, ReadUnreadable, ReadFile,
         Chunker, ChunkerPop, ChunkerLeave, CutBatch, PushChunk, ChunkedAll, ChunkError,
         ChunkerCloseAll, CompleteChunking, TryFinalizeFile,
         Compressor, CompressorPop, CompressorLeave, EncodeChunk, EncodeError,
         CompressorCloseAll, Storer, StorerPop, StorerLeave, StoreChunk, StoreError,
         StorerCloseAll, vars

(* The threads of a worker that main has not reached stay idle. *)
LEMMA UnstartedStep == TypeOK /\ Unstarted /\ [Next]_vars => Unstarted'
  <1> SUFFICES ASSUME TypeOK, Unstarted, [Next]_vars PROVE Unstarted'
    OBVIOUS
  <1> USE DEF queueVars, mainVars, readerVars, chunkerVars, compVars, storeVars, stateVars
  <1>1. CASE StartWorker \/ PushFile
    <2>1. cur \in Int
      BY DEF TypeOK, Workers
    <2>2. cur' = cur /\ mainPc' # "start"
      BY <1>1 DEF StartWorker, PushFile
    <2>3. \A w \in Workers : w # cur => reader'[w] = reader[w]
      BY <1>1 DEF StartWorker, PushFile, TypeOK
    <2>4. \A w \in Workers : w # cur => chunker'[w] = chunker[w]
      BY <1>1 DEF StartWorker, PushFile, TypeOK
    <2> QED BY <2>1, <2>2, <2>3, <2>4 DEF Unstarted, Workers
  <1>2. CASE CloseFileQueue
    BY <1>2 DEF CloseFileQueue, TypeOK, Unstarted, Workers
  <1>3. CASE Join \/ UNCHANGED vars
    BY <1>3 DEF Join, vars, Unstarted
  <1>4. ASSUME NEW w \in Workers, Reader(w)
        PROVE  Unstarted'
    <2>1. /\ reader[w] # "idle" /\ UNCHANGED <<mainVars, chunker>>
          /\ \A v \in Workers : v # w => reader'[v] = reader[v]
      BY <1>4 DEF Reader, ReaderPop, ReaderLeave, ReadUnreadable, ReadFile, ReaderExit, TypeOK
    <2> QED BY <2>1 DEF Unstarted
  <1>5. ASSUME NEW w \in Workers, Chunker(w)
        PROVE  Unstarted'
    <2>1. /\ chunker[w] # "idle" /\ UNCHANGED <<mainVars, reader>>
          /\ \A v \in Workers : v # w => chunker'[v] = chunker[v]
      BY <1>5 DEF Chunker, ChunkerPop, ChunkerLeave, CutBatch, PushChunk, ChunkedAll, ChunkError,
                  ChunkerCloseAll, CompleteChunking, TryFinalizeFile, ChunkerExit, ChunkerNext,
                  TypeOK
    <2> QED BY <2>1 DEF Unstarted
  <1>6. ASSUME NEW k \in Compressors, Compressor(k)
        PROVE  Unstarted'
    BY <1>6 DEF Compressor, CompressorPop, CompressorLeave, EncodeChunk, EncodeError,
                CompressorCloseAll, Unstarted
  <1>7. ASSUME NEW s \in Storers, Storer(s)
        PROVE  Unstarted'
    BY <1>7 DEF Storer, StorerPop, StorerLeave, StoreChunk, StoreError, StorerCloseAll, Unstarted
  <1> QED BY <1>1, <1>2, <1>3, <1>4, <1>5, <1>6, <1>7 DEF Next, Main

(* Main closes a file queue when it has pushed all files to it. *)
LEMMA CloseMain ==
    ASSUME TypeOK, Unstarted, CloseOrder, ~error, Main
    PROVE  CloseOrder'
  <1> USE DEF queueVars, mainVars, readerVars, chunkerVars, compVars, storeVars, stateVars
  <1>1. CASE StartWorker
    <2>1. reader[cur] = "idle" /\ chunker[cur] = "idle"
      BY <1>1 DEF StartWorker, TypeOK, Unstarted
    <2>2. ReadQueue(cur) \notin closed /\ ChunkQueue \notin closed
      BY <2>1 DEF TypeOK, CloseOrder
    <2>3. \A w \in Workers : w # cur => reader'[w] = reader[w] /\ chunker'[w] = chunker[w]
      BY <1>1 DEF StartWorker, TypeOK
    <2>4. reader'[cur] = "pop" /\ chunker'[cur] = "pop"
      BY <1>1 DEF StartWorker, TypeOK
    <2>5. \A w \in Workers :
             /\ FileQueue(w) \in closed' => w < cur' \/ mainPc' \in {"join", "returned"}
             /\ reader'[w] = "done" => FileQueue(w) \in closed' /\ fileQ'[w] = <<>>
             /\ ReadQueue(w) \in closed' => reader'[w] = "done"
             /\ chunker'[w] = "done" => ReadQueue(w) \in closed' /\ readQ'[w] = <<>>
             /\ chunker'[w] # "closing"
             /\ ChunkQueue \in closed' => chunker'[w] = "done"
      BY <1>1, <2>2, <2>3, <2>4 DEF StartWorker, CloseOrder
    <2> QED BY <1>1, <2>5 DEF StartWorker, CloseOrder
  <1>2. CASE PushFile
    <2>1. reader[cur] # "done"
      BY <1>2 DEF PushFile, Room, TypeOK, CloseOrder
    <2>2. \A w \in Workers : w # cur => fileQ'[w] = fileQ[w]
      BY <1>2 DEF PushFile, TypeOK
    <2> QED BY <1>2, <2>1, <2>2 DEF PushFile, CloseOrder
  <1>3. CASE CloseFileQueue
    <2>1. nextFile > Len(Assigned[cur]) /\ closed' = closed \union {FileQueue(cur)}
      BY <1>3 DEF CloseFileQueue, Refused, CloseOrder, TypeOK, Workers
    <2>2. \A w \in Workers : FileQueue(w) \in closed' => w < cur' \/ mainPc' \in {"join", "returned"}
      BY <1>3, <2>1, QueueNames, WorkersAssumption DEF CloseFileQueue, CloseOrder, TypeOK, Workers
    <2>3. /\ ChunkQueue \in closed' => ChunkQueue \in closed
          /\ EncodedQueue \in closed' => EncodedQueue \in closed
          /\ \A w \in Workers : ReadQueue(w) \in closed' => ReadQueue(w) \in closed
      BY <2>1, QueueNames
    <2> QED BY <1>3, <2>1, <2>2, <2>3 DEF CloseFileQueue, CloseOrder
  <1>4. CASE Join
    BY <1>4 DEF Join, TypeOK, CloseOrder
  <1> QED BY <1>1, <1>2, <1>3, <1>4 DEF Main

(* A reader closes its read queue when it leaves. *)
LEMMA CloseReader ==
    ASSUME TypeOK, CloseOrder, ~error, NEW w \in Workers, Reader(w)
    PROVE  CloseOrder'
  <1> USE DEF queueVars, mainVars, readerVars, chunkerVars, compVars, storeVars, stateVars
  <1>1. CASE ReaderPop(w)
    BY <1>1 DEF ReaderPop, TypeOK, CloseOrder
  <1>2. CASE ReaderLeave(w)
    <2>1. reader[w] = "pop" /\ FileQueue(w) \in closed /\ fileQ[w] = <<>>
      BY <1>2 DEF ReaderLeave, Drained, Refused, CloseOrder
    <2>2. closed' = closed \union {ReadQueue(w)} /\ reader' = [reader EXCEPT ![w] = "done"]
      BY <1>2 DEF ReaderLeave, ReaderExit
    <2>3. /\ ChunkQueue \in closed' => ChunkQueue \in closed
          /\ EncodedQueue \in closed' => EncodedQueue \in closed
          /\ \A v \in Workers : /\ FileQueue(v) \in closed' => FileQueue(v) \in closed
                                /\ ReadQueue(v) \in closed' => ReadQueue(v) \in closed \/ v = w
      BY <2>2, QueueNames
    <2> QED BY <1>2, <2>1, <2>2, <2>3 DEF ReaderLeave, CloseOrder, TypeOK
  <1>3. CASE ReadUnreadable(w)
    BY <1>3 DEF ReadUnreadable, TypeOK, CloseOrder
  <1>4. CASE ReadFile(w)
    BY <1>4 DEF ReadFile, Room, TypeOK, CloseOrder
  <1> QED BY <1>1, <1>2, <1>3, <1>4 DEF Reader

(* The chunk queue is closed by the last chunker. *)
LEMMA CloseChunker ==
    ASSUME TypeOK, CloseOrder, ~error, NEW w \in Workers, Chunker(w)
    PROVE  CloseOrder'
  <1> USE DEF queueVars, mainVars, readerVars, chunkerVars, compVars, storeVars, stateVars
  <1>1. CASE ChunkerPop(w)
    <2>1. chunker[w] = "pop" /\ chunker' = [chunker EXCEPT ![w] = "chunk"] /\ closed' = closed
      BY <1>1 DEF ChunkerPop
    <2>2. \A v \in Workers : chunker'[v] = "done" => chunker[v] = "done" /\ readQ'[v] = readQ[v]
      BY <1>1, <2>1 DEF ChunkerPop, TypeOK
    <2>3. ChunkQueue \notin closed
      BY <2>1 DEF CloseOrder
    <2>4. \A v \in Workers : chunker'[v] # "closing"
      BY <2>1 DEF CloseOrder, TypeOK
    <2> QED BY <1>1, <2>1, <2>2, <2>3, <2>4 DEF ChunkerPop, CloseOrder
  <1>2. CASE ChunkerLeave(w)
    <2>1. chunker[w] = "pop" /\ ReadQueue(w) \in closed /\ readQ[w] = <<>>
      BY <1>2 DEF ChunkerLeave, Drained
    <2>2. /\ closed' = closed \union {ReadQueue(w)} \union
                         IF \A v \in Workers \ {w} : chunker[v] = "done"
                         THEN {ChunkQueue} ELSE {}
          /\ chunker' = [chunker EXCEPT ![w] = "done"]
      BY <1>2 DEF ChunkerLeave, ChunkerExit
    <2>3. /\ EncodedQueue \in closed' => EncodedQueue \in closed
          /\ \A v \in Workers : /\ FileQueue(v) \in closed' => FileQueue(v) \in closed
                                /\ ReadQueue(v) \in closed' => ReadQueue(v) \in closed
          /\ closed \subseteq closed'
      BY <2>1, <2>2, QueueNames
    <2>4. ChunkQueue \notin closed
      BY <2>1 DEF CloseOrder
    <2>5. ChunkQueue \in closed' => \A v \in Workers : chunker'[v] = "done"
      BY <2>2, <2>4, QueueNames DEF TypeOK
    <2>6. \A v \in Workers : /\ chunker'[v] = "done" => ReadQueue(v) \in closed' /\ readQ'[v] = <<>>
                             /\ chunker'[v] # "closing"
      BY <1>2, <2>1, <2>2, <2>3 DEF ChunkerLeave, CloseOrder, TypeOK
    <2> QED BY <1>2, <2>3, <2>5, <2>6 DEF ChunkerLeave, CloseOrder
  <1>3. CASE CutBatch(w)
    BY <1>3 DEF CutBatch, CloseOrder
  <1>4. CASE PushChunk(w)
    <2>1. ChunkQueue \notin closed
      BY <1>4 DEF PushChunk, Room
    <2>2. \A k \in Compressors : compressor[k] # "done"
      BY <2>1 DEF CloseOrder
    <2> QED BY <1>4, <2>2 DEF PushChunk, CloseOrder
  <1>5. CASE ChunkedAll(w)
    <2>1. chunker[w] = "chunk" /\ chunker' = [chunker EXCEPT ![w] = "complete"]
      BY <1>5 DEF ChunkedAll
    <2>2. \A v \in Workers : /\ chunker'[v] = "done" <=> chunker[v] = "done"
                             /\ chunker'[v] # "closing"
      BY <2>1 DEF CloseOrder, TypeOK
    <2> QED BY <1>5, <2>2 DEF ChunkedAll, CloseOrder
  <1>6. CASE ChunkError(w)
    BY <1>6 DEF ChunkError, CloseOrder
  <1>7. CASE ChunkerCloseAll(w)
    BY <1>7 DEF ChunkerCloseAll, CloseOrder
  <1>8. CASE CompleteChunking(w)
    <2>1. chunker[w] = "complete" /\ chunker' = [chunker EXCEPT ![w] = "finalize"]
      BY <1>8 DEF CompleteChunking
    <2>2. \A v \in Workers : /\ chunker'[v] = "done" <=> chunker[v] = "done"
                             /\ chunker'[v] # "closing"
      BY <2>1 DEF CloseOrder, TypeOK
    <2> QED BY <1>8, <2>2 DEF CompleteChunking, CloseOrder
  <1>9. CASE TryFinalizeFile(w)
    <2>1. /\ chunker[w] = "finalize" /\ chunker' = [chunker EXCEPT ![w] = "pop"]
          /\ closed' = closed
      BY <1>9 DEF TryFinalizeFile, ChunkerNext
    <2>2. \A v \in Workers : /\ chunker'[v] = "done" <=> chunker[v] = "done"
                             /\ chunker'[v] # "closing"
      BY <2>1 DEF CloseOrder, TypeOK
    <2> QED BY <1>9, <2>1, <2>2 DEF TryFinalizeFile, CloseOrder
  <1> QED BY <1>1, <1>2, <1>3, <1>4, <1>5, <1>6, <1>7, <1>8, <1>9 DEF Chunker

(* The encoded queue is closed by the last compressor. *)
LEMMA CloseCompressor ==
    ASSUME TypeOK, CloseOrder, ~error, NEW k \in Compressors, Compressor(k)
    PROVE  CloseOrder'
  <1> USE DEF queueVars, mainVars, readerVars, chunkerVars, compVars, storeVars, stateVars
  <1>1. CASE CompressorPop(k)
    <2>1. /\ compressor[k] = "pop" /\ compressor' = [compressor EXCEPT ![k] = "encode"]
          /\ closed' = closed /\ chunkQ # <<>>
      BY <1>1 DEF CompressorPop
    <2>2. \A j \in Compressors : compressor[j] # "done"
      BY <2>1 DEF CloseOrder
    <2>3. \A j \in Compressors : compressor'[j] \notin {"done", "closing"}
      BY <2>1, <2>2 DEF CloseOrder, TypeOK
    <2>4. EncodedQueue \notin closed
      BY <2>2 DEF CloseOrder
    <2> QED BY <1>1, <2>1, <2>3, <2>4 DEF CompressorPop, CloseOrder
  <1>2. CASE CompressorLeave(k)
    <2>1. compressor[k] = "pop" /\ ChunkQueue \in closed /\ chunkQ = <<>>
      BY <1>2 DEF CompressorLeave, Drained
    <2>2. /\ closed' = closed \union IF \A j \in Compressors \ {k} : compressor[j] = "done"
                                     THEN {EncodedQueue} ELSE {}
          /\ compressor' = [compressor EXCEPT ![k] = "done"]
      BY <1>2 DEF CompressorLeave, CompressorExit
    <2>3. /\ ChunkQueue \in closed' /\ closed \subseteq closed'
          /\ \A v \in Workers : /\ FileQueue(v) \in closed' => FileQueue(v) \in closed
                                /\ ReadQueue(v) \in closed' => ReadQueue(v) \in closed
      BY <2>1, <2>2, QueueNames
    <2>4. EncodedQueue \notin closed
      BY <2>1 DEF CloseOrder
    <2>5. EncodedQueue \in closed' => \A j \in Compressors : compressor'[j] = "done"
      BY <2>2, <2>4 DEF TypeOK
    <2>6. \A j \in Compressors : compressor'[j] # "closing"
      BY <2>2 DEF CloseOrder, TypeOK
    <2> QED BY <1>2, <2>1, <2>3, <2>5, <2>6 DEF CompressorLeave, CloseOrder
  <1>3. CASE EncodeChunk(k)
    <2>1. /\ compressor[k] = "encode" /\ compressor' = [compressor EXCEPT ![k] = "pop"]
          /\ EncodedQueue \notin closed
      BY <1>3 DEF EncodeChunk, Room
    <2>2. \A j \in Compressors : /\ compressor'[j] = "done" <=> compressor[j] = "done"
                                 /\ compressor'[j] # "closing"
      BY <2>1 DEF CloseOrder, TypeOK
    <2>3. \A s \in Storers : storer[s] # "done"
      BY <2>1 DEF CloseOrder
    <2> QED BY <1>3, <2>2, <2>3 DEF EncodeChunk, CloseOrder
  <1>4. CASE EncodeError(k)
    BY <1>4 DEF EncodeError, CloseOrder
  <1>5. CASE CompressorCloseAll(k)
    BY <1>5 DEF CompressorCloseAll, CloseOrder
  <1> QED BY <1>1, <1>2, <1>3, <1>4, <1>5 DEF Compressor

(* Store workers close queues only after an error. *)
LEMMA CloseStorer ==
    ASSUME TypeOK, CloseOrder, ~error, NEW s \in Storers, Storer(s)
    PROVE  CloseOrder'
  <1> USE DEF queueVars, mainVars, readerVars, chunkerVars, compVars, storeVars, stateVars
  <1>1. CASE StorerPop(s)
    <2>1. /\ storer' = [storer EXCEPT ![s] = "store"] /\ closed' = closed /\ encodedQ # <<>>
      BY <1>1 DEF StorerPop
    <2>2. \A r \in Storers : storer'[r] \notin {"done", "closing"}
      BY <2>1 DEF CloseOrder, TypeOK
    <2> QED BY <1>1, <2>2 DEF StorerPop, CloseOrder
  <1>2. CASE StorerLeave(s)
    <2>1. EncodedQueue \in closed /\ encodedQ = <<>> /\ storer' = [storer EXCEPT ![s] = "done"]
      BY <1>2 DEF StorerLeave, Drained, StorerExit
    <2>2. \A r \in Storers : storer'[r] # "closing"
      BY <2>1 DEF CloseOrder, TypeOK
    <2> QED BY <1>2, <2>1, <2>2 DEF StorerLeave, CloseOrder
  <1>3. CASE StoreChunk(s)
    <2>1. storer' = [storer EXCEPT ![s] = "pop"]
      BY <1>3 DEF StoreChunk
    <2>2. \A r \in Storers : /\ storer'[r] = "done" => storer[r] = "done"
                             /\ storer'[r] # "closing"
      BY <2>1 DEF CloseOrder, TypeOK
    <2> QED BY <1>3, <2>2 DEF StoreChunk, CloseOrder
  <1>4. CASE StoreError(s)
    BY <1>4 DEF StoreError, CloseOrder
  <1>5. CASE StorerCloseAll(s)
    BY <1>5 DEF StorerCloseAll, CloseOrder
  <1> QED BY <1>1, <1>2, <1>3, <1>4, <1>5 DEF Storer

(* Without an error a queue is closed after its producers have left. *)
LEMMA CloseStep == TypeOK /\ Unstarted /\ CloseOrder /\ [Next]_vars => CloseOrder'
  <1> SUFFICES ASSUME TypeOK, Unstarted, CloseOrder, [Next]_vars PROVE CloseOrder'
    OBVIOUS
  <1>1. CASE error
    BY <1>1, ErrorStays DEF CloseOrder
  <1>2. CASE ~error /\ UNCHANGED vars
    BY <1>2 DEF vars, queueVars, mainVars, readerVars, chunkerVars, compVars, storeVars,
                CloseOrder
  <1>3. CASE ~error /\ Next
    BY <1>3, CloseMain, CloseReader, CloseChunker, CloseCompressor, CloseStorer DEF Next
  <1> QED BY <1>1, <1>2, <1>3

(* Without an error no producer meets a closed queue: every queue is       *)
(* closed by the last of its producers, for any number of threads.         *)
THEOREM NoProducerRefused == Spec => []OpenToProducers
  <1> DEFINE I == TypeOK /\ HandsOK /\ Unstarted /\ CloseOrder
  <1>1. Init => I
    <2>1. Init => CloseOrder
      BY DEF Init, CloseOrder
    <2>2. Init => HandsOK
      BY DEF Init, HandsOK, Encoding, Storing
    <2>3. Init => Unstarted
      BY DEF Init, Unstarted
    <2> QED BY <2>1, <2>2, <2>3, TypeInit
  <1>2. I /\ [Next]_vars => I'
    BY TypeStep, UnstartedStep, CloseStep
  <1>3. I => OpenToProducers
    BY DEF CloseOrder, OpenToProducers, TypeOK, Workers
  <1> QED BY <1>1, <1>2, <1>3, PTL DEF Spec

-----------------------------------------------------------------------------
(* Chunks and their counts.                                                *)

(* The counts of the chunkers are about the variables named here only. *)
LEMMA CountsKept ==
    ASSUME CountsOK, UNCHANGED <<pushed, total, complete>>,
           \A w \in Workers : chunker'[w] \in {"complete", "finalize"} =>
               chunker[w] \in {"complete", "finalize"} /\ chunkerFile'[w] = chunkerFile[w]
    PROVE  CountsOK'
  BY DEF CountsOK

(* A chunker pushes what it has counted, and is complete when it has       *)
(* counted all.                                                            *)
LEMMA CountsChunker ==
    ASSUME TypeOK, HandsOK, CountsOK, NEW w \in Workers, Chunker(w)
    PROVE  CountsOK'
  <1> USE DEF queueVars, mainVars, readerVars, chunkerVars, compVars, storeVars, stateVars
  <1>1. CASE ChunkerPop(w)
    BY <1>1, CountsKept DEF ChunkerPop, ChunkerExit, TypeOK
  <1>2. CASE ChunkerLeave(w)
    BY <1>2, CountsKept DEF ChunkerLeave, ChunkerExit, TypeOK
  <1>3. CASE CutBatch(w)
    <2> DEFINE f == chunkerFile[w]
    <2>1. f \in Files
      BY <1>3 DEF CutBatch, HandsOK
    <2>2. PICK n \in (total[f] + 1)..NumChunks[f] : total' = [total EXCEPT ![f] = n]
      BY <1>3 DEF CutBatch
    <2>3. /\ total \in [Files -> Nat] /\ pushed \in [Files -> Nat] /\ NumChunks \in [Files -> Nat]
          /\ pushed' = pushed /\ complete' = complete
          /\ chunker' = chunker /\ chunkerFile' = chunkerFile
      BY <1>3, ChunksAssumption DEF CutBatch, TypeOK
    <2>4. total[f] < n /\ n <= NumChunks[f] /\ total[f] # NumChunks[f]
      BY <2>1, <2>2, <2>3
    <2>5. \A g \in Files : total'[g] = IF g = f THEN n ELSE total[g]
      BY <2>1, <2>2, <2>3
    <2>6. \A g \in Files : pushed'[g] <= total'[g] /\ total'[g] <= NumChunks[g]
      BY <2>1, <2>3, <2>4, <2>5 DEF CountsOK
    <2>7. \A g \in complete' : total'[g] = NumChunks[g]
      BY <2>3, <2>4, <2>5 DEF CountsOK, TypeOK
    <2>8. ASSUME NEW v \in Workers, chunker'[v] \in {"complete", "finalize"}
          PROVE  total'[chunkerFile'[v]] = NumChunks[chunkerFile'[v]]
      <3>1. chunkerFile[v] \in Files /\ total[chunkerFile[v]] = NumChunks[chunkerFile[v]]
        BY <2>3, <2>8 DEF CountsOK, HandsOK
      <3> QED BY <2>3, <2>4, <2>5, <3>1
    <2> QED BY <2>6, <2>7, <2>8 DEF CountsOK
  <1>4. CASE PushChunk(w)
    <2> DEFINE f == chunkerFile[w]
    <2>1. f \in Files /\ pushed[f] < total[f] /\ pushed' = [pushed EXCEPT ![f] = pushed[f] + 1]
      BY <1>4 DEF PushChunk, HandsOK
    <2>2. total \in [Files -> Nat] /\ pushed \in [Files -> Nat]
      BY DEF TypeOK
    <2>3. \A g \in Files : pushed'[g] <= total[g]
      BY <2>1, <2>2 DEF CountsOK
    <2> QED BY <1>4, <2>3 DEF PushChunk, CountsOK
  <1>5. CASE ChunkedAll(w)
    BY <1>5 DEF ChunkedAll, CountsOK, TypeOK
  <1>6. CASE ChunkError(w)
    BY <1>6, CountsKept DEF ChunkError, ChunkerExit, TypeOK
  <1>7. CASE ChunkerCloseAll(w)
    BY <1>7, CountsKept DEF ChunkerCloseAll, TypeOK
  <1>8. CASE CompleteChunking(w)
    BY <1>8 DEF CompleteChunking, CountsOK, TypeOK
  <1>9. CASE TryFinalizeFile(w)
    BY <1>9, CountsKept DEF TryFinalizeFile, ChunkerNext, ChunkerExit, TypeOK
  <1> QED BY <1>1, <1>2, <1>3, <1>4, <1>5, <1>6, <1>7, <1>8, <1>9 DEF Chunker

(* Every step keeps the counts of the chunkers. *)
LEMMA CountsStep == TypeOK /\ HandsOK /\ CountsOK /\ [Next]_vars => CountsOK'
  <1> SUFFICES ASSUME TypeOK, HandsOK, CountsOK, [Next]_vars PROVE CountsOK'
    OBVIOUS
  <1> USE DEF queueVars, mainVars, readerVars, chunkerVars, compVars, storeVars, stateVars
  <1>1. CASE StartWorker
    BY <1>1, CountsKept DEF StartWorker, TypeOK
  <1>2. CASE PushFile \/ CloseFileQueue \/ Join \/ UNCHANGED vars
    BY <1>2, CountsKept DEF PushFile, CloseFileQueue, Join, vars
  <1>3. ASSUME NEW w \in Workers, Reader(w)
        PROVE  CountsOK'
    BY <1>3, CountsKept DEF Reader, ReaderPop, ReaderLeave, ReadUnreadable, ReadFile
  <1>4. ASSUME NEW k \in Compressors, Compressor(k)
        PROVE  CountsOK'
    BY <1>4, CountsKept DEF Compressor, CompressorPop, CompressorLeave, EncodeChunk, EncodeError,
                            CompressorCloseAll
  <1>5. ASSUME NEW s \in Storers, Storer(s)
        PROVE  CountsOK'
    BY <1>5, CountsKept DEF Storer, StorerPop, StorerLeave, StoreChunk, StoreError, StorerCloseAll
  <1> QED BY <1>1, <1>2, <1>3, <1>4, <1>5, CountsChunker DEF Next, Main

(* Steps that take tasks away, if anything.                                *)
LEMMA TasksDropped ==
    ASSUME TasksOnce, UNCHANGED <<pushed, hashes>>,
           Elems(chunkQ') \subseteq Elems(chunkQ), Distinct(chunkQ'),
           Elems(encodedQ') \subseteq Elems(encodedQ), Distinct(encodedQ'),
           \A k \in Compressors : Encoding(k)' => Encoding(k) /\ compTask'[k] = compTask[k],
           \A s \in Storers : Storing(s)' => Storing(s) /\ storeTask'[s] = storeTask[s]
    PROVE  TasksOnce'
  <1>1. \A t : OnItsWay(t)' = OnItsWay(t)
    BY DEF OnItsWay
  <1>2. /\ \A t \in Elems(chunkQ') : OnItsWay(t) /\ t \notin Elems(encodedQ')
        /\ \A t \in Elems(encodedQ') : OnItsWay(t)
    BY DEF TasksOnce
  <1>3. ASSUME NEW k \in Compressors, Encoding(k)'
        PROVE  /\ OnItsWay(compTask'[k])
               /\ compTask'[k] \notin Elems(chunkQ') /\ compTask'[k] \notin Elems(encodedQ')
               /\ \A j \in Compressors : Encoding(j)' /\ compTask'[j] = compTask'[k] => j = k
    BY <1>3 DEF TasksOnce
  <1>4. ASSUME NEW s \in Storers, Storing(s)'
        PROVE  /\ OnItsWay(storeTask'[s])
               /\ storeTask'[s] \notin Elems(chunkQ') /\ storeTask'[s] \notin Elems(encodedQ')
               /\ \A k \in Compressors : Encoding(k)' => compTask'[k] # storeTask'[s]
               /\ \A r \in Storers : Storing(r)' /\ storeTask'[r] = storeTask'[s] => r = s
    BY <1>4 DEF TasksOnce
  <1> QED BY <1>1, <1>2, <1>3, <1>4 DEF TasksOnce, OnItsWay, Elems, Distinct

(* The chunker adds a task that is nowhere else: its number is above all   *)
(* that were pushed.                                                       *)
LEMMA TasksPushed ==
    ASSUME TypeOK, HandsOK, TasksOnce, DoneCounts, NEW w \in Workers, PushChunk(w)
    PROVE  TasksOnce'
  <1> DEFINE f == chunkerFile[w]
             t == TaskOf(f, pushed[f] + 1)
  <1>1. f \in Files /\ pushed' = [pushed EXCEPT ![f] = pushed[f] + 1] /\ chunkQ' = Append(chunkQ, t)
    BY DEF PushChunk, HandsOK
  <1>2. /\ UNCHANGED <<encodedQ, compressor, compTask, storer, storeTask, hashes>>
    BY DEF PushChunk, compVars, storeVars
  <1>3. pushed \in [Files -> Nat] /\ chunkQ \in Seq(Task) /\ encodedQ \in Seq(Task)
    BY DEF TypeOK
  <1>4. t \in Task /\ t.file = f /\ t.chunk = pushed[f] + 1
    BY <1>1, <1>3 DEF TaskOf, Task
  <1>5. ~OnItsWay(t)
    BY <1>1, <1>3, <1>4 DEF OnItsWay
  <1>6. t.chunk \notin hashes[f]
    BY <1>1, <1>3, <1>4 DEF DoneCounts
  <1>7. ASSUME NEW u, u.file \in Files, OnItsWay(u)
        PROVE  u.chunk \in 1..pushed'[u.file] /\ u.chunk \notin hashes'[u.file] /\ u # t
    BY <1>1, <1>2, <1>3, <1>5, <1>7 DEF OnItsWay
  <1>8. t.chunk \in 1..pushed'[t.file] /\ t.chunk \notin hashes'[t.file]
    BY <1>1, <1>2, <1>3, <1>4, <1>6
  <1>9. Elems(chunkQ') = Elems(chunkQ) \union {t}
    BY <1>1, <1>3, <1>4, AppendElems
  <1>10. \A u \in Elems(chunkQ) \union Elems(encodedQ) : u.file \in Files
    <2>1. Elems(chunkQ) \subseteq Task /\ Elems(encodedQ) \subseteq Task
      BY <1>3, ElemsType
    <2> QED BY <2>1 DEF Task
  <1>11. Distinct(chunkQ')
    BY <1>1, <1>3, <1>4, <1>5, AppendElems DEF TasksOnce
  <1> HIDE DEF t, f
  <1>12. t \notin Elems(encodedQ) /\ \A u \in Elems(chunkQ') : u \notin Elems(encodedQ)
    BY <1>5, <1>9 DEF TasksOnce
  <1>13. /\ \A k \in Compressors : Encoding(k) => compTask[k].file \in Files /\ compTask[k] # t
         /\ \A s \in Storers : Storing(s) => storeTask[s].file \in Files /\ storeTask[s] # t
    BY <1>5 DEF HandsOK, Task, TasksOnce
  <1>14. /\ \A k \in Compressors : Encoding(k)' = Encoding(k)
         /\ \A s \in Storers : Storing(s)' = Storing(s)
    BY <1>2 DEF Encoding, Storing
  <1>15. /\ \A u \in Elems(chunkQ') : OnItsWay(u)' /\ u \notin Elems(encodedQ')
         /\ \A u \in Elems(encodedQ') : OnItsWay(u)'
    BY <1>2, <1>7, <1>8, <1>9, <1>10, <1>12 DEF TasksOnce, OnItsWay
  <1>16. ASSUME NEW k \in Compressors, Encoding(k)
         PROVE  /\ OnItsWay(compTask[k])'
                /\ compTask[k] \notin Elems(chunkQ') /\ compTask[k] \notin Elems(encodedQ')
                /\ \A j \in Compressors : Encoding(j) /\ compTask[j] = compTask[k] => j = k
    <2>1. OnItsWay(compTask[k])
      BY <1>16 DEF TasksOnce
    <2>2. OnItsWay(compTask[k])'
      BY <1>2, <1>7, <1>13, <1>16, <2>1 DEF OnItsWay
    <2> QED BY <1>2, <1>9, <1>13, <1>16, <2>2 DEF TasksOnce
  <1>17. ASSUME NEW s \in Storers, Storing(s)
         PROVE  /\ OnItsWay(storeTask[s])'
                /\ storeTask[s] \notin Elems(chunkQ') /\ storeTask[s] \notin Elems(encodedQ')
                /\ \A k \in Compressors : Encoding(k) => compTask[k] # storeTask[s]
                /\ \A r \in Storers : Storing(r) /\ storeTask[r] = storeTask[s] => r = s
    <2>1. OnItsWay(storeTask[s])
      BY <1>17 DEF TasksOnce
    <2>2. OnItsWay(storeTask[s])'
      BY <1>2, <1>7, <1>13, <1>17, <2>1 DEF OnItsWay
    <2> QED BY <1>2, <1>9, <1>13, <1>17, <2>2 DEF TasksOnce
  <1>18. Distinct(encodedQ')
    BY <1>2 DEF TasksOnce
  <1> QED BY <1>2, <1>11, <1>14, <1>15, <1>16, <1>17, <1>18 DEF TasksOnce, Elems, Distinct

(* A compressor takes a task out of the chunk queue ...                    *)
LEMMA TasksToCompressor ==
    ASSUME TypeOK, TasksOnce, NEW k \in Compressors, CompressorPop(k)
    PROVE  TasksOnce'
  <1>1. chunkQ # <<>> /\ chunkQ' = Tail(chunkQ) /\ chunkQ \in Seq(Task)
    BY DEF CompressorPop, TypeOK
  <1>2. UNCHANGED <<encodedQ, storer, storeTask, pushed, hashes>>
    BY DEF CompressorPop, storeVars, stateVars
  <1> DEFINE t == Head(chunkQ)
  <1>3. /\ Elems(chunkQ') \subseteq Elems(chunkQ) /\ Distinct(chunkQ')
        /\ t \in Elems(chunkQ) /\ t \notin Elems(chunkQ')
    BY <1>1, TailElems DEF TasksOnce
  <1>4. Distinct(encodedQ') /\ Elems(encodedQ') = Elems(encodedQ)
    BY <1>2 DEF TasksOnce
  <1>5. \A s \in Storers : Storing(s)' = Storing(s)
    BY <1>2 DEF Storing
  <1>6. CASE error
    <2>1. \A j \in Compressors : Encoding(j)' => Encoding(j) /\ compTask'[j] = compTask[j]
      BY <1>6 DEF CompressorPop, CompressorExit, Encoding, TypeOK
    <2> QED BY <1>2, <1>3, <1>4, <1>5, <2>1, TasksDropped
  <1>7. CASE ~error
    <2>1. \A j \in Compressors :
             /\ Encoding(j)' => Encoding(j) \/ j = k
             /\ compTask'[j] = IF j = k THEN t ELSE compTask[j]
      BY <1>7 DEF CompressorPop, Encoding, TypeOK
    <2> HIDE DEF t
    <2>2. \A u : OnItsWay(u)' = OnItsWay(u)
      BY <1>2 DEF OnItsWay
    <2>3. /\ \A u \in Elems(chunkQ') : OnItsWay(u) /\ u \notin Elems(encodedQ')
          /\ \A u \in Elems(encodedQ') : OnItsWay(u)
      BY <1>3, <1>4 DEF TasksOnce
    <2>4. ASSUME NEW j \in Compressors, Encoding(j)'
          PROVE  /\ OnItsWay(compTask'[j])
                 /\ compTask'[j] \notin Elems(chunkQ') /\ compTask'[j] \notin Elems(encodedQ')
                 /\ \A i \in Compressors : Encoding(i)' /\ compTask'[i] = compTask'[j] => i = j
      BY <1>3, <1>4, <2>1, <2>4 DEF TasksOnce
    <2>5. ASSUME NEW s \in Storers, Storing(s)
          PROVE  /\ OnItsWay(storeTask[s])
                 /\ storeTask[s] \notin Elems(chunkQ') /\ storeTask[s] \notin Elems(encodedQ')
                 /\ \A j \in Compressors : Encoding(j)' => compTask'[j] # storeTask[s]
                 /\ \A r \in Storers : Storing(r) /\ storeTask[r] = storeTask[s] => r = s
      BY <1>3, <1>4, <2>1, <2>5 DEF TasksOnce
    <2> QED BY <1>2, <1>3, <1>4, <1>5, <2>2, <2>3, <2>4, <2>5 DEF TasksOnce, OnItsWay, Elems, Distinct
  <1> QED BY <1>6, <1>7

(* ... and puts it into the encoded queue ...                              *)
LEMMA TasksEncoded ==
    ASSUME TypeOK, HandsOK, TasksOnce, NEW k \in Compressors, EncodeChunk(k)
    PROVE  TasksOnce'
  <1> DEFINE t == compTask[k]
  <1>1. Encoding(k) /\ encodedQ' = Append(encodedQ, t) /\ encodedQ \in Seq(Task) /\ t \in Task
    BY DEF EncodeChunk, TypeOK, HandsOK, Encoding
  <1>2. UNCHANGED <<chunkQ, storer, storeTask, pushed, hashes>>
    BY DEF EncodeChunk, storeVars, stateVars
  <1>3. \A j \in Compressors : Encoding(j)' => Encoding(j) /\ j # k /\ compTask'[j] = compTask[j]
    BY DEF EncodeChunk, Encoding, TypeOK
  <1>4. t \notin Elems(encodedQ) /\ t \notin Elems(chunkQ) /\ OnItsWay(t)
    BY <1>1 DEF TasksOnce
  <1>5. Elems(encodedQ') = Elems(encodedQ) \union {t} /\ Distinct(encodedQ')
    BY <1>1, <1>4, AppendElems DEF TasksOnce
  <1>6. Elems(chunkQ') = Elems(chunkQ) /\ Distinct(chunkQ')
    BY <1>2 DEF TasksOnce
  <1>7. \A s \in Storers : Storing(s)' = Storing(s)
    BY <1>2 DEF Storing
  <1>8. \A u : OnItsWay(u)' = OnItsWay(u)
    BY <1>2 DEF OnItsWay
  <1>9. /\ \A u \in Elems(chunkQ') : OnItsWay(u) /\ u \notin Elems(encodedQ')
        /\ \A u \in Elems(encodedQ') : OnItsWay(u)
    BY <1>4, <1>5, <1>6 DEF TasksOnce
  <1>10. ASSUME NEW j \in Compressors, Encoding(j)'
         PROVE  /\ OnItsWay(compTask'[j])
                /\ compTask'[j] \notin Elems(chunkQ') /\ compTask'[j] \notin Elems(encodedQ')
                /\ \A i \in Compressors : Encoding(i)' /\ compTask'[i] = compTask'[j] => i = j
    BY <1>1, <1>3, <1>5, <1>6, <1>10 DEF TasksOnce
  <1>11. ASSUME NEW s \in Storers, Storing(s)
         PROVE  /\ OnItsWay(storeTask[s])
                /\ storeTask[s] \notin Elems(chunkQ') /\ storeTask[s] \notin Elems(encodedQ')
                /\ \A j \in Compressors : Encoding(j)' => compTask'[j] # storeTask[s]
                /\ \A r \in Storers : Storing(r) /\ storeTask[r] = storeTask[s] => r = s
    BY <1>1, <1>3, <1>5, <1>6, <1>11 DEF TasksOnce
  <1> HIDE DEF t
  <1> QED BY <1>2, <1>5, <1>6, <1>7, <1>8, <1>9, <1>10, <1>11 DEF TasksOnce, OnItsWay, Elems, Distinct

(* ... from which a store worker takes it.                                 *)
LEMMA TasksToStorer ==
    ASSUME TypeOK, TasksOnce, NEW s \in Storers, StorerPop(s)
    PROVE  TasksOnce'
  <1>1. encodedQ # <<>> /\ encodedQ' = Tail(encodedQ) /\ encodedQ \in Seq(Task)
    BY DEF StorerPop, TypeOK
  <1>2. UNCHANGED <<chunkQ, compressor, compTask, pushed, hashes>>
    BY DEF StorerPop, compVars, stateVars
  <1> DEFINE t == Head(encodedQ)
  <1>3. /\ Elems(encodedQ') \subseteq Elems(encodedQ) /\ Distinct(encodedQ')
        /\ t \in Elems(encodedQ) /\ t \notin Elems(encodedQ')
    BY <1>1, TailElems DEF TasksOnce
  <1>4. Distinct(chunkQ') /\ Elems(chunkQ') = Elems(chunkQ)
    BY <1>2 DEF TasksOnce
  <1>5. \A k \in Compressors : Encoding(k)' = Encoding(k)
    BY <1>2 DEF Encoding
  <1>6. CASE error
    <2>1. \A r \in Storers : Storing(r)' => Storing(r) /\ storeTask'[r] = storeTask[r]
      BY <1>6 DEF StorerPop, StorerExit, Storing, TypeOK
    <2> QED BY <1>2, <1>3, <1>4, <1>5, <2>1, TasksDropped
  <1>7. CASE ~error
    <2>1. \A r \in Storers :
             /\ Storing(r)' => Storing(r) \/ r = s
             /\ storeTask'[r] = IF r = s THEN t ELSE storeTask[r]
      BY <1>7 DEF StorerPop, Storing, TypeOK
    <2> HIDE DEF t
    <2>2. \A u : OnItsWay(u)' = OnItsWay(u)
      BY <1>2 DEF OnItsWay
    <2>3. /\ \A u \in Elems(chunkQ') : OnItsWay(u) /\ u \notin Elems(encodedQ')
          /\ \A u \in Elems(encodedQ') : OnItsWay(u)
      BY <1>3, <1>4 DEF TasksOnce
    <2>4. ASSUME NEW k \in Compressors, Encoding(k)
          PROVE  /\ OnItsWay(compTask[k])
                 /\ compTask[k] \notin Elems(chunkQ') /\ compTask[k] \notin Elems(encodedQ')
                 /\ \A j \in Compressors : Encoding(j) /\ compTask[j] = compTask[k] => j = k
      BY <1>3, <1>4, <2>4 DEF TasksOnce
    <2>5. t \notin Elems(chunkQ') /\ OnItsWay(t)
      BY <1>3, <1>4 DEF TasksOnce
    <2>6. ASSUME NEW r \in Storers, Storing(r)'
          PROVE  /\ OnItsWay(storeTask'[r])
                 /\ storeTask'[r] \notin Elems(chunkQ') /\ storeTask'[r] \notin Elems(encodedQ')
                 /\ \A k \in Compressors : Encoding(k) => compTask[k] # storeTask'[r]
                 /\ \A q \in Storers : Storing(q)' /\ storeTask'[q] = storeTask'[r] => q = r
      BY <1>3, <1>4, <2>1, <2>5, <2>6 DEF TasksOnce
    <2> QED BY <1>2, <1>3, <1>4, <1>5, <2>2, <2>3, <2>4, <2>6 DEF TasksOnce, OnItsWay, Elems, Distinct
  <1> QED BY <1>6, <1>7

(* A set of as many numbers up to n as there are is all of them.           *)
LEMMA AllOfThem ==
    ASSUME NEW n \in Nat, NEW p \in Nat, p <= n, NEW S \in SUBSET (1..p), Cardinality(S) >= n
    PROVE  S = 1..n
  <1>1. S \in SUBSET (1..n)
    OBVIOUS
  <1>2. IsFiniteSet(1..n) /\ Cardinality(1..n) = n
    BY FS_Interval
  <1>3. Cardinality(S) \in Nat /\ Cardinality(S) <= n
    BY <1>1, <1>2, FS_Subset, FS_CardinalityType
  <1>4. Cardinality(1..n) = Cardinality(S)
    BY <1>2, <1>3
  <1> QED BY <1>1, <1>2, <1>4, FS_Subset

(* The store worker records the hash of its task, which no other thread    *)
(* has.                                                                    *)
LEMMA StoreRecords ==
    ASSUME TypeOK, HandsOK, CountsOK, TasksOnce, DoneCounts, NEW s \in Storers, StoreChunk(s)
    PROVE  TasksOnce' /\ DoneCounts'
  <1> DEFINE t == storeTask[s]
             f == t.file
  <1>1. Storing(s) /\ t \in Task /\ f \in Files /\ t.chunk \in Nat
    BY DEF StoreChunk, HandsOK, Storing, Task
  <1>2. UNCHANGED <<chunkQ, encodedQ, compressor, compTask, pushed>>
    BY DEF StoreChunk, compVars, queueVars
  <1>3. \A r \in Storers : Storing(r)' => Storing(r) /\ r # s /\ storeTask'[r] = storeTask[r]
    BY DEF StoreChunk, StorerExit, Storing, TypeOK
  <1>4. \A k \in Compressors : Encoding(k)' = Encoding(k)
    BY <1>2 DEF Encoding
  <1>5. Distinct(chunkQ') /\ Distinct(encodedQ')
    BY <1>2 DEF TasksOnce
  <1>6. CASE f \in finalized
    <2>1. hashes' = hashes /\ done' = done
      BY <1>6 DEF StoreChunk
    <2>2. TasksOnce'
      BY <1>2, <1>3, <1>4, <1>5, <2>1, TasksDropped
    <2> QED BY <1>2, <2>1, <2>2 DEF DoneCounts
  <1>7. CASE f \notin finalized
    <2>1. /\ hashes' = [hashes EXCEPT ![f] = hashes[f] \union {t.chunk}]
          /\ done' = [done EXCEPT ![f] = done[f] + 1]
      BY <1>7 DEF StoreChunk
    <2>2. hashes \in [Files -> SUBSET Nat] /\ done \in [Files -> Nat] /\ pushed \in [Files -> Nat]
      BY DEF TypeOK
    <2>3. t.chunk \in 1..pushed[f] /\ t.chunk \notin hashes[f]
      BY <1>1 DEF TasksOnce, OnItsWay
    <2>4. ASSUME NEW u \in Task, OnItsWay(u), u # t
          PROVE  OnItsWay(u)'
      <3>1. u.file \in Files /\ (u.file = f => u.chunk # t.chunk)
        BY <1>1, <2>4 DEF Task
      <3>2. hashes'[u.file] = IF u.file = f THEN hashes[f] \union {t.chunk} ELSE hashes[u.file]
        BY <1>1, <2>1, <2>2, <3>1
      <3> QED BY <1>2, <2>4, <3>1, <3>2 DEF OnItsWay
    <2>5. Elems(chunkQ) \subseteq Task /\ Elems(encodedQ) \subseteq Task
      BY ElemsType DEF TypeOK
    <2>6. /\ \A u \in Elems(chunkQ) : OnItsWay(u)' /\ u \notin Elems(encodedQ)
          /\ \A u \in Elems(encodedQ) : OnItsWay(u)'
      BY <1>1, <2>4, <2>5 DEF TasksOnce
    <2>7. ASSUME NEW k \in Compressors, Encoding(k)
          PROVE  OnItsWay(compTask[k])'
      <3>1. compTask[k] \in Task /\ OnItsWay(compTask[k]) /\ compTask[k] # t
        BY <1>1, <2>7 DEF TasksOnce, HandsOK
      <3> QED BY <1>2, <2>4, <3>1
    <2>8. ASSUME NEW r \in Storers, Storing(r), r # s
          PROVE  storeTask[r] \in Task /\ OnItsWay(storeTask[r]) /\ storeTask[r] # t
      BY <1>1, <2>8 DEF TasksOnce, HandsOK
    <2>9. ASSUME NEW r \in Storers, Storing(r)'
          PROVE  /\ OnItsWay(storeTask[r])'
                 /\ storeTask'[r] \notin Elems(chunkQ) /\ storeTask'[r] \notin Elems(encodedQ)
                 /\ \A k \in Compressors : Encoding(k) => compTask[k] # storeTask'[r]
                 /\ \A q \in Storers : Storing(q)' /\ storeTask'[q] = storeTask'[r] => q = r
      <3>1. Storing(r) /\ r # s /\ storeTask'[r] = storeTask[r]
        BY <1>3, <2>9
      <3>2. OnItsWay(storeTask[r])'
        <4>1. \A u \in Task : OnItsWay(u) /\ u # t => OnItsWay(u)'
          BY <2>4
        <4>2. storeTask[r] \in Task /\ OnItsWay(storeTask[r]) /\ storeTask[r] # t
          BY <2>8, <3>1
        <4>3. /\ storeTask[r].chunk \in 1..pushed'[storeTask[r].file]
              /\ storeTask[r].chunk \notin hashes'[storeTask[r].file]
          BY <4>1, <4>2 DEF OnItsWay
        <4> QED BY <3>1, <4>3 DEF OnItsWay
      <3> QED BY <1>3, <3>1, <3>2 DEF TasksOnce
    <2>10. TasksOnce'
      BY <1>2, <1>4, <1>5, <2>6, <2>7, <2>9 DEF TasksOnce, Elems, Distinct
    <2>11. ASSUME NEW g \in Files
           PROVE  hashes'[g] \subseteq 1..pushed'[g] /\ done'[g] = Cardinality(hashes'[g])
      <3>1. CASE g # f
        BY <1>1, <1>2, <2>1, <2>2, <3>1 DEF DoneCounts
      <3>2. CASE g = f
        <4>1. hashes[f] \subseteq 1..pushed[f] /\ done[f] = Cardinality(hashes[f])
          BY <1>1 DEF DoneCounts
        <4>2. IsFiniteSet(1..pushed[f])
          <5>1. pushed[f] \in Int
            BY <1>1, <2>2
          <5> QED BY <5>1, FS_Interval
        <4>3. IsFiniteSet(hashes[f])
          BY <4>1, <4>2, FS_Subset
        <4>4. Cardinality(hashes[f] \union {t.chunk}) = Cardinality(hashes[f]) + 1
          BY <2>3, <4>3, FS_AddElement
        <4> QED BY <1>1, <1>2, <2>1, <2>2, <2>3, <3>2, <4>1, <4>4
      <3> QED BY <3>1, <3>2
    <2> QED BY <2>10, <2>11 DEF DoneCounts
  <1> QED BY <1>6, <1>7

(* No step puts a task into two places or counts a chunk twice.            *)
LEMMA TasksStep ==
    ASSUME TypeOK, HandsOK, CountsOK, TasksOnce, DoneCounts, [Next]_vars
    PROVE  TasksOnce' /\ DoneCounts'
  <1> USE DEF queueVars, mainVars, readerVars, chunkerVars, compVars, storeVars, stateVars
  <1>1. Distinct(chunkQ) /\ Distinct(encodedQ)
    BY DEF TasksOnce
  <1>2. ASSUME UNCHANGED <<chunkQ, encodedQ, pushed, hashes, done>>,
               \A k \in Compressors : Encoding(k)' => Encoding(k) /\ compTask'[k] = compTask[k],
               \A s \in Storers : Storing(s)' => Storing(s) /\ storeTask'[s] = storeTask[s]
        PROVE  TasksOnce' /\ DoneCounts'
    BY <1>1, <1>2, TasksDropped DEF DoneCounts
  <1>3. CASE Main \/ UNCHANGED vars
    BY <1>2, <1>3 DEF Main, StartWorker, PushFile, CloseFileQueue, Join, vars, Encoding, Storing
  <1>4. ASSUME NEW w \in Workers, Reader(w)
        PROVE  TasksOnce' /\ DoneCounts'
    BY <1>2, <1>4 DEF Reader, ReaderPop, ReaderLeave, ReadUnreadable, ReadFile, Encoding, Storing
  <1>5. ASSUME NEW w \in Workers, PushChunk(w)
        PROVE  TasksOnce' /\ DoneCounts'
    <2>1. DoneCounts'
      <3> DEFINE f == chunkerFile[w]
      <3>1. f \in Files /\ pushed \in [Files -> Nat]
        BY <1>5 DEF PushChunk, HandsOK, TypeOK
      <3>2. pushed' = [pushed EXCEPT ![f] = pushed[f] + 1] /\ hashes' = hashes /\ done' = done
        BY <1>5 DEF PushChunk
      <3>3. \A g \in Files : 1..pushed[g] \subseteq 1..pushed'[g]
        BY <3>1, <3>2
      <3> QED BY <3>2, <3>3 DEF DoneCounts
    <2> QED BY <1>5, <2>1, TasksPushed
  <1>6. ASSUME NEW w \in Workers, Chunker(w), ~PushChunk(w)
        PROVE  TasksOnce' /\ DoneCounts'
    BY <1>2, <1>6 DEF Chunker, ChunkerPop, ChunkerLeave, CutBatch, ChunkedAll, ChunkError,
                  ChunkerCloseAll, CompleteChunking, TryFinalizeFile, Encoding, Storing
  <1>7. ASSUME NEW k \in Compressors, Compressor(k)
        PROVE  TasksOnce' /\ DoneCounts'
    <2>1. DoneCounts'
      BY <1>7 DEF Compressor, CompressorPop, CompressorLeave, EncodeChunk, EncodeError,
                  CompressorCloseAll, DoneCounts
    <2>2. CASE CompressorLeave(k) \/ EncodeError(k) \/ CompressorCloseAll(k)
      <3>1. \A j \in Compressors : Encoding(j)' => Encoding(j) /\ compTask'[j] = compTask[j]
        BY <2>2 DEF CompressorLeave, EncodeError, CompressorCloseAll, CompressorExit, Encoding,
                    TypeOK
      <3> QED BY <1>2, <2>2, <3>1 DEF CompressorLeave, EncodeError, CompressorCloseAll, Storing
    <2> QED BY <1>7, <2>1, <2>2, TasksToCompressor, TasksEncoded DEF Compressor
  <1>8. ASSUME NEW s \in Storers, Storer(s)
        PROVE  TasksOnce' /\ DoneCounts'
    <2>1. CASE StorerLeave(s) \/ StoreError(s) \/ StorerCloseAll(s)
      <3>1. \A r \in Storers : Storing(r)' => Storing(r) /\ storeTask'[r] = storeTask[r]
        BY <2>1 DEF StorerLeave, StoreError, StorerCloseAll, StorerExit, Storing, TypeOK
      <3> QED BY <1>2, <2>1, <3>1 DEF StorerLeave, StoreError, StorerCloseAll, Encoding
    <2>2. CASE StorerPop(s)
      BY <2>2, TasksToStorer DEF StorerPop, DoneCounts
    <2>3. CASE StoreChunk(s)
      BY <2>3, StoreRecords
    <2> QED BY <1>8, <2>1, <2>2, <2>3 DEF Storer
  <1> QED BY <1>3, <1>4, <1>5, <1>6, <1>7, <1>8 DEF Next

(* A file is finalized when all its chunks are counted.                    *)
LEMMA EntriesStep ==
    ASSUME TypeOK, HandsOK, CountsOK, TasksOnce, DoneCounts, EntriesWhole, [Next]_vars
    PROVE  EntriesWhole'
  <1> USE DEF queueVars, mainVars, readerVars, chunkerVars, compVars, storeVars, stateVars
  <1>1. ASSUME UNCHANGED <<hashes, finalized>>
        PROVE  EntriesWhole'
    BY <1>1 DEF EntriesWhole
  <1>2. CASE Main \/ UNCHANGED vars
    BY <1>1, <1>2 DEF Main, StartWorker, PushFile, CloseFileQueue, Join, vars
  <1>3. ASSUME NEW w \in Workers, Reader(w)
        PROVE  EntriesWhole'
    BY <1>1, <1>3 DEF Reader, ReaderPop, ReaderLeave, ReadUnreadable, ReadFile
  <1>4. ASSUME NEW w \in Workers, Chunker(w), ~TryFinalizeFile(w)
        PROVE  EntriesWhole'
    BY <1>1, <1>4 DEF Chunker, ChunkerPop, ChunkerLeave, CutBatch, PushChunk, ChunkedAll,
                      ChunkError, ChunkerCloseAll, CompleteChunking
  <1>5. ASSUME NEW w \in Workers, TryFinalizeFile(w)
        PROVE  EntriesWhole'
    <2> DEFINE f == chunkerFile[w]
    <2>1. f \in Files /\ total[f] = NumChunks[f] /\ hashes' = hashes
      BY <1>5 DEF TryFinalizeFile, HandsOK, CountsOK
    <2>2. /\ total[f] \in Nat /\ done[f] \in Nat /\ pushed[f] \in Nat
          /\ pushed[f] <= NumChunks[f] /\ NumChunks[f] \in Nat
          /\ hashes[f] \in SUBSET (1..pushed[f]) /\ done[f] = Cardinality(hashes[f])
      BY <2>1, ChunksAssumption DEF TypeOK, CountsOK, DoneCounts
    <2>3. CASE total[f] > 0 /\ done[f] < total[f]
      BY <1>1, <1>5, <2>1, <2>3 DEF TryFinalizeFile
    <2>4. CASE ~(total[f] > 0 /\ done[f] < total[f])
      <3>1. done[f] >= NumChunks[f]
        BY <2>1, <2>2, <2>4
      <3>2. hashes[f] = 1..NumChunks[f]
        BY <2>2, <3>1, AllOfThem
      <3>3. finalized' = finalized \union {f}
        BY <1>5, <2>4 DEF TryFinalizeFile
      <3> QED BY <2>1, <3>2, <3>3 DEF EntriesWhole
    <2> QED BY <2>3, <2>4
  <1>6. ASSUME NEW k \in Compressors, Compressor(k)
        PROVE  EntriesWhole'
    BY <1>1, <1>6 DEF Compressor, CompressorPop, CompressorLeave, EncodeChunk, EncodeError,
                      CompressorCloseAll
  <1>7. ASSUME NEW s \in Storers, Storer(s), ~StoreChunk(s)
        PROVE  EntriesWhole'
    BY <1>1, <1>7 DEF Storer, StorerPop, StorerLeave, StoreError, StorerCloseAll
  <1>8. ASSUME NEW s \in Storers, StoreChunk(s)
        PROVE  EntriesWhole'
    <2> DEFINE f == storeTask[s].file
    <2>1. f \in Files
      BY <1>8 DEF StoreChunk, HandsOK, Storing, Task
    <2>2. CASE f \in finalized
      BY <1>1, <1>8, <2>2 DEF StoreChunk
    <2>3. CASE f \notin finalized
      <3>1. /\ hashes' = [hashes EXCEPT ![f] = hashes[f] \union {storeTask[s].chunk}]
            /\ done' = [done EXCEPT ![f] = done[f] + 1]
            /\ finalized' = IF Finishes(f) THEN finalized \union {f} ELSE finalized
            /\ pushed' = pushed
        BY <1>8, <2>3 DEF StoreChunk
      <3>2. \A g \in finalized : hashes'[g] = 1..NumChunks[g]
        BY <2>1, <2>3, <3>1 DEF EntriesWhole, TypeOK
      <3>3. CASE ~Finishes(f)
        BY <3>1, <3>2, <3>3 DEF EntriesWhole
      <3>4. CASE Finishes(f)
        <4>1. total[f] = NumChunks[f] /\ done[f] + 1 >= total[f]
          BY <2>1, <3>4 DEF Finishes, CountsOK
        <4>2. DoneCounts'
          BY <1>8, StoreRecords
        <4>3. /\ hashes'[f] \in SUBSET (1..pushed[f]) /\ done'[f] = Cardinality(hashes'[f])
              /\ done'[f] = done[f] + 1
          BY <2>1, <3>1, <4>2 DEF DoneCounts, TypeOK
        <4>4. pushed[f] \in Nat /\ NumChunks[f] \in Nat /\ pushed[f] <= NumChunks[f]
          BY <2>1, <4>1, ChunksAssumption DEF TypeOK, CountsOK
        <4>5. hashes'[f] = 1..NumChunks[f]
          <5>1. Cardinality(hashes'[f]) >= NumChunks[f]
            BY <4>1, <4>3, <4>4
          <5> QED BY <4>3, <4>4, <5>1, AllOfThem
        <4> QED BY <3>1, <3>2, <3>4, <4>5 DEF EntriesWhole
      <3> QED BY <3>3, <3>4
    <2> QED BY <2>2, <2>3
  <1> QED BY <1>2, <1>3, <1>4, <1>5, <1>6, <1>7, <1>8 DEF Next

(* No task is on its way at the start. *)
LEMMA TasksInit == Init => CountsOK /\ TasksOnce /\ DoneCounts /\ EntriesWhole
  <1> SUFFICES ASSUME Init PROVE CountsOK /\ TasksOnce /\ DoneCounts /\ EntriesWhole
    OBVIOUS
  <1>1. CountsOK
    BY ChunksAssumption DEF Init, CountsOK
  <1>2. TasksOnce
    BY EmptyElems DEF Init, TasksOnce, Encoding, Storing
  <1>3. DoneCounts
    BY FS_EmptySet DEF Init, DoneCounts
  <1> QED BY <1>1, <1>2, <1>3 DEF Init, EntriesWhole

(* A file in the manifest has the hashes of all its chunks, for any number *)
(* of threads and whatever fails: MaybeFinalizeFileLocked and              *)
(* TryFinalizeFile never finalize a file that is cut or stored in part.    *)
THEOREM ManifestEntriesWhole == Spec => []EntriesWhole
  <1> DEFINE I == TypeOK /\ HandsOK /\ CountsOK /\ TasksOnce /\ DoneCounts /\ EntriesWhole
  <1>1. Init => I
    BY TypeInit, TasksInit DEF Init, HandsOK, Encoding, Storing
  <1>2. I /\ [Next]_vars => I'
    BY TypeStep, CountsStep, TasksStep, EntriesStep
  <1> QED BY <1>1, <1>2, PTL DEF Spec

-----------------------------------------------------------------------------
(* Nothing is left out.                                                    *)

(* FinalizeDue is about the variables named here only. *)
LEMMA DueKept ==
    ASSUME FinalizeDue, UNCHANGED <<complete, done, total>>, finalized \subseteq finalized',
           \A w \in Workers : chunker[w] = "finalize" =>
               chunker'[w] = "finalize" /\ chunkerFile'[w] = chunkerFile[w]
    PROVE  FinalizeDue'
  BY DEF FinalizeDue

(* A file that is cut and stored is finalized, or its chunker is about to  *)
(* do so.                                                                  *)
LEMMA DueStep ==
    ASSUME TypeOK, HandsOK, Unstarted, CountsOK, FinalizeDue, [Next]_vars
    PROVE  FinalizeDue'
  <1> USE DEF queueVars, mainVars, readerVars, chunkerVars, compVars, storeVars, stateVars
  <1>1. CASE StartWorker
    <2>1. chunker[cur] = "idle"
      BY <1>1 DEF StartWorker, Unstarted, TypeOK
    <2> QED BY <1>1, <2>1, DueKept DEF StartWorker, TypeOK
  <1>2. CASE PushFile \/ CloseFileQueue \/ Join \/ UNCHANGED vars
    BY <1>2, DueKept DEF PushFile, CloseFileQueue, Join, vars
  <1>3. ASSUME NEW w \in Workers, Reader(w)
        PROVE  FinalizeDue'
    BY <1>3, DueKept DEF Reader, ReaderPop, ReaderLeave, ReadUnreadable, ReadFile
  <1>4. ASSUME NEW w \in Workers, CutBatch(w)
        PROVE  FinalizeDue'
    <2> DEFINE f == chunkerFile[w]
    <2>1. f \in Files /\ \E n \in (total[f] + 1)..NumChunks[f] : total' = [total EXCEPT ![f] = n]
      BY <1>4 DEF CutBatch, HandsOK
    <2>2. total[f] # NumChunks[f]
      BY <2>1, ChunksAssumption DEF TypeOK
    <2>3. f \notin complete
      BY <2>2 DEF CountsOK
    <2>4. \A g \in complete : total'[g] = total[g]
      BY <2>1, <2>3 DEF TypeOK
    <2> QED BY <1>4, <2>4 DEF CutBatch, FinalizeDue
  <1>5. ASSUME NEW w \in Workers, CompleteChunking(w)
        PROVE  FinalizeDue'
    <2>1. /\ complete' = complete \union {chunkerFile[w]}
          /\ chunker'[w] = "finalize" /\ chunkerFile' = chunkerFile
          /\ \A v \in Workers : chunker[v] = "finalize" => chunker'[v] = "finalize"
          /\ UNCHANGED <<finalized, done, total>>
      BY <1>5 DEF CompleteChunking, TypeOK
    <2> QED BY <2>1 DEF FinalizeDue
  <1>6. ASSUME NEW w \in Workers, TryFinalizeFile(w)
        PROVE  FinalizeDue'
    <2> DEFINE f == chunkerFile[w]
    <2>1. /\ UNCHANGED <<complete, done, total>> /\ finalized \subseteq finalized'
          /\ f \in finalized' \/ done[f] < total[f]
      BY <1>6 DEF TryFinalizeFile
    <2>2. \A v \in Workers : v # w => chunker'[v] = chunker[v] /\ chunkerFile'[v] = chunkerFile[v]
      BY <1>6 DEF TryFinalizeFile, ChunkerNext, ChunkerExit, TypeOK
    <2> QED BY <2>1, <2>2 DEF FinalizeDue
  <1>7. ASSUME NEW w \in Workers, \/ ChunkerPop(w) \/ ChunkerLeave(w) \/ ChunkedAll(w)
                                  \/ ChunkError(w) \/ ChunkerCloseAll(w)
        PROVE  FinalizeDue'
    <2>1. chunker[w] # "finalize" /\ UNCHANGED <<complete, done, total, finalized>>
      BY <1>7 DEF ChunkerPop, ChunkerLeave, ChunkedAll, ChunkError, ChunkerCloseAll
    <2>2. \A v \in Workers : v # w => chunker'[v] = chunker[v] /\ chunkerFile'[v] = chunkerFile[v]
      BY <1>7 DEF ChunkerPop, ChunkerLeave, ChunkedAll, ChunkError, ChunkerCloseAll, ChunkerExit,
                  TypeOK
    <2> QED BY <2>1, <2>2, DueKept
  <1>8. ASSUME NEW w \in Workers, PushChunk(w)
        PROVE  FinalizeDue'
    BY <1>8, DueKept DEF PushChunk
  <1>9. ASSUME NEW k \in Compressors, Compressor(k)
        PROVE  FinalizeDue'
    BY <1>9, DueKept DEF Compressor, CompressorPop, CompressorLeave, EncodeChunk, EncodeError,
                         CompressorCloseAll
  <1>10. ASSUME NEW s \in Storers, Storer(s), ~StoreChunk(s)
         PROVE  FinalizeDue'
    BY <1>10, DueKept DEF Storer, StorerPop, StorerLeave, StoreError, StorerCloseAll
  <1>11. ASSUME NEW s \in Storers, StoreChunk(s)
         PROVE  FinalizeDue'
    <2> DEFINE f == storeTask[s].file
    <2>1. f \in Files /\ UNCHANGED <<complete, total, chunker, chunkerFile>>
      BY <1>11 DEF StoreChunk, HandsOK, Storing, Task
    <2>2. CASE f \in finalized
      BY <1>11, <2>1, <2>2, DueKept DEF StoreChunk
    <2>3. CASE f \notin finalized
      <3>1. /\ done' = [done EXCEPT ![f] = done[f] + 1]
            /\ finalized' = IF Finishes(f) THEN finalized \union {f} ELSE finalized
        BY <1>11, <2>3 DEF StoreChunk
      <3>2. \A g \in complete : g # f => done'[g] = done[g]
        BY <3>1 DEF TypeOK
      <3>3. f \in complete => f \in finalized' \/ done'[f] < total[f]
        BY <2>1, <3>1 DEF Finishes, TypeOK
      <3> QED BY <2>1, <3>1, <3>2, <3>3 DEF FinalizeDue
    <2> QED BY <2>2, <2>3
  <1> QED BY <1>1, <1>2, <1>3, <1>4, <1>5, <1>6, <1>7, <1>8, <1>9, <1>10, <1>11
          DEF Next, Main, Chunker

(* PushedAll is about the variables named here only. *)
LEMMA PushedKept ==
    ASSUME PushedAll, UNCHANGED <<pushed, total, complete>>,
           \A w \in Workers : chunker'[w] \in {"complete", "finalize"} =>
               chunker[w] \in {"complete", "finalize"} /\ chunkerFile'[w] = chunkerFile[w]
    PROVE  PushedAll'
  BY DEF PushedAll

(* Without an error a file counts as cut only when all its chunks are      *)
(* pushed.                                                                 *)
LEMMA PushedStep ==
    ASSUME TypeOK, HandsOK, CountsOK, PushedAll, ~error, [Next]_vars
    PROVE  PushedAll'
  <1> USE DEF queueVars, mainVars, readerVars, chunkerVars, compVars, storeVars, stateVars
  <1>1. CASE StartWorker
    BY <1>1, PushedKept DEF StartWorker, TypeOK
  <1>2. CASE PushFile \/ CloseFileQueue \/ Join \/ UNCHANGED vars
    BY <1>2, PushedKept DEF PushFile, CloseFileQueue, Join, vars
  <1>3. ASSUME NEW w \in Workers, Reader(w)
        PROVE  PushedAll'
    BY <1>3, PushedKept DEF Reader, ReaderPop, ReaderLeave, ReadUnreadable, ReadFile
  <1>4. ASSUME NEW k \in Compressors, Compressor(k)
        PROVE  PushedAll'
    BY <1>4, PushedKept DEF Compressor, CompressorPop, CompressorLeave, EncodeChunk, EncodeError,
                            CompressorCloseAll
  <1>5. ASSUME NEW s \in Storers, Storer(s)
        PROVE  PushedAll'
    BY <1>5, PushedKept DEF Storer, StorerPop, StorerLeave, StoreChunk, StoreError, StorerCloseAll
  <1>6. ASSUME NEW w \in Workers, ChunkerPop(w) \/ ChunkerLeave(w) \/ ChunkError(w)
        PROVE  PushedAll'
    BY <1>6, PushedKept DEF ChunkerPop, ChunkerLeave, ChunkError, ChunkerExit, TypeOK
  <1>7. ASSUME NEW w \in Workers, ChunkerCloseAll(w) \/ TryFinalizeFile(w)
        PROVE  PushedAll'
    BY <1>7, PushedKept DEF ChunkerCloseAll, TryFinalizeFile, ChunkerNext, ChunkerExit, TypeOK
  <1>8. ASSUME NEW w \in Workers, CutBatch(w)
        PROVE  PushedAll'
    <2> DEFINE f == chunkerFile[w]
    <2>1. f \in Files /\ \E n \in (total[f] + 1)..NumChunks[f] : total' = [total EXCEPT ![f] = n]
      BY <1>8 DEF CutBatch, HandsOK
    <2>2. total[f] # NumChunks[f] /\ UNCHANGED <<pushed, complete, chunker, chunkerFile>>
      BY <1>8, <2>1, ChunksAssumption DEF CutBatch, TypeOK
    <2>3. \A g \in Files : g # f => total'[g] = total[g]
      BY <2>1 DEF TypeOK
    <2>4. f \notin complete /\ complete \subseteq Files
      BY <2>2 DEF CountsOK, TypeOK
    <2>5. \A v \in Workers : chunker[v] \in {"complete", "finalize"}
                                => chunkerFile[v] \in Files /\ chunkerFile[v] # f
      BY <2>2 DEF CountsOK, HandsOK
    <2> QED BY <2>2, <2>3, <2>4, <2>5 DEF PushedAll
  <1>9. ASSUME NEW w \in Workers, PushChunk(w)
        PROVE  PushedAll'
    <2> DEFINE f == chunkerFile[w]
    <2>1. f \in Files /\ pushed' = [pushed EXCEPT ![f] = pushed[f] + 1] /\ pushed[f] < total[f]
      BY <1>9 DEF PushChunk, HandsOK
    <2>2. pushed[f] # total[f] /\ UNCHANGED <<total, complete, chunker, chunkerFile>>
      BY <1>9, <2>1 DEF PushChunk, TypeOK
    <2>3. \A g \in Files : g # f => pushed'[g] = pushed[g]
      BY <2>1 DEF TypeOK
    <2>4. f \notin complete /\ complete \subseteq Files
      BY <2>2 DEF PushedAll, TypeOK
    <2>5. \A v \in Workers : chunker[v] \in {"complete", "finalize"}
                                => chunkerFile[v] \in Files /\ chunkerFile[v] # f
      BY <2>2 DEF PushedAll, HandsOK
    <2> QED BY <2>2, <2>3, <2>4, <2>5 DEF PushedAll
  <1>10. ASSUME NEW w \in Workers, ChunkedAll(w)
         PROVE  PushedAll'
    BY <1>10 DEF ChunkedAll, PushedAll, TypeOK
  <1>11. ASSUME NEW w \in Workers, CompleteChunking(w)
         PROVE  PushedAll'
    BY <1>11 DEF CompleteChunking, PushedAll, TypeOK
  <1> QED BY <1>1, <1>2, <1>3, <1>4, <1>5, <1>6, <1>7, <1>8, <1>9, <1>10, <1>11
          DEF Next, Main, Chunker

(* FilesAccounted survives a step that drops no file. *)
LEMMA FilesKept ==
    ASSUME FilesAccounted, UNCHANGED mainVars,
           \A w \in Workers : \A f \in Files : InHands(w, f) => InHands(w, f)'
    PROVE  FilesAccounted'
  <1>1. \A w \in Workers : \A i \in 1..Len(Assigned[w]) : Assigned[w][i] \in Files
    BY AssignedAssumption
  <1>2. \A w, i : Awaited(w, i)' = Awaited(w, i)
    BY DEF Awaited, mainVars
  <1> QED BY <1>1, <1>2 DEF FilesAccounted

(* The calling thread drops no file. *)
LEMMA FilesMain ==
    ASSUME TypeOK, Unstarted, CloseOrder, FilesAccounted, ~error, Main
    PROVE  FilesAccounted'
  <1> USE DEF queueVars, mainVars, readerVars, chunkerVars, compVars, storeVars, stateVars
  <1>1. CASE StartWorker
    <2>1. reader[cur] = "idle" /\ chunker[cur] = "idle"
      BY <1>1 DEF StartWorker, Unstarted, TypeOK
    <2>2. \A w \in Workers, f \in Files : InHands(w, f) => InHands(w, f)'
      BY <1>1, <2>1 DEF StartWorker, InHands, TypeOK
    <2>3. \A w \in Workers : \A i \in 1..Len(Assigned[w]) : Awaited(w, i) => Awaited(w, i)'
      BY <1>1 DEF StartWorker, Awaited
    <2>4. \A w \in Workers : \A i \in 1..Len(Assigned[w]) : Assigned[w][i] \in Files
      BY AssignedAssumption
    <2> QED BY <2>2, <2>3, <2>4 DEF FilesAccounted
  <1>2. CASE PushFile
    <2> DEFINE g == Assigned[cur][nextFile]
    <2>1. cur \in Workers /\ nextFile \in Nat \ {0} /\ nextFile \in 1..Len(Assigned[cur])
      <3>1. cur \in Workers /\ nextFile \in Nat \ {0} /\ nextFile <= Len(Assigned[cur])
        BY <1>2 DEF PushFile, TypeOK
      <3>2. Len(Assigned[cur]) \in Nat
        BY <3>1, AssignedAssumption
      <3> QED BY <3>1, <3>2
    <2>2. g \in Files /\ fileQ[cur] \in Seq(Files)
      BY <2>1, AssignedAssumption DEF TypeOK
    <2>3. Elems(fileQ'[cur]) = Elems(fileQ[cur]) \union {g}
      BY <1>2, <2>1, <2>2, AppendElems DEF PushFile, TypeOK
    <2>4. \A w \in Workers : w # cur => fileQ'[w] = fileQ[w]
      BY <1>2 DEF PushFile, TypeOK
    <2>5. UNCHANGED <<reader, readerFile, chunker, chunkerFile, issues, readQ, complete, cur, mainPc>>
      BY <1>2 DEF PushFile
    <2>6. \A w \in Workers, f \in Files : InHands(w, f) => InHands(w, f)'
      BY <2>3, <2>4, <2>5 DEF InHands
    <2>7. \A f \in Files : f = g => InHands(cur, f)'
      BY <2>3, <2>5 DEF InHands
    <2>8. \A w \in Workers : \A i \in 1..Len(Assigned[w]) :
             Awaited(w, i) => Awaited(w, i)' \/ (w = cur /\ i = nextFile)
      <3>1. nextFile' = nextFile + 1 /\ mainPc = "push"
        BY <1>2 DEF PushFile
      <3> QED BY <2>1, <2>5, <3>1 DEF Awaited
    <2>9. \A w \in Workers : \A i \in 1..Len(Assigned[w]) : Assigned[w][i] \in Files
      BY AssignedAssumption
    <2> QED BY <2>5, <2>6, <2>7, <2>8, <2>9 DEF FilesAccounted
  <1>3. CASE CloseFileQueue
    <2>1. FileQueue(cur) \notin closed
      BY <1>3 DEF CloseFileQueue, CloseOrder, TypeOK, Workers
    <2>2. nextFile > Len(Assigned[cur]) /\ mainPc = "push"
      BY <1>3, <2>1 DEF CloseFileQueue, Refused
    <2>3. \A w, f : InHands(w, f)' = InHands(w, f)
      BY <1>3 DEF CloseFileQueue, InHands
    <2>4. \A w \in Workers : \A i \in 1..Len(Assigned[w]) : Awaited(w, i) => Awaited(w, i)'
      <3> SUFFICES ASSUME NEW w \in Workers, NEW i \in 1..Len(Assigned[w]), Awaited(w, i)
                   PROVE  Awaited(w, i)'
        OBVIOUS
      <3>1. cur \in Workers /\ nextFile \in Nat /\ Len(Assigned[cur]) \in Nat
        BY AssignedAssumption DEF TypeOK
      <3>2. w > cur
        BY <2>2, <3>1 DEF Awaited
      <3>3. cur' = cur + 1 /\ mainPc' = "start"
        BY <1>3, <3>1, <3>2, WorkersAssumption DEF CloseFileQueue, Workers
      <3> QED BY <3>1, <3>2, <3>3 DEF Awaited, Workers
    <2> QED BY <2>3, <2>4 DEF FilesAccounted
  <1>4. CASE Join
    <2>1. \A w, f : InHands(w, f)' = InHands(w, f)
      BY <1>4 DEF Join, InHands
    <2>2. \A w, i : Awaited(w, i) => Awaited(w, i)'
      BY <1>4 DEF Join, Awaited
    <2> QED BY <2>1, <2>2 DEF FilesAccounted
  <1> QED BY <1>1, <1>2, <1>3, <1>4 DEF Main

(* A reader drops no file that it does not record. *)
LEMMA FilesReader ==
    ASSUME TypeOK, HandsOK, CloseOrder, FilesAccounted, ~error, NEW w \in Workers,
           Reader(w)
    PROVE  FilesAccounted'
  <1> USE DEF queueVars, mainVars, readerVars, chunkerVars, compVars, storeVars, stateVars
  <1>1. UNCHANGED <<mainVars, chunker, chunkerFile, complete>>
    BY DEF Reader, ReaderPop, ReaderLeave, ReadUnreadable, ReadFile
  <1>2. CASE ReaderPop(w)
    <2>1. Elems(fileQ[w]) = Elems(Tail(fileQ[w])) \union {Head(fileQ[w])}
      BY <1>2, TailElems DEF ReaderPop, TypeOK
    <2>2. /\ fileQ' = [fileQ EXCEPT ![w] = Tail(fileQ[w])]
          /\ reader[w] = "pop" /\ reader' = [reader EXCEPT ![w] = "read"]
          /\ readerFile' = [readerFile EXCEPT ![w] = Head(fileQ[w])]
          /\ UNCHANGED <<readQ, issues>>
      BY <1>2 DEF ReaderPop
    <2>3. \A v \in Workers, f \in Files : InHands(v, f) => InHands(v, f)'
      BY <1>1, <2>1, <2>2 DEF InHands, TypeOK
    <2> QED BY <1>1, <2>3, FilesKept
  <1>3. CASE ReaderLeave(w)
    <2>1. reader[w] = "pop"
      BY <1>3 DEF ReaderLeave, Refused, CloseOrder
    <2>2. reader' = [reader EXCEPT ![w] = "done"] /\ readerFile' = [readerFile EXCEPT ![w] = None]
          /\ UNCHANGED <<fileQ, readQ, issues>>
      BY <1>3 DEF ReaderLeave, ReaderExit
    <2>3. \A v \in Workers, f \in Files : InHands(v, f) => InHands(v, f)'
      BY <1>1, <2>1, <2>2 DEF InHands, TypeOK
    <2> QED BY <1>1, <2>3, FilesKept
  <1>4. CASE ReadUnreadable(w)
    <2>1. \A v \in Workers, f \in Files : InHands(v, f) => InHands(v, f)'
      BY <1>1, <1>4 DEF ReadUnreadable, InHands, TypeOK
    <2> QED BY <1>1, <2>1, FilesKept
  <1>5. CASE ReadFile(w)
    <2>1. /\ readQ' = [readQ EXCEPT ![w] = Append(readQ[w], readerFile[w])]
          /\ reader' = [reader EXCEPT ![w] = "pop"]
          /\ readerFile' = [readerFile EXCEPT ![w] = None]
          /\ UNCHANGED <<fileQ, issues>> /\ reader[w] = "read"
      BY <1>5 DEF ReadFile
    <2>2. Elems(readQ'[w]) = Elems(readQ[w]) \union {readerFile[w]}
      <3>1. readerFile[w] \in Files /\ readQ[w] \in Seq(Files)
        BY <2>1 DEF HandsOK, TypeOK
      <3>2. readQ'[w] = Append(readQ[w], readerFile[w])
        BY <2>1 DEF TypeOK
      <3> QED BY <3>1, <3>2, AppendElems
    <2>3. \A v \in Workers, f \in Files : InHands(v, f) => InHands(v, f)'
      BY <1>1, <2>1, <2>2 DEF InHands, TypeOK
    <2> QED BY <1>1, <2>3, FilesKept
  <1> QED BY <1>2, <1>3, <1>4, <1>5 DEF Reader

(* A chunker drops no file. *)
LEMMA FilesChunker ==
    ASSUME TypeOK, HandsOK, CloseOrder, FilesAccounted, ~error, ~error',
           NEW w \in Workers, Chunker(w)
    PROVE  FilesAccounted'
  <1> USE DEF queueVars, mainVars, readerVars, chunkerVars, compVars, storeVars, stateVars
  <1>1. UNCHANGED <<mainVars, fileQ, reader, readerFile, issues>>
    BY DEF Chunker, ChunkerPop, ChunkerLeave, CutBatch, PushChunk, ChunkedAll, ChunkError,
           ChunkerCloseAll, CompleteChunking, TryFinalizeFile
  <1>2. CASE ChunkerPop(w)
    <2>1. Elems(readQ[w]) = Elems(Tail(readQ[w])) \union {Head(readQ[w])}
      BY <1>2, TailElems DEF ChunkerPop, TypeOK
    <2>2. /\ readQ' = [readQ EXCEPT ![w] = Tail(readQ[w])]
          /\ chunker[w] = "pop" /\ chunker' = [chunker EXCEPT ![w] = "chunk"]
          /\ chunkerFile' = [chunkerFile EXCEPT ![w] = Head(readQ[w])]
          /\ UNCHANGED complete
      BY <1>2 DEF ChunkerPop
    <2>3. \A v \in Workers, f \in Files : InHands(v, f) => InHands(v, f)'
      BY <1>1, <2>1, <2>2 DEF InHands, TypeOK
    <2> QED BY <1>1, <2>3, FilesKept
  <1>3. CASE ChunkerLeave(w) \/ TryFinalizeFile(w)
    <2>1. /\ chunker[w] \in {"pop", "finalize"} /\ UNCHANGED <<readQ, complete>>
          /\ \A v \in Workers : v # w => chunker'[v] = chunker[v] /\ chunkerFile'[v] = chunkerFile[v]
      BY <1>3 DEF ChunkerLeave, TryFinalizeFile, ChunkerExit, ChunkerNext, TypeOK
    <2>2. \A v \in Workers, f \in Files : InHands(v, f) => InHands(v, f)'
      BY <1>1, <2>1 DEF InHands
    <2> QED BY <1>1, <2>2, FilesKept
  <1>4. CASE CutBatch(w) \/ PushChunk(w)
    <2>1. \A v \in Workers, f \in Files : InHands(v, f) => InHands(v, f)'
      BY <1>1, <1>4 DEF CutBatch, PushChunk, InHands
    <2> QED BY <1>1, <2>1, FilesKept
  <1>5. CASE ChunkedAll(w)
    <2>1. \A v \in Workers, f \in Files : InHands(v, f) => InHands(v, f)'
      BY <1>1, <1>5 DEF ChunkedAll, InHands, TypeOK
    <2> QED BY <1>1, <2>1, FilesKept
  <1>6. CASE CompleteChunking(w)
    <2>1. \A v \in Workers, f \in Files : InHands(v, f) => InHands(v, f)'
      BY <1>1, <1>6 DEF CompleteChunking, InHands, TypeOK
    <2> QED BY <1>1, <2>1, FilesKept
  <1>7. ~ChunkError(w) /\ ~ChunkerCloseAll(w)
    BY DEF ChunkError, ChunkerCloseAll, CloseOrder
  <1> QED BY <1>2, <1>3, <1>4, <1>5, <1>6, <1>7 DEF Chunker

(* Without an error no file is lost on its way to its chunker.             *)
LEMMA FilesStep ==
    ASSUME TypeOK, HandsOK, Unstarted, CloseOrder, FilesAccounted, ~error, ~error', [Next]_vars
    PROVE  FilesAccounted'
  <1> USE DEF queueVars, mainVars, readerVars, chunkerVars, compVars, storeVars, stateVars
  <1>1. ASSUME UNCHANGED <<mainVars, fileQ, readQ, reader, readerFile, chunker, chunkerFile,
                           issues, complete>>
        PROVE  FilesAccounted'
    BY <1>1, FilesKept DEF InHands
  <1>2. ASSUME NEW k \in Compressors, Compressor(k)
        PROVE  FilesAccounted'
    BY <1>1, <1>2 DEF Compressor, CompressorPop, CompressorLeave, EncodeChunk, EncodeError,
                      CompressorCloseAll
  <1>3. ASSUME NEW s \in Storers, Storer(s)
        PROVE  FilesAccounted'
    BY <1>1, <1>3 DEF Storer, StorerPop, StorerLeave, StoreChunk, StoreError, StorerCloseAll
  <1>4. CASE UNCHANGED vars
    BY <1>1, <1>4 DEF vars
  <1> QED BY <1>2, <1>3, <1>4, FilesMain, FilesReader, FilesChunker DEF Next

(* TasksAccounted survives a step that drops no chunk. *)
LEMMA TasksKept ==
    ASSUME TasksAccounted, UNCHANGED pushed, finalized \subseteq finalized',
           \A f \in Files : f \notin finalized' =>
               \A i \in 1..pushed[f] : TaskSomewhere(f, i) => TaskSomewhere(f, i)'
    PROVE  TasksAccounted'
  BY DEF TasksAccounted

(* A chunker drops no chunk. *)
LEMMA SomewhereChunker ==
    ASSUME TypeOK, HandsOK, TasksAccounted, NEW w \in Workers, Chunker(w)
    PROVE  TasksAccounted'
  <1> USE DEF queueVars, mainVars, readerVars, chunkerVars, compVars, storeVars, stateVars
  <1>1. UNCHANGED <<encodedQ, compressor, compTask, storer, storeTask, hashes>>
        /\ finalized \subseteq finalized'
    BY DEF Chunker, ChunkerPop, ChunkerLeave, CutBatch, PushChunk, ChunkedAll, ChunkError,
           ChunkerCloseAll, CompleteChunking, TryFinalizeFile
  <1>2. CASE PushChunk(w)
    <2> DEFINE g == chunkerFile[w]
    <2>1. /\ g \in Files /\ pushed' = [pushed EXCEPT ![g] = pushed[g] + 1] /\ finalized' = finalized
          /\ chunkQ' = Append(chunkQ, TaskOf(g, pushed[g] + 1))
      BY <1>2 DEF PushChunk, HandsOK
    <2>2. pushed[g] \in Nat /\ chunkQ \in Seq(Task)
      BY <2>1 DEF TypeOK
    <2>3. TaskOf(g, pushed[g] + 1) \in Task
      BY <2>1, <2>2 DEF TaskOf, Task
    <2>4. Elems(chunkQ') = Elems(chunkQ) \union {TaskOf(g, pushed[g] + 1)}
      BY <2>1, <2>2, <2>3, AppendElems
    <2>5. \A f, i : TaskSomewhere(f, i) => TaskSomewhere(f, i)'
      BY <1>1, <2>4 DEF TaskSomewhere, Encoding, Storing
    <2>6. \A f \in Files, i \in Nat : f = g /\ i = pushed[g] + 1 => TaskSomewhere(f, i)'
      BY <1>1, <2>4 DEF TaskSomewhere
    <2>7. \A f \in Files : \A i \in 1..pushed'[f] :
             i \in 1..pushed[f] \/ (f = g /\ i = pushed[g] + 1 /\ i \in Nat)
      BY <2>1, <2>2 DEF TypeOK
    <2> QED BY <2>1, <2>5, <2>6, <2>7 DEF TasksAccounted
  <1>3. CASE ~PushChunk(w)
    <2>1. UNCHANGED <<chunkQ, pushed>>
      BY <1>3 DEF Chunker, ChunkerPop, ChunkerLeave, CutBatch, ChunkedAll, ChunkError,
                  ChunkerCloseAll, CompleteChunking, TryFinalizeFile
    <2>2. \A f, i : TaskSomewhere(f, i) => TaskSomewhere(f, i)'
      BY <1>1, <2>1 DEF TaskSomewhere, Encoding, Storing
    <2> QED BY <1>1, <2>1, <2>2, TasksKept
  <1> QED BY <1>2, <1>3

(* A compressor drops no chunk without an error. *)
LEMMA SomewhereCompressor ==
    ASSUME TypeOK, HandsOK, TasksAccounted, CloseOrder, ~error, ~error',
           NEW k \in Compressors, Compressor(k)
    PROVE  TasksAccounted'
  <1> USE DEF queueVars, mainVars, readerVars, chunkerVars, compVars, storeVars, stateVars
  <1>1. UNCHANGED <<storer, storeTask, hashes, pushed, finalized>>
    BY DEF Compressor, CompressorPop, CompressorLeave, EncodeChunk, EncodeError,
           CompressorCloseAll
  <1>2. CASE CompressorPop(k)
    <2>1. /\ chunkQ' = Tail(chunkQ) /\ UNCHANGED encodedQ /\ compressor[k] = "pop"
          /\ compressor' = [compressor EXCEPT ![k] = "encode"]
          /\ compTask' = [compTask EXCEPT ![k] = Head(chunkQ)]
      BY <1>2 DEF CompressorPop
    <2>2. Elems(chunkQ) = Elems(chunkQ') \union {Head(chunkQ)}
      BY <1>2, <2>1, TailElems DEF CompressorPop, TypeOK
    <2>3. compressor'[k] = "encode" /\ compTask'[k] = Head(chunkQ)
      BY <2>1 DEF TypeOK
    <2>4. \A j \in Compressors : j # k => compressor'[j] = compressor[j] /\ compTask'[j] = compTask[j]
      BY <2>1 DEF TypeOK
    <2>5. \A f, i : TaskSomewhere(f, i) => TaskSomewhere(f, i)'
      BY <1>1, <2>1, <2>2, <2>3, <2>4 DEF TaskSomewhere, Encoding, Storing
    <2> QED BY <1>1, <2>5, TasksKept
  <1>3. CASE CompressorLeave(k)
    <2>1. compressor[k] = "pop" /\ UNCHANGED <<chunkQ, encodedQ>>
      BY <1>3 DEF CompressorLeave
    <2>2. \A j \in Compressors : j # k => compressor'[j] = compressor[j] /\ compTask'[j] = compTask[j]
      BY <1>3 DEF CompressorLeave, CompressorExit, TypeOK
    <2>3. \A f, i : TaskSomewhere(f, i) => TaskSomewhere(f, i)'
      BY <1>1, <2>1, <2>2 DEF TaskSomewhere, Encoding, Storing
    <2> QED BY <1>1, <2>3, TasksKept
  <1>4. CASE EncodeChunk(k)
    <2>1. /\ encodedQ' = Append(encodedQ, compTask[k]) /\ UNCHANGED chunkQ
          /\ compTask[k] \in Task /\ encodedQ \in Seq(Task)
      BY <1>4 DEF EncodeChunk, HandsOK, Encoding, TypeOK
    <2>2. Elems(encodedQ') = Elems(encodedQ) \union {compTask[k]}
      BY <2>1, AppendElems
    <2>3. \A j \in Compressors : j # k => compressor'[j] = compressor[j] /\ compTask'[j] = compTask[j]
      BY <1>4 DEF EncodeChunk, TypeOK
    <2>4. \A f, i : TaskSomewhere(f, i) => TaskSomewhere(f, i)'
      BY <1>1, <2>1, <2>2, <2>3 DEF TaskSomewhere, Encoding, Storing
    <2> QED BY <1>1, <2>4, TasksKept
  <1>5. ~EncodeError(k) /\ ~CompressorCloseAll(k)
    BY DEF EncodeError, CompressorCloseAll, CloseOrder
  <1> QED BY <1>2, <1>3, <1>4, <1>5 DEF Compressor

(* A store worker drops no chunk without an error. *)
LEMMA SomewhereStorer ==
    ASSUME TypeOK, HandsOK, TasksAccounted, CloseOrder, ~error, ~error',
           NEW s \in Storers, Storer(s)
    PROVE  TasksAccounted'
  <1> USE DEF queueVars, mainVars, readerVars, chunkerVars, compVars, storeVars, stateVars
  <1>1. UNCHANGED <<compressor, compTask, pushed, chunkQ>> /\ finalized \subseteq finalized'
    BY DEF Storer, StorerPop, StorerLeave, StoreChunk, StoreError, StorerCloseAll
  <1>2. CASE StorerPop(s)
    <2>1. /\ encodedQ' = Tail(encodedQ) /\ UNCHANGED hashes /\ storer[s] = "pop"
          /\ storer' = [storer EXCEPT ![s] = "store"]
          /\ storeTask' = [storeTask EXCEPT ![s] = Head(encodedQ)]
      BY <1>2 DEF StorerPop
    <2>2. Elems(encodedQ) = Elems(encodedQ') \union {Head(encodedQ)}
      BY <1>2, <2>1, TailElems DEF StorerPop, TypeOK
    <2>3. storer'[s] = "store" /\ storeTask'[s] = Head(encodedQ)
      BY <2>1 DEF TypeOK
    <2>4. \A r \in Storers : r # s => storer'[r] = storer[r] /\ storeTask'[r] = storeTask[r]
      BY <2>1 DEF TypeOK
    <2>5. \A f, i : TaskSomewhere(f, i) => TaskSomewhere(f, i)'
      BY <1>1, <2>1, <2>2, <2>3, <2>4 DEF TaskSomewhere, Encoding, Storing
    <2> QED BY <1>1, <2>5, TasksKept
  <1>3. CASE StorerLeave(s)
    <2>1. storer[s] = "pop" /\ UNCHANGED <<encodedQ, hashes>>
      BY <1>3 DEF StorerLeave
    <2>2. \A r \in Storers : r # s => storer'[r] = storer[r] /\ storeTask'[r] = storeTask[r]
      BY <1>3 DEF StorerLeave, StorerExit, TypeOK
    <2>3. \A f, i : TaskSomewhere(f, i) => TaskSomewhere(f, i)'
      BY <1>1, <2>1, <2>2 DEF TaskSomewhere, Encoding, Storing
    <2> QED BY <1>1, <2>3, TasksKept
  <1>4. CASE StoreChunk(s)
    <2> DEFINE t == storeTask[s]
    <2>1. /\ UNCHANGED encodedQ /\ t.file \in Files
          /\ t.file \notin finalized =>
                hashes' = [hashes EXCEPT ![t.file] = hashes[t.file] \union {t.chunk}]
          /\ t.file \in finalized => hashes' = hashes
      BY <1>4 DEF StoreChunk, HandsOK, Storing, Task
    <2>2. \A r \in Storers : r # s => storer'[r] = storer[r] /\ storeTask'[r] = storeTask[r]
      BY <1>4 DEF StoreChunk, TypeOK
    <2>3. \A f \in Files : hashes[f] \subseteq hashes'[f]
      <3>1. CASE t.file \in finalized
        BY <2>1, <3>1
      <3>2. CASE t.file \notin finalized
        <4>1. hashes \in [Files -> SUBSET Nat]
          BY DEF TypeOK
        <4> QED BY <2>1, <3>2, <4>1
      <3> QED BY <3>1, <3>2
    <2>4. \A f \in Files, i \in Nat : t = TaskOf(f, i) /\ f \notin finalized => i \in hashes'[f]
      BY <2>1 DEF TaskOf, TypeOK
    <2>5. \A f \in Files : pushed[f] \in Nat
      BY DEF TypeOK
    <2>6. \A f \in Files : f \notin finalized' =>
             \A i \in 1..pushed[f] : TaskSomewhere(f, i) => TaskSomewhere(f, i)'
      <3> SUFFICES ASSUME NEW f \in Files, f \notin finalized', NEW i \in 1..pushed[f],
                          TaskSomewhere(f, i)
                   PROVE  TaskSomewhere(f, i)'
        OBVIOUS
      <3>1. i \in Nat /\ f \notin finalized
        BY <1>1, <2>5
      <3> QED BY <1>1, <2>1, <2>2, <2>3, <2>4, <3>1 DEF TaskSomewhere, Encoding, Storing
    <2> QED BY <1>1, <2>6, TasksKept
  <1>5. ~StoreError(s) /\ ~StorerCloseAll(s)
    BY DEF StoreError, StorerCloseAll, CloseOrder
  <1> QED BY <1>2, <1>3, <1>4, <1>5 DEF Storer

(* Without an error no chunk is lost on its way to the store.              *)
LEMMA SomewhereStep ==
    ASSUME TypeOK, HandsOK, CloseOrder, TasksAccounted, ~error, ~error', [Next]_vars
    PROVE  TasksAccounted'
  <1> USE DEF queueVars, mainVars, readerVars, chunkerVars, compVars, storeVars, stateVars
  <1>1. ASSUME UNCHANGED <<chunkQ, encodedQ, compressor, compTask, storer, storeTask, hashes,
                           pushed, finalized>>
        PROVE  TasksAccounted'
    BY <1>1, TasksKept DEF TaskSomewhere, Encoding, Storing
  <1>2. CASE Main \/ UNCHANGED vars
    BY <1>1, <1>2 DEF Main, StartWorker, PushFile, CloseFileQueue, Join, vars
  <1>3. ASSUME NEW w \in Workers, Reader(w)
        PROVE  TasksAccounted'
    BY <1>1, <1>3 DEF Reader, ReaderPop, ReaderLeave, ReadUnreadable, ReadFile
  <1> QED BY <1>2, <1>3, SomewhereChunker, SomewhereCompressor, SomewhereStorer DEF Next

(* When all threads have left without an error, every file is in the       *)
(* manifest or recorded.                                                   *)
LEMMA JoinedAll ==
    ASSUME TypeOK, Unstarted, CloseOrder, CountsOK, DoneCounts, FinalizeDue, FilesAccounted,
           TasksAccounted, PushedAll, ~error, Join
    PROVE  Files = finalized \union issues
  <1>1. /\ \A w \in Workers : /\ reader[w] = "done" /\ chunker[w] = "done"
                              /\ fileQ[w] = <<>> /\ readQ[w] = <<>>
        /\ \A k \in Compressors : ~Encoding(k)
        /\ \A s \in Storers : ~Storing(s)
        /\ chunkQ = <<>> /\ encodedQ = <<>>
    BY ThreadsAssumption DEF Join, ThreadsDone, CloseOrder, Encoding, Storing
  <1>2. ASSUME NEW f \in Files, f \notin issues
        PROVE  f \in complete
    <2>1. PICK w \in Workers : \E i \in 1..Len(Assigned[w]) : Assigned[w][i] = f
      BY AssignedAssumption
    <2>2. PICK i \in 1..Len(Assigned[w]) : Assigned[w][i] = f
      BY <2>1
    <2>3. ~(w > cur)
      BY <1>1 DEF Unstarted
    <2>4. ~Awaited(w, i)
      BY <2>3 DEF Awaited, Join
    <2>5. InHands(w, f)
      BY <2>2, <2>4 DEF FilesAccounted
    <2> QED BY <1>1, <1>2, <2>5, EmptyElems DEF InHands
  <1>3. ASSUME NEW f \in complete, f \notin finalized
        PROVE  FALSE
    <2>1. f \in Files /\ pushed[f] \in Nat /\ pushed[f] = total[f]
      BY DEF TypeOK, PushedAll
    <2>2. done[f] < total[f]
      BY <1>1, <1>3 DEF FinalizeDue
    <2>3. \A i \in 1..pushed[f] : TaskSomewhere(f, i)
      BY <1>3, <2>1 DEF TasksAccounted
    <2>4. \A i \in 1..pushed[f] : i \in hashes[f]
      BY <1>1, <2>3, EmptyElems DEF TaskSomewhere
    <2>5. hashes[f] = 1..pushed[f]
      BY <2>1, <2>4 DEF DoneCounts
    <2>6. Cardinality(1..pushed[f]) = pushed[f]
      BY <2>1, FS_Interval
    <2>7. done[f] = pushed[f]
      BY <2>1, <2>5, <2>6 DEF DoneCounts
    <2> QED BY <2>1, <2>2, <2>7
  <1>4. finalized \subseteq Files /\ issues \subseteq Files
    BY DEF TypeOK
  <1> QED BY <1>2, <1>3, <1>4

(* Without an error every file and every chunk is accounted for. *)
LEMMA AccountedStep ==
    ASSUME IInv, [Next]_vars
    PROVE  error' \/ (FilesAccounted' /\ TasksAccounted' /\ PushedAll')
  BY ErrorStays, FilesStep, SomewhereStep, PushedStep DEF IInv

(* When all threads have left without an error, nothing is on its way. *)
LEMMA LeftOutStep ==
    ASSUME IInv, [Next]_vars
    PROVE  NothingLeftOut' /\ (result' # "running" => mainPc' = "returned")
  <1> USE DEF queueVars, mainVars, readerVars, chunkerVars, compVars, storeVars, stateVars
  <1>1. ASSUME UNCHANGED result, finalized \subseteq finalized', issues \subseteq issues'
        PROVE  NothingLeftOut'
    <2>1. TypeOK'
      BY TypeStep DEF IInv
    <2>2. finalized' \subseteq Files /\ issues' \subseteq Files
      BY <2>1 DEF TypeOK
    <2> QED BY <1>1, <2>2 DEF IInv, NothingLeftOut
  <1>2. CASE Join
    <2>1. /\ mainPc' = "returned" /\ UNCHANGED <<finalized, issues>>
          /\ result' = IF error THEN "error" ELSE "ok"
      BY <1>2 DEF Join
    <2>2. ~error => Files = finalized \union issues
      BY <1>2, JoinedAll DEF IInv
    <2> QED BY <2>1, <2>2 DEF NothingLeftOut
  <1>3. CASE StartWorker \/ PushFile \/ CloseFileQueue
    BY <1>1, <1>3 DEF StartWorker, PushFile, CloseFileQueue, IInv
  <1>4. CASE UNCHANGED vars
    BY <1>1, <1>4 DEF vars, IInv
  <1>5. ASSUME UNCHANGED <<mainPc, result>>, finalized \subseteq finalized', issues \subseteq issues'
        PROVE  NothingLeftOut' /\ (result' # "running" => mainPc' = "returned")
    BY <1>1, <1>5 DEF IInv
  <1>6. ASSUME NEW w \in Workers, Reader(w)
        PROVE  NothingLeftOut' /\ (result' # "running" => mainPc' = "returned")
    BY <1>5, <1>6 DEF Reader, ReaderPop, ReaderLeave, ReadUnreadable, ReadFile
  <1>7. ASSUME NEW w \in Workers, Chunker(w)
        PROVE  NothingLeftOut' /\ (result' # "running" => mainPc' = "returned")
    BY <1>5, <1>7 DEF Chunker, ChunkerPop, ChunkerLeave, CutBatch, PushChunk, ChunkedAll,
                      ChunkError, ChunkerCloseAll, CompleteChunking, TryFinalizeFile
  <1>8. ASSUME NEW k \in Compressors, Compressor(k)
        PROVE  NothingLeftOut' /\ (result' # "running" => mainPc' = "returned")
    BY <1>5, <1>8 DEF Compressor, CompressorPop, CompressorLeave, EncodeChunk, EncodeError,
                      CompressorCloseAll
  <1>9. ASSUME NEW s \in Storers, Storer(s)
        PROVE  NothingLeftOut' /\ (result' # "running" => mainPc' = "returned")
    BY <1>5, <1>9 DEF Storer, StorerPop, StorerLeave, StoreChunk, StoreError, StorerCloseAll
  <1> QED BY <1>2, <1>3, <1>4, <1>6, <1>7, <1>8, <1>9 DEF Next, Main

(* IInv holds before any thread has started. *)
LEMMA IInvInit == Init => IInv
  <1> SUFFICES ASSUME Init PROVE IInv
    OBVIOUS
  <1>1. FilesAccounted
    <2>1. \A w \in Workers, i \in Nat : Awaited(w, i)
      BY DEF Init, Awaited, Workers
    <2>2. \A w \in Workers : Len(Assigned[w]) \in Nat
      BY AssignedAssumption
    <2> QED BY <2>1, <2>2 DEF FilesAccounted
  <1>2. TasksAccounted
    BY DEF Init, TasksAccounted
  <1>3. Unstarted /\ CloseOrder
    BY DEF Init, Unstarted, CloseOrder
  <1>4. HandsOK
    BY DEF Init, HandsOK, Encoding, Storing
  <1>5. FinalizeDue /\ PushedAll
    BY DEF Init, FinalizeDue, PushedAll
  <1>6. NothingLeftOut /\ result = "running"
    BY DEF Init, NothingLeftOut
  <1> QED BY <1>1, <1>2, <1>3, <1>4, <1>5, <1>6, TypeInit, TasksInit DEF IInv

(* IInv is kept by every step. *)
LEMMA IInvStep == IInv /\ [Next]_vars => IInv'
  <1> SUFFICES ASSUME IInv, [Next]_vars PROVE IInv'
    OBVIOUS
  <1>1. TypeOK' /\ HandsOK' /\ Unstarted' /\ CloseOrder'
    BY TypeStep, UnstartedStep, CloseStep DEF IInv
  <1>2. CountsOK' /\ TasksOnce' /\ DoneCounts' /\ EntriesWhole' /\ FinalizeDue'
    BY CountsStep, TasksStep, EntriesStep, DueStep DEF IInv
  <1> QED BY <1>1, <1>2, AccountedStep, LeftOutStep DEF IInv

(* A pipeline that reports success has put every file into the manifest    *)
(* that it has not recorded as unreadable, for any schedule of files, any  *)
(* number of threads and any queue depth.                                  *)
THEOREM NoFileLeftOut == Spec => []NothingLeftOut
  <1>1. IInv => NothingLeftOut
    BY DEF IInv
  <1> QED BY <1>1, IInvInit, IInvStep, PTL DEF Spec
=============================================================================
