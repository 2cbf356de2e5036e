----------------------- MODULE PipelineDeadlockProofs -----------------------
(***************************************************************************)
(* The threads of Pipeline never all wait for each other, but for main at  *)
(* a file queue whose reader has left.  The argument follows a waiting     *)
(* thread to the one that it waits for: a queue that is open has a         *)
(* producer and a consumer that are still there, from the store workers up *)
(* to main, unless an error is being told to everybody at this moment.     *)
(***************************************************************************)
EXTENDS PipelineProofs

(* Main has come to these workers.                                         *)
Started(w) == w < cur \/ (w = cur /\ mainPc # "start")

StartedRun ==
    \A w \in Workers : IF Started(w)
                       THEN reader[w] # "idle" /\ chunker[w] # "idle"
                       ELSE fileQ[w] = <<>>

(* Main does not leave a worker behind with an open file queue.            *)
MovedOn ==
    /\ \A w \in Workers : w < cur \/ mainPc \in {"join", "returned"}
                             => FileQueue(w) \in closed
    /\ mainPc \in {"join", "returned"} => cur = NumWorkers

(* The threads at a queue that is open are not all gone.                   *)
LeaversClose ==
    /\ \A w \in Workers : ReadQueue(w) \notin closed
                             => reader[w] # "done" /\ chunker[w] # "done"
    /\ ChunkQueue \notin closed => \E w \in Workers : chunker[w] # "done"
    /\ EncodedQueue \notin closed => \E k \in Compressors : compressor[k] # "done"

(* Whoever set the error closes the queues.                                *)
Closing ==
    \/ \E w \in Workers : chunker[w] = "closing"
    \/ \E k \in Compressors : compressor[k] = "closing"
    \/ \E s \in Storers : storer[s] = "closing"

ErrorCloses == error => {ChunkQueue, EncodedQueue} \subseteq closed \/ Closing

(* A reader leaves an open queue with a file that it took from it.         *)
TookOne ==
    mainPc = "push" =>
        /\ Len(fileQ[cur]) < nextFile
        /\ reader[cur] = "read" \/ (reader[cur] = "done" /\ FileQueue(cur) \notin closed)
              => Len(fileQ[cur]) + 1 < nextFile

DInv ==
    /\ TypeOK /\ HandsOK /\ Unstarted /\ CloseOrder
    /\ StartedRun /\ MovedOn /\ LeaversClose /\ ErrorCloses /\ TookOne

-----------------------------------------------------------------------------
(* What a step of each kind of thread does to the others.                  *)

(* A reader that leaves closes its read queue. *)
LEMMA ReaderFrame ==
    ASSUME TypeOK, NEW w \in Workers, Reader(w)
    PROVE  /\ UNCHANGED <<mainVars, chunker, compressor, storer, error, result>>
           /\ closed \subseteq closed' /\ reader[w] \in {"pop", "read"}
           /\ reader'[w] # "idle" /\ \A v \in Workers : v # w => reader'[v] = reader[v]
           /\ reader'[w] = "done" => ReadQueue(w) \in closed'
  BY DEF Reader, ReaderPop, ReaderLeave, ReadUnreadable, ReadFile, ReaderExit, TypeOK,
         chunkerVars, compVars, storeVars, mainVars

(* A chunker that leaves closes its read queue, and the last one the chunk *)
(* queue; one that set the error closes all.                               *)
LEMMA ChunkerFrame ==
    ASSUME TypeOK, NEW w \in Workers, reader[w] # "idle", Chunker(w)
    PROVE  /\ UNCHANGED <<mainVars, reader, compressor, storer, fileQ, result>>
           /\ closed \subseteq closed' /\ chunker[w] \notin {"idle", "done"}
           /\ chunker'[w] # "idle" /\ \A v \in Workers : v # w => chunker'[v] = chunker[v]
           /\ chunker'[w] = "done" =>
                 /\ ReadQueue(w) \in closed'
                 /\ ChunkQueue \in closed' \/ \E v \in Workers \ {w} : chunker[v] # "done"
           /\ chunker[w] = "closing" => {ChunkQueue, EncodedQueue} \subseteq closed'
           /\ error' => error \/ chunker'[w] = "closing"
  <1> USE DEF queueVars, mainVars, readerVars, chunkerVars, compVars, storeVars, stateVars
  <1>1. ASSUME ChunkerExit(w)
        PROVE  /\ closed \subseteq closed' /\ ReadQueue(w) \in closed' /\ chunker'[w] = "done"
               /\ ChunkQueue \in closed' \/ \E v \in Workers \ {w} : chunker[v] # "done"
               /\ \A v \in Workers : v # w => chunker'[v] = chunker[v]
    BY <1>1 DEF ChunkerExit, TypeOK
  <1>2. CASE ChunkerPop(w)
    BY <1>1, <1>2 DEF ChunkerPop, TypeOK
  <1>3. CASE ChunkerLeave(w)
    BY <1>1, <1>3 DEF ChunkerLeave
  <1>4. CASE CutBatch(w) \/ PushChunk(w)
    BY <1>4 DEF CutBatch, PushChunk
  <1>5. CASE ChunkedAll(w) \/ CompleteChunking(w)
    BY <1>5 DEF ChunkedAll, CompleteChunking, TypeOK
  <1>6. CASE ChunkError(w)
    BY <1>1, <1>6 DEF ChunkError, TypeOK
  <1>7. CASE ChunkerCloseAll(w)
    BY <1>7 DEF ChunkerCloseAll, Registered, TypeOK
  <1>8. CASE TryFinalizeFile(w)
    BY <1>1, <1>8 DEF TryFinalizeFile, ChunkerNext, TypeOK
  <1> QED BY <1>2, <1>3, <1>4, <1>5, <1>6, <1>7, <1>8 DEF Chunker

(* The last compressor that leaves closes the encoded queue; one that set  *)
(* the error closes all.                                                   *)
LEMMA CompressorFrame ==
    ASSUME TypeOK, NEW k \in Compressors, Compressor(k)
    PROVE  /\ UNCHANGED <<mainVars, reader, chunker, storer, fileQ, result>>
           /\ closed \subseteq closed' /\ compressor[k] # "done"
           /\ \A j \in Compressors : j # k => compressor'[j] = compressor[j]
           /\ compressor'[k] = "done" =>
                 EncodedQueue \in closed' \/ \E j \in Compressors \ {k} : compressor[j] # "done"
           /\ compressor[k] = "closing" => {ChunkQueue, EncodedQueue} \subseteq closed'
           /\ error' => error \/ compressor'[k] = "closing"
  <1> USE DEF queueVars, mainVars, readerVars, chunkerVars, compVars, storeVars, stateVars
  <1>1. ASSUME CompressorExit(k)
        PROVE  /\ closed \subseteq closed' /\ compressor'[k] = "done"
               /\ EncodedQueue \in closed' \/ \E j \in Compressors \ {k} : compressor[j] # "done"
               /\ \A j \in Compressors : j # k => compressor'[j] = compressor[j]
    BY <1>1 DEF CompressorExit, TypeOK
  <1>2. CASE CompressorPop(k)
    BY <1>1, <1>2 DEF CompressorPop, TypeOK
  <1>3. CASE CompressorLeave(k)
    BY <1>1, <1>3 DEF CompressorLeave
  <1>4. CASE EncodeChunk(k)
    BY <1>4 DEF EncodeChunk, TypeOK
  <1>5. CASE EncodeError(k)
    BY <1>5 DEF EncodeError, TypeOK
  <1>6. CASE CompressorCloseAll(k)
    BY <1>6 DEF CompressorCloseAll, Registered, TypeOK
  <1> QED BY <1>2, <1>3, <1>4, <1>5, <1>6 DEF Compressor

(* A store worker closes queues only when it set the error. *)
LEMMA StorerFrame ==
    ASSUME TypeOK, NEW s \in Storers, Storer(s)
    PROVE  /\ UNCHANGED <<mainVars, reader, chunker, compressor, fileQ, result>>
           /\ closed \subseteq closed' /\ storer[s] # "done"
           /\ \A r \in Storers : r # s => storer'[r] = storer[r]
           /\ storer[s] = "closing" => {ChunkQueue, EncodedQueue} \subseteq closed'
           /\ error' => error \/ storer'[s] = "closing"
  <1> USE DEF queueVars, mainVars, readerVars, chunkerVars, compVars, storeVars, stateVars
  <1>1. CASE StorerPop(s)
    BY <1>1 DEF StorerPop, StorerExit, TypeOK
  <1>2. CASE StorerLeave(s)
    BY <1>2 DEF StorerLeave, StorerExit, TypeOK
  <1>3. CASE StoreChunk(s)
    BY <1>3 DEF StoreChunk, StorerExit, TypeOK
  <1>4. CASE StoreError(s)
    BY <1>4 DEF StoreError, TypeOK
  <1>5. CASE StorerCloseAll(s)
    BY <1>5 DEF StorerCloseAll, StorerExit, Registered, TypeOK
  <1> QED BY <1>1, <1>2, <1>3, <1>4, <1>5 DEF Storer

(* Main starts the two threads of one worker, and moves on when it has     *)
(* closed its file queue.                                                  *)
LEMMA MainFrame ==
    ASSUME TypeOK, Main
    PROVE  /\ UNCHANGED <<compressor, storer, error>>
           /\ closed \subseteq closed'
           /\ \A w \in Workers : ~(mainPc = "start" /\ w = cur) =>
                 reader'[w] = reader[w] /\ chunker'[w] = chunker[w]
           /\ mainPc = "start" => reader'[cur] = "pop" /\ chunker'[cur] = "pop"
           /\ StartWorker \/ UNCHANGED <<reader, chunker>>
  BY DEF Main, StartWorker, PushFile, CloseFileQueue, Join, queueVars, mainVars, readerVars,
         chunkerVars, compVars, storeVars, TypeOK

-----------------------------------------------------------------------------
(* The inductive invariant.                                                *)

(* A chunker that runs belongs to a worker main has started. *)
LEMMA StartedReader ==
    ASSUME TypeOK, Unstarted, StartedRun, NEW w \in Workers, Chunker(w)
    PROVE  reader[w] # "idle"
  <1>1. chunker[w] # "idle"
    BY DEF Chunker, ChunkerPop, ChunkerLeave, CutBatch, PushChunk, ChunkedAll, ChunkError,
           ChunkerCloseAll, CompleteChunking, TryFinalizeFile
  <1>2. w \in Int /\ cur \in Int
    BY DEF TypeOK, Workers
  <1> QED BY <1>1, <1>2 DEF Unstarted, StartedRun, Started

(* Only main pushes to a file queue, and only the reader pops. *)
LEMMA FileQueueStep ==
    ASSUME TypeOK, [Next]_vars, ~PushFile, NEW w \in Workers, Unstarted, StartedRun
    PROVE  \/ fileQ'[w] = fileQ[w]
           \/ /\ ReaderPop(w) /\ fileQ[w] # <<>> /\ Len(fileQ'[w]) = Len(fileQ[w]) - 1
              /\ fileQ'[w] = Tail(fileQ[w])
  <1>1. CASE Main \/ UNCHANGED vars
    BY <1>1 DEF Main, StartWorker, CloseFileQueue, Join, vars, queueVars
  <1>2. ASSUME NEW v \in Workers, Reader(v)
        PROVE  \/ fileQ'[w] = fileQ[w]
               \/ /\ ReaderPop(w) /\ fileQ[w] # <<>> /\ Len(fileQ'[w]) = Len(fileQ[w]) - 1
                  /\ fileQ'[w] = Tail(fileQ[w])
    <2>1. CASE ReaderPop(v) /\ v = w
      <3>1. fileQ[w] \in Seq(Files) /\ fileQ[w] # <<>> /\ fileQ'[w] = Tail(fileQ[w])
        BY <2>1 DEF ReaderPop, TypeOK
      <3> QED BY <2>1, <3>1, TailElems
    <2>2. CASE ReaderPop(v) /\ v # w
      BY <2>2 DEF ReaderPop, TypeOK
    <2>3. CASE ~ReaderPop(v)
      BY <1>2, <2>3 DEF Reader, ReaderLeave, ReadUnreadable, ReadFile, queueVars
    <2> QED BY <2>1, <2>2, <2>3
  <1>3. ASSUME NEW v \in Workers, Chunker(v)
        PROVE  fileQ'[w] = fileQ[w]
    BY <1>3, StartedReader, ChunkerFrame
  <1>4. ASSUME NEW k \in Compressors, Compressor(k)
        PROVE  fileQ'[w] = fileQ[w]
    BY <1>4, CompressorFrame
  <1>5. ASSUME NEW s \in Storers, Storer(s)
        PROVE  fileQ'[w] = fileQ[w]
    BY <1>5, StorerFrame
  <1> QED BY <1>1, <1>2, <1>3, <1>4, <1>5 DEF Next

(* Both threads of a worker are started at once, on an empty queue. *)
LEMMA StartedStep ==
    ASSUME TypeOK, Unstarted, StartedRun, [Next]_vars
    PROVE  StartedRun'
  <1>1. cur \in Int /\ Workers \subseteq Int
    BY DEF TypeOK, Workers
  <1>2. CASE Main
    <2>1. CASE StartWorker
      BY <1>1, <2>1 DEF StartWorker, StartedRun, Started, queueVars, TypeOK
    <2>2. CASE PushFile
      <3>1. \A w \in Workers : ~Started(w) => fileQ'[w] = fileQ[w]
        BY <2>2 DEF PushFile, Started, TypeOK
      <3> QED BY <2>2, <3>1 DEF PushFile, StartedRun, Started, readerVars, chunkerVars
    <2>3. CASE CloseFileQueue
      BY <1>1, <2>3 DEF CloseFileQueue, StartedRun, Started, readerVars, chunkerVars, queueVars
    <2>4. CASE Join
      BY <2>4 DEF Join, StartedRun, Started, readerVars, chunkerVars, queueVars
    <2> QED BY <1>2, <2>1, <2>2, <2>3, <2>4 DEF Main
  <1>3. CASE UNCHANGED vars
    BY <1>3 DEF vars, StartedRun, Started, readerVars, chunkerVars, queueVars, mainVars
  <1>4. ASSUME UNCHANGED mainVars, ~PushFile,
               \A w \in Workers : /\ reader[w] # "idle" => reader'[w] # "idle"
                                  /\ chunker[w] # "idle" => chunker'[w] # "idle"
        PROVE  StartedRun'
    <2>1. \A w \in Workers : fileQ[w] = <<>> => fileQ'[w] = <<>>
      BY <1>4, FileQueueStep
    <2> QED BY <1>4, <2>1 DEF StartedRun, Started, mainVars
  <1>5. PushFile => ~UNCHANGED mainVars
    BY DEF PushFile, mainVars, TypeOK
  <1>6. ASSUME NEW w \in Workers, Reader(w)
        PROVE  StartedRun'
    BY <1>4, <1>5, <1>6, ReaderFrame
  <1>7. ASSUME NEW w \in Workers, Chunker(w)
        PROVE  StartedRun'
    BY <1>4, <1>5, <1>7, StartedReader, ChunkerFrame
  <1>8. ASSUME NEW k \in Compressors, Compressor(k)
        PROVE  StartedRun'
    BY <1>4, <1>5, <1>8, CompressorFrame
  <1>9. ASSUME NEW s \in Storers, Storer(s)
        PROVE  StartedRun'
    BY <1>4, <1>5, <1>9, StorerFrame
  <1> QED BY <1>2, <1>3, <1>6, <1>7, <1>8, <1>9 DEF Next

(* A queue that is closed stays so. *)
LEMMA ClosedGrows ==
    ASSUME TypeOK, Unstarted, StartedRun, [Next]_vars
    PROVE  closed \subseteq closed'
  BY MainFrame, ReaderFrame, StartedReader, ChunkerFrame, CompressorFrame, StorerFrame
     DEF Next, vars

(* Main moves on after it has closed the file queue. *)
LEMMA MovedStep ==
    ASSUME TypeOK, Unstarted, StartedRun, MovedOn, [Next]_vars
    PROVE  MovedOn'
  <1>1. cur \in 1..NumWorkers /\ NumWorkers \in Nat /\ Workers = 1..NumWorkers
    BY WorkersAssumption DEF TypeOK, Workers
  <1>2. CASE CloseFileQueue
    BY <1>1, <1>2 DEF CloseFileQueue, MovedOn
  <1>3. CASE StartWorker \/ PushFile \/ Join
    BY <1>3 DEF StartWorker, PushFile, Join, MovedOn
  <1>4. ASSUME UNCHANGED mainVars
        PROVE  MovedOn'
    BY <1>4, ClosedGrows DEF MovedOn, mainVars
  <1>5. CASE UNCHANGED vars
    BY <1>4, <1>5 DEF vars
  <1> QED BY <1>2, <1>3, <1>4, <1>5, ReaderFrame, StartedReader, ChunkerFrame, CompressorFrame,
             StorerFrame DEF Next, Main

(* The last thread that leaves a queue closes it. *)
LEMMA LeaversStep ==
    ASSUME TypeOK, Unstarted, StartedRun, LeaversClose, [Next]_vars
    PROVE  LeaversClose'
  <1>1. closed \subseteq closed'
    BY ClosedGrows
  <1>2. CASE Main
    BY <1>1, <1>2, MainFrame DEF LeaversClose, TypeOK
  <1>3. CASE UNCHANGED vars
    BY <1>3 DEF vars, LeaversClose, readerVars, chunkerVars, compVars
  <1>4. ASSUME NEW w \in Workers, Reader(w)
        PROVE  LeaversClose'
    BY <1>1, <1>4, ReaderFrame DEF LeaversClose
  <1>5. ASSUME NEW w \in Workers, Chunker(w)
        PROVE  LeaversClose'
    BY <1>1, <1>5, StartedReader, ChunkerFrame DEF LeaversClose
  <1>6. ASSUME NEW k \in Compressors, Compressor(k)
        PROVE  LeaversClose'
    BY <1>1, <1>6, CompressorFrame DEF LeaversClose
  <1>7. ASSUME NEW s \in Storers, Storer(s)
        PROVE  LeaversClose'
    BY <1>1, <1>7, StorerFrame DEF LeaversClose
  <1> QED BY <1>2, <1>3, <1>4, <1>5, <1>6, <1>7 DEF Next

(* The thread that sets the error goes on to close the queues. *)
LEMMA ErrorClosesStep ==
    ASSUME TypeOK, Unstarted, StartedRun, ErrorCloses, [Next]_vars
    PROVE  ErrorCloses'
  <1>1. closed \subseteq closed'
    BY ClosedGrows
  <1>2. CASE Main
    <2>1. mainPc = "start" => chunker[cur] = "idle"
      BY DEF Unstarted, TypeOK
    <2> QED BY <1>1, <1>2, <2>1, MainFrame DEF ErrorCloses, Closing
  <1>3. CASE UNCHANGED vars
    BY <1>3 DEF vars, ErrorCloses, Closing, chunkerVars, compVars, storeVars
  <1>4. ASSUME NEW w \in Workers, Reader(w)
        PROVE  ErrorCloses'
    BY <1>1, <1>4, ReaderFrame DEF ErrorCloses, Closing
  <1>5. ASSUME NEW w \in Workers, Chunker(w)
        PROVE  ErrorCloses'
    BY <1>1, <1>5, StartedReader, ChunkerFrame DEF ErrorCloses, Closing
  <1>6. ASSUME NEW k \in Compressors, Compressor(k)
        PROVE  ErrorCloses'
    BY <1>1, <1>6, CompressorFrame DEF ErrorCloses, Closing
  <1>7. ASSUME NEW s \in Storers, Storer(s)
        PROVE  ErrorCloses'
    BY <1>1, <1>7, StorerFrame DEF ErrorCloses, Closing
  <1> QED BY <1>2, <1>3, <1>4, <1>5, <1>6, <1>7 DEF Next

(* A reader leaves an open queue with a file that it took from it. *)
LEMMA TookStep ==
    ASSUME TypeOK, Unstarted, StartedRun, TookOne, [Next]_vars
    PROVE  TookOne'
  <1>1. /\ cur \in Workers /\ nextFile \in Nat
        /\ fileQ[cur] \in Seq(Files) /\ Len(fileQ[cur]) \in Nat
    BY DEF TypeOK
  <1>2. CASE StartWorker
    <2>1. fileQ'[cur] = <<>> /\ cur' = cur /\ nextFile' = 1 /\ reader'[cur] = "pop"
      BY <1>1, <1>2 DEF StartWorker, StartedRun, Started, queueVars, Workers, TypeOK
    <2> QED BY <2>1 DEF TookOne
  <1>3. CASE PushFile
    <2>1. /\ nextFile <= Len(Assigned[cur]) /\ Assigned[cur] \in Seq(Files)
          /\ fileQ'[cur] = Append(fileQ[cur], Assigned[cur][nextFile])
          /\ nextFile' = nextFile + 1 /\ UNCHANGED <<cur, reader, closed, mainPc>>
      BY <1>1, <1>3, AssignedAssumption DEF PushFile, readerVars, TypeOK
    <2>2. Len(fileQ'[cur]) = Len(fileQ[cur]) + 1
      BY <1>1, <2>1
    <2> QED BY <1>1, <1>3, <2>1, <2>2 DEF PushFile, TookOne
  <1>4. CASE CloseFileQueue \/ Join
    BY <1>4 DEF CloseFileQueue, Join, TookOne
  <1>5. ASSUME UNCHANGED <<mainVars, reader>>, closed \subseteq closed', ~PushFile, ~ReaderPop(cur)
        PROVE  TookOne'
    <2>1. fileQ'[cur] = fileQ[cur]
      BY <1>1, <1>5, FileQueueStep
    <2> QED BY <1>5, <2>1 DEF TookOne, mainVars
  <1>6. CASE UNCHANGED vars
    BY <1>6 DEF vars, TookOne, mainVars, readerVars, queueVars
  <1>7. PushFile => ~UNCHANGED mainVars
    BY DEF PushFile, mainVars, TypeOK
  <1>8. ASSUME NEW w \in Workers, Reader(w)
        PROVE  TookOne'
    <2>1. UNCHANGED mainVars /\ closed \subseteq closed'
      BY <1>8, ReaderFrame
    <2>2. CASE w # cur
      <3>1. reader'[cur] = reader[cur]
        BY <1>1, <1>8, <2>2, ReaderFrame
      <3>2. fileQ'[cur] = fileQ[cur]
        BY <1>8, <2>2 DEF Reader, ReaderPop, ReaderLeave, ReadUnreadable, ReadFile, queueVars,
                          TypeOK
      <3> QED BY <2>1, <3>1, <3>2 DEF TookOne, mainVars
    <2>3. CASE w = cur /\ ReaderPop(cur)
      <3>1. fileQ[cur] # <<>> /\ fileQ'[cur] = Tail(fileQ[cur])
        BY <1>1, <2>3 DEF ReaderPop, TypeOK
      <3>2. Len(fileQ'[cur]) = Len(fileQ[cur]) - 1
        BY <1>1, <3>1, TailElems
      <3> QED BY <1>1, <2>1, <3>2 DEF TookOne, mainVars
    <2>4. CASE w = cur /\ ReaderLeave(cur)
      BY <1>1, <2>1, <2>4 DEF ReaderLeave, ReaderExit, Drained, TookOne, mainVars, queueVars,
                              TypeOK
    <2>5. CASE w = cur /\ (ReadUnreadable(cur) \/ ReadFile(cur))
      <3>1. reader'[cur] = "pop" /\ fileQ'[cur] = fileQ[cur]
        BY <1>1, <2>5 DEF ReadUnreadable, ReadFile, queueVars, TypeOK
      <3> QED BY <2>1, <3>1 DEF TookOne, mainVars
    <2> QED BY <1>8, <2>2, <2>3, <2>4, <2>5 DEF Reader
  <1>9. ASSUME NEW w \in Workers, Chunker(w)
        PROVE  TookOne'
    <2>1. UNCHANGED <<mainVars, reader, fileQ>> /\ closed \subseteq closed'
      BY <1>9, StartedReader, ChunkerFrame
    <2> QED BY <2>1 DEF TookOne, mainVars
  <1>10. ASSUME NEW k \in Compressors, Compressor(k)
         PROVE  TookOne'
    <2>1. UNCHANGED <<mainVars, reader, fileQ>> /\ closed \subseteq closed'
      BY <1>10, CompressorFrame
    <2> QED BY <2>1 DEF TookOne, mainVars
  <1>11. ASSUME NEW s \in Storers, Storer(s)
         PROVE  TookOne'
    <2>1. UNCHANGED <<mainVars, reader, fileQ>> /\ closed \subseteq closed'
      BY <1>11, StorerFrame
    <2> QED BY <2>1 DEF TookOne, mainVars
  <1> QED BY <1>2, <1>3, <1>4, <1>6, <1>8, <1>9, <1>10, <1>11 DEF Next, Main

-----------------------------------------------------------------------------
(* Following the threads that wait, from the store workers up to main.     *)

(* A reader waits at its file queue for main, which waits there itself     *)
(* only if the queue is full.                                              *)
LEMMA NoReaderWaitsAtMain ==
    ASSUME DInv, Deadlocked, NEW w \in Workers, reader[w] = "pop"
    PROVE  FALSE
  <1>1. Empty(fileQ[w], FileQueue(w))
    BY DEF Deadlocked, ReaderWaits
  <1>2. ~(w < cur) /\ mainPc \notin {"join", "returned"}
    BY <1>1 DEF Empty, DInv, MovedOn
  <1>3. w = cur /\ mainPc = "push"
    BY <1>2 DEF DInv, Unstarted, TypeOK, Workers
  <1>4. Len(fileQ[cur]) >= QueueDepth
    BY <1>3 DEF Deadlocked, MainWaits, Full
  <1> QED BY <1>1, <1>3, <1>4, DepthAssumption DEF Empty

(* So a chunker at its read queue waits for nobody: its reader has gone    *)
(* only if the queue is closed.                                            *)
LEMMA NoChunkerWaitsAtReader ==
    ASSUME DInv, Deadlocked, NEW w \in Workers, chunker[w] = "pop"
    PROVE  FALSE
  <1>1. Empty(readQ[w], ReadQueue(w))
    BY DEF Deadlocked, ChunkerWaits
  <1>2. reader[w] \in {"idle", "pop", "read", "done"}
    BY DEF DInv, TypeOK
  <1>3. reader[w] # "done"
    BY <1>1 DEF Empty, DInv, LeaversClose
  <1>4. reader[w] # "read"
    BY <1>1, DepthAssumption DEF Empty, Deadlocked, ReaderWaits, Full
  <1>5. reader[w] # "idle"
    BY DEF DInv, Unstarted, StartedRun, Started, TypeOK, Workers
  <1> QED BY <1>2, <1>3, <1>4, <1>5, NoReaderWaitsAtMain

(* When main waits for a reader that is still there, the chunker of that   *)
(* worker waits at a full chunk queue.                                     *)
LEMMA MainWaitsForChunker ==
    ASSUME DInv, Deadlocked, mainPc = "push", ~ReaderGone
    PROVE  chunker[cur] = "chunk" /\ Full(chunkQ, ChunkQueue, StageDepth)
  <1>1. cur \in Workers /\ Full(fileQ[cur], FileQueue(cur), QueueDepth) /\ nextFile <= Len(Assigned[cur])
    BY DEF Deadlocked, MainWaits, DInv, TypeOK
  <1>2. reader[cur] \in {"pop", "read", "done"} /\ chunker[cur] # "idle"
    BY <1>1 DEF DInv, StartedRun, Started, TypeOK
  <1>3. reader[cur] # "pop"
    BY <1>1, NoReaderWaitsAtMain
  <1>4. ASSUME reader[cur] = "done"
        PROVE  FALSE
    <2>1. error
      BY <1>1, <1>4 DEF Full, DInv, CloseOrder
    <2>2. Len(fileQ[cur]) + 1 < nextFile
      BY <1>1, <1>4 DEF Full, DInv, TookOne
    <2>3. nextFile \in Nat /\ fileQ[cur] \in Seq(Files) /\ Assigned[cur] \in Seq(Files)
      BY <1>1, AssignedAssumption DEF DInv, TypeOK
    <2>4. Len(Assigned[cur]) > QueueDepth + 1
      BY <1>1, <2>2, <2>3, DepthAssumption DEF Full
    <2> QED BY <1>4, <2>1, <2>4 DEF ReaderGone
  <1>5. Full(readQ[cur], ReadQueue(cur), QueueDepth)
    BY <1>1, <1>2, <1>3, <1>4 DEF Deadlocked, ReaderWaits
  <1>6. chunker[cur] # "done"
    BY <1>1, <1>5 DEF Full, DInv, LeaversClose
  <1> QED BY <1>1, <1>2, <1>6, NoChunkerWaitsAtReader DEF Deadlocked, ChunkerWaits

(* Nobody is closing the queues while all wait. *)
LEMMA NobodyCloses ==
    ASSUME Deadlocked
    PROVE  ~Closing
  BY DEF Deadlocked, ChunkerWaits, CompressorWaits, StorerWaits, Closing

(* A waiting store worker waits for a compressor, and that one for a       *)
(* chunker.                                                                *)
LEMMA NoStorerWaits ==
    ASSUME DInv, Deadlocked, ~ReaderGone, NEW s \in Storers, storer[s] # "done"
    PROVE  FALSE
  <1>1. Empty(encodedQ, EncodedQueue)
    BY DEF Deadlocked, StorerWaits
  <1>2. PICK k \in Compressors : compressor[k] # "done"
    BY <1>1 DEF Empty, DInv, LeaversClose
  <1>3. compressor[k] # "encode"
    BY <1>1, DepthAssumption DEF Empty, Deadlocked, CompressorWaits, Full
  <1>4. Empty(chunkQ, ChunkQueue)
    BY <1>2, <1>3 DEF Deadlocked, CompressorWaits
  <1>5. ~Full(chunkQ, ChunkQueue, StageDepth)
    BY <1>4, DepthAssumption DEF Empty, Full
  <1>6. PICK w \in Workers : chunker[w] # "done"
    BY <1>4 DEF Empty, DInv, LeaversClose
  <1>7. chunker[w] = "idle"
    BY <1>5, <1>6, NoChunkerWaitsAtReader DEF Deadlocked, ChunkerWaits
  <1>8. mainPc = "push"
    <2>1. ~Started(w)
      BY <1>7 DEF DInv, StartedRun
    <2>2. mainPc # "join"
      BY <2>1, WorkersAssumption DEF DInv, MovedOn, Started, Workers
    <2> QED BY <2>2 DEF Deadlocked, MainWaits
  <1> QED BY <1>5, <1>8, MainWaitsForChunker

(* When all store workers have left, so has everybody else. *)
LEMMA StorersLast ==
    ASSUME DInv, Deadlocked, ~ReaderGone
    PROVE  FALSE
  <1>1. \A s \in Storers : storer[s] = "done"
    BY NoStorerWaits
  <1>2. ChunkQueue \in closed /\ EncodedQueue \in closed
    <2>1. CASE error
      BY <2>1, NobodyCloses DEF DInv, ErrorCloses
    <2>2. CASE ~error
      BY <1>1, <2>2, ThreadsAssumption DEF DInv, CloseOrder
    <2> QED BY <2>1, <2>2
  <1>3. \A k \in Compressors : compressor[k] = "done"
    BY <1>2 DEF Deadlocked, CompressorWaits, Empty, Full
  <1>4. \A w \in Workers : chunker[w] \in {"idle", "done"}
    BY <1>2, NoChunkerWaitsAtReader DEF Deadlocked, ChunkerWaits, Full
  <1>5. mainPc # "push"
    BY <1>2, MainWaitsForChunker DEF Full
  <1>6. mainPc = "join"
    BY <1>5 DEF Deadlocked, MainWaits
  <1>7. \A w \in Workers : reader[w] # "idle" /\ chunker[w] = "done"
    BY <1>4, <1>6, WorkersAssumption DEF DInv, MovedOn, StartedRun, Started, Workers
  <1>8. \A w \in Workers : reader[w] = "done"
    <2> SUFFICES ASSUME NEW w \in Workers PROVE reader[w] = "done"
      OBVIOUS
    <2>1. ReadQueue(w) \in closed
      BY <1>7 DEF DInv, LeaversClose
    <2> QED BY <1>7, <2>1, NoReaderWaitsAtMain DEF Deadlocked, ReaderWaits, Full
  <1> QED BY <1>1, <1>3, <1>6, <1>7, <1>8 DEF Deadlocked, MainWaits, ThreadsDone

(* DInv holds before any thread has started. *)
LEMMA DInvInit == Init => DInv
  <1> SUFFICES ASSUME Init PROVE DInv
    OBVIOUS
  <1>1. HandsOK /\ Unstarted /\ CloseOrder
    BY DEF Init, HandsOK, Encoding, Storing, Unstarted, CloseOrder
  <1>2. StartedRun /\ MovedOn
    BY WorkersAssumption DEF Init, StartedRun, Started, MovedOn, Workers
  <1>3. LeaversClose
    BY WorkersAssumption, ThreadsAssumption DEF Init, LeaversClose, Workers
  <1>4. ErrorCloses /\ TookOne
    BY DEF Init, ErrorCloses, TookOne
  <1> QED BY <1>1, <1>2, <1>3, <1>4, TypeInit DEF DInv

(* DInv is kept by every step. *)
LEMMA DInvStep == DInv /\ [Next]_vars => DInv'
  BY TypeStep, UnstartedStep, CloseStep, StartedStep, MovedStep, LeaversStep,
     ErrorClosesStep, TookStep DEF DInv

(* The threads of a backup never all wait for each other, for any files,   *)
(* threads and queue capacities, with or without an error: the one way     *)
(* RunBackupPipeline can hang is main at the file queue of a worker that   *)
(* it started after the error, and whose reader has left it more files     *)
(* than the queue takes.                                                   *)
THEOREM PipelineDeadlockFree == Spec => []DeadlockOnlyAtReaderGone
  <1>1. DInv => DeadlockOnlyAtReaderGone
    BY StorersLast DEF DeadlockOnlyAtReaderGone
  <1> QED BY <1>1, DInvInit, DInvStep, PTL DEF Spec
=============================================================================
