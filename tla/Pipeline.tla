------------------------------ MODULE Pipeline ------------------------------
(***************************************************************************)
(* RunBackupPipeline: the threads between the scanned files and the chunk  *)
(* store.  The calling thread creates, one file worker after the other, a  *)
(* reader and a chunker and feeds the reader; compressors and store        *)
(* workers are shared by all of them.                                      *)
(*                                                                         *)
(*   main -> fileQ[w] -> reader w -> readQ[w] -> chunker w -> chunkQ       *)
(*        -> compressors -> encodedQ -> store workers -> hashes of the file*)
(*                                                                         *)
(* The first error is kept and closes the queues registered so far; every  *)
(* thread leaves its loop when it sees the error or a queue that is closed *)
(* and empty.  A file enters the manifest ("finalized") from whichever     *)
(* thread finds it cut and all its chunks stored: its chunker or the store *)
(* worker of its last chunk.                                               *)
(*                                                                         *)
(* A chunk is its index in its file; contents, codecs and the question     *)
(* whether the store has the chunk already are left out.  Atomics are      *)
(* sequentially consistent here; PipelineStoreBuffer has what x86 adds.    *)
(***************************************************************************)
EXTENDS Integers, Sequences, FiniteSets

CONSTANTS Files,
          NumWorkers,    \* file workers, numbered in the order main starts them
          Assigned,      \* ScheduleFilesByColor: the files of every worker
          NumChunks,     \* the number of chunks of every file
          Compressors, Storers,
          QueueDepth,    \* capacity of the file and read queues
          StageDepth,    \* capacity of the chunk and encoded queues
          None           \* no file, no task

Workers == 1..NumWorkers

ASSUME WorkersAssumption == NumWorkers \in Nat \ {0}
ASSUME AssignedAssumption ==
    /\ Assigned \in [Workers -> Seq(Files)]
    /\ \A f \in Files : \E w \in Workers : \E i \in 1..Len(Assigned[w]) : Assigned[w][i] = f
    /\ \A v, w \in Workers : \A i \in 1..Len(Assigned[v]) : \A j \in 1..Len(Assigned[w]) :
          Assigned[v][i] = Assigned[w][j] => v = w /\ i = j
ASSUME ChunksAssumption == NumChunks \in [Files -> Nat]
ASSUME ThreadsAssumption == Compressors # {} /\ Storers # {}
ASSUME DepthAssumption == QueueDepth \in Nat \ {0} /\ StageDepth \in Nat \ {0}
ASSUME NoneAssumption == None \notin Files

VARIABLES
    fileQ, readQ,         \* the bounded queues of every worker
    chunkQ, encodedQ,     \* the two shared ones
    closed,               \* queues that are closed
    mainPc, cur, nextFile, \* the calling thread: worker and file it is at
    reader, readerFile,   \* program counter and file in hand
    chunker, chunkerFile,
    compressor, compTask,
    storer, storeTask,
    total,                \* FilePipelineState::total_chunks
    pushed,               \* chunks of the file the chunker has pushed
    done,                 \* chunks_done
    hashes,               \* the slots of chunk_hashes_hex that are filled
    complete,             \* files whose chunking_complete is visible
    finalized,            \* files that are in the manifest
    issues,               \* files recorded as unreadable
    error,                \* PipelineShared::error is set
    result                \* of RunBackupPipeline: "running", "ok", "error"

queueVars == <<fileQ, readQ, chunkQ, encodedQ>>
mainVars == <<mainPc, cur, nextFile>>
readerVars == <<reader, readerFile>>
chunkerVars == <<chunker, chunkerFile>>
compVars == <<compressor, compTask>>
storeVars == <<storer, storeTask>>
stateVars == <<total, pushed, done, hashes, complete, finalized>>
vars == <<queueVars, closed, mainVars, readerVars, chunkerVars, compVars, storeVars,
          stateVars, issues, error, result>>

FileQueue(w) == <<"file", w>>
ReadQueue(w) == <<"read", w>>
ChunkQueue == <<"chunk", 0>>
EncodedQueue == <<"encoded", 0>>

Task == [file : Files, chunk : Nat]

(* ChunkTask and EncodedChunkTask: chunk i of file f on its way to the     *)
(* store.                                                                  *)
TaskOf(f, i) == [file |-> f, chunk |-> i]

(* Mutation: the capacity is taken for the last index. *)
RoomOffByOne(queue, name, depth) == name \notin closed /\ Len(queue) <= depth

(* The read and write ends of BoundedQueue: Push goes on when the queue is *)
(* closed or has room, Pop when it is closed or has an element, and a      *)
(* queue that is closed is drained first.                                  *)
Room(queue, name, depth) == name \notin closed /\ Len(queue) < depth

Refused(name) == name \in closed
Drained(queue, name) == name \in closed /\ queue = <<>>

(* CloseAllStageQueues: the queues registered so far, and the shared ones. *)
Registered ==
    {FileQueue(w) : w \in {v \in Workers : reader[v] # "idle"}}
        \union {ReadQueue(w) : w \in {v \in Workers : reader[v] # "idle"}}
        \union {ChunkQueue, EncodedQueue}

Init ==
    /\ fileQ = [w \in Workers |-> <<>>]
    /\ readQ = [w \in Workers |-> <<>>]
    /\ chunkQ = <<>>
    /\ encodedQ = <<>>
    /\ closed = {}
    /\ mainPc = "start" /\ cur = 1 /\ nextFile = 1
    /\ reader = [w \in Workers |-> "idle"]
    /\ readerFile = [w \in Workers |-> None]
    /\ chunker = [w \in Workers |-> "idle"]
    /\ chunkerFile = [w \in Workers |-> None]
    /\ compressor = [k \in Compressors |-> "pop"]
    /\ compTask = [k \in Compressors |-> None]
    /\ storer = [s \in Storers |-> "pop"]
    /\ storeTask = [s \in Storers |-> None]
    /\ total = [f \in Files |-> 0]
    /\ pushed = [f \in Files |-> 0]
    /\ done = [f \in Files |-> 0]
    /\ hashes = [f \in Files |-> {}]
    /\ complete = {}
    /\ finalized = {}
    /\ issues = {}
    /\ error = FALSE
    /\ result = "running"

-----------------------------------------------------------------------------
(* The calling thread.                                                     *)

(* Registers the queues of the next worker and starts its two threads.     *)
StartWorker ==
    /\ mainPc = "start"
    /\ reader' = [reader EXCEPT ![cur] = "pop"]
    /\ chunker' = [chunker EXCEPT ![cur] = "pop"]
    /\ mainPc' = "push"
    /\ nextFile' = 1
    /\ UNCHANGED <<queueVars, closed, cur, readerFile, chunkerFile, compVars, storeVars,
                   stateVars, issues, error, result>>

PushFile ==
    /\ mainPc = "push"
    /\ nextFile <= Len(Assigned[cur])
    /\ Room(fileQ[cur], FileQueue(cur), QueueDepth)
    /\ fileQ' = [fileQ EXCEPT ![cur] = Append(@, Assigned[cur][nextFile])]
    /\ nextFile' = nextFile + 1
    /\ UNCHANGED <<readQ, chunkQ, encodedQ, closed, mainPc, cur, readerVars, chunkerVars,
                   compVars, storeVars, stateVars, issues, error, result>>

(* After the last file, or at the first push that is refused.              *)
CloseFileQueue ==
    /\ mainPc = "push"
    /\ nextFile > Len(Assigned[cur]) \/ Refused(FileQueue(cur))
    /\ closed' = closed \union {FileQueue(cur)}
    /\ IF cur < NumWorkers THEN mainPc' = "start" /\ cur' = cur + 1
                           ELSE mainPc' = "join" /\ cur' = cur
    /\ UNCHANGED <<queueVars, nextFile, readerVars, chunkerVars, compVars, storeVars,
                   stateVars, issues, error, result>>

ThreadsDone ==
    /\ \A w \in Workers : reader[w] = "done" /\ chunker[w] = "done"
    /\ \A k \in Compressors : compressor[k] = "done"
    /\ \A s \in Storers : storer[s] = "done"

(* Mutation: the store workers are not joined. *)
JoinSome ==
    /\ mainPc = "join"
    /\ \A w \in Workers : reader[w] = "done" /\ chunker[w] = "done"
    /\ \A k \in Compressors : compressor[k] = "done"
    /\ mainPc' = "returned"
    /\ result' = IF error THEN "error" ELSE "ok"
    /\ UNCHANGED <<queueVars, closed, cur, nextFile, readerVars, chunkerVars, compVars,
                   storeVars, stateVars, issues, error>>

(* All threads are joined before the error is looked at.                   *)
Join ==
    /\ mainPc = "join"
    /\ ThreadsDone
    /\ mainPc' = "returned"
    /\ result' = IF error THEN "error" ELSE "ok"
    /\ UNCHANGED <<queueVars, closed, cur, nextFile, readerVars, chunkerVars, compVars,
                   storeVars, stateVars, issues, error>>

-----------------------------------------------------------------------------
(* ReaderStage.                                                            *)

(* Mutation: the read queue is left open. *)
ReaderExitSilent(w) ==
    /\ reader' = [reader EXCEPT ![w] = "done"]
    /\ readerFile' = [readerFile EXCEPT ![w] = None]
    /\ UNCHANGED closed

(* A reader closes the queue it writes to, and not the one it reads from.  *)
ReaderExit(w) ==
    /\ reader' = [reader EXCEPT ![w] = "done"]
    /\ readerFile' = [readerFile EXCEPT ![w] = None]
    /\ closed' = closed \union {ReadQueue(w)}

ReaderPop(w) ==
    /\ reader[w] = "pop"
    /\ fileQ[w] # <<>>
    /\ fileQ' = [fileQ EXCEPT ![w] = Tail(@)]
    /\ IF error
       THEN ReaderExit(w)
       ELSE /\ reader' = [reader EXCEPT ![w] = "read"]
            /\ readerFile' = [readerFile EXCEPT ![w] = Head(fileQ[w])]
            /\ UNCHANGED closed
    /\ UNCHANGED <<readQ, chunkQ, encodedQ, mainVars, chunkerVars, compVars, storeVars,
                   stateVars, issues, error, result>>

(* The input is closed and empty; or the error was seen, or the output     *)
(* closed, with a file in hand.                                            *)
ReaderLeave(w) ==
    /\ \/ reader[w] = "pop" /\ Drained(fileQ[w], FileQueue(w))
       \/ reader[w] = "read" /\ (error \/ Refused(ReadQueue(w)))
    /\ ReaderExit(w)
    /\ UNCHANGED <<queueVars, mainVars, chunkerVars, compVars, storeVars, stateVars,
                   issues, error, result>>

(* A file that cannot be opened is recorded and left out.                  *)
ReadUnreadable(w) ==
    /\ reader[w] = "read"
    /\ issues' = issues \union {readerFile[w]}
    /\ reader' = [reader EXCEPT ![w] = "pop"]
    /\ readerFile' = [readerFile EXCEPT ![w] = None]
    /\ UNCHANGED <<queueVars, closed, mainVars, chunkerVars, compVars, storeVars,
                   stateVars, error, result>>

ReadFile(w) ==
    /\ reader[w] = "read"
    /\ Room(readQ[w], ReadQueue(w), QueueDepth)
    /\ readQ' = [readQ EXCEPT ![w] = Append(@, readerFile[w])]
    /\ reader' = [reader EXCEPT ![w] = "pop"]
    /\ readerFile' = [readerFile EXCEPT ![w] = None]
    /\ UNCHANGED <<fileQ, chunkQ, encodedQ, closed, mainVars, chunkerVars, compVars,
                   storeVars, stateVars, issues, error, result>>

-----------------------------------------------------------------------------
(* ChunkerStage and the ChunkFile* functions.                              *)

(* Mutation: every chunker closes the chunk queue. *)
ChunkerExitAny(w) ==
    /\ chunker' = [chunker EXCEPT ![w] = "done"]
    /\ chunkerFile' = [chunkerFile EXCEPT ![w] = None]
    /\ closed' = closed \union {ReadQueue(w), ChunkQueue}

(* The last chunker to leave closes the chunk queue.                       *)
ChunkerExit(w) ==
    /\ chunker' = [chunker EXCEPT ![w] = "done"]
    /\ chunkerFile' = [chunkerFile EXCEPT ![w] = None]
    /\ closed' = closed \union {ReadQueue(w)} \union
                    IF \A v \in Workers \ {w} : chunker[v] = "done"
                    THEN {ChunkQueue} ELSE {}

(* After a file: on to the next one unless the error is set.               *)
ChunkerNext(w) ==
    IF error
    THEN ChunkerExit(w)
    ELSE /\ chunker' = [chunker EXCEPT ![w] = "pop"]
         /\ chunkerFile' = [chunkerFile EXCEPT ![w] = None]
         /\ UNCHANGED closed

ChunkerPop(w) ==
    /\ chunker[w] = "pop"
    /\ readQ[w] # <<>>
    /\ readQ' = [readQ EXCEPT ![w] = Tail(@)]
    /\ IF error
       THEN ChunkerExit(w)
       ELSE /\ chunker' = [chunker EXCEPT ![w] = "chunk"]
            /\ chunkerFile' = [chunkerFile EXCEPT ![w] = Head(readQ[w])]
            /\ UNCHANGED closed
    /\ UNCHANGED <<fileQ, chunkQ, encodedQ, mainVars, readerVars, compVars, storeVars,
                   stateVars, issues, error, result>>

(* The input is closed and empty, or the error is seen before the file is  *)
(* cut.                                                                    *)
ChunkerLeave(w) ==
    /\ \/ chunker[w] = "pop" /\ Drained(readQ[w], ReadQueue(w))
       \/ chunker[w] = "chunk" /\ error /\ total[chunkerFile[w]] = 0
    /\ ChunkerExit(w)
    /\ UNCHANGED <<queueVars, mainVars, readerVars, compVars, storeVars, stateVars,
                   issues, error, result>>

(* The next batch of chunks is cut and counted before it is pushed: all of *)
(* them in ChunkFileFull, some in the streaming functions.                 *)
CutBatch(w) ==
    LET f == chunkerFile[w] IN
    /\ chunker[w] = "chunk"
    /\ pushed[f] = total[f]
    /\ \E n \in (total[f] + 1)..NumChunks[f] : total' = [total EXCEPT ![f] = n]
    /\ UNCHANGED <<queueVars, closed, mainVars, readerVars, chunkerVars, compVars,
                   storeVars, pushed, done, hashes, complete, finalized, issues, error,
                   result>>

PushChunk(w) ==
    LET f == chunkerFile[w] IN
    /\ chunker[w] = "chunk"
    /\ pushed[f] < total[f]
    /\ Room(chunkQ, ChunkQueue, StageDepth)
    /\ chunkQ' = Append(chunkQ, TaskOf(f, pushed[f] + 1))
    /\ pushed' = [pushed EXCEPT ![f] = @ + 1]
    /\ UNCHANGED <<fileQ, readQ, encodedQ, closed, mainVars, readerVars, chunkerVars,
                   compVars, storeVars, total, done, hashes, complete, finalized, issues,
                   error, result>>

(* All chunks are pushed; or PushChunkTasks gave up at a queue that is     *)
(* closed, after which ChunkFileFull goes on all the same.                 *)
ChunkedAll(w) ==
    LET f == chunkerFile[w] IN
    /\ chunker[w] = "chunk"
    /\ total[f] = NumChunks[f]
    /\ pushed[f] = total[f] \/ (error /\ Refused(ChunkQueue))
    /\ chunker' = [chunker EXCEPT ![w] = "complete"]
    /\ UNCHANGED <<queueVars, closed, mainVars, readerVars, chunkerFile, compVars,
                   storeVars, stateVars, issues, error, result>>

(* Cutting fails, or a streaming function finds the chunk queue closed.    *)
ChunkError(w) ==
    LET f == chunkerFile[w] IN
    /\ chunker[w] = "chunk"
    /\ \/ pushed[f] = total[f] /\ total[f] < NumChunks[f]
       \/ pushed[f] < total[f] /\ Refused(ChunkQueue)
    /\ IF error
       THEN ChunkerExit(w) /\ UNCHANGED error
       ELSE /\ error' = TRUE
            /\ chunker' = [chunker EXCEPT ![w] = "closing"]
            /\ UNCHANGED <<chunkerFile, closed>>
    /\ UNCHANGED <<queueVars, mainVars, readerVars, compVars, storeVars, stateVars,
                   issues, result>>

ChunkerCloseAll(w) ==
    /\ chunker[w] = "closing"
    /\ chunker' = [chunker EXCEPT ![w] = "done"]
    /\ chunkerFile' = [chunkerFile EXCEPT ![w] = None]
    /\ closed' = closed \union Registered
    /\ UNCHANGED <<queueVars, mainVars, readerVars, compVars, storeVars, stateVars,
                   issues, error, result>>

(* chunking_complete.store(true, release).                                 *)
CompleteChunking(w) ==
    /\ chunker[w] = "complete"
    /\ complete' = complete \union {chunkerFile[w]}
    /\ chunker' = [chunker EXCEPT ![w] = "finalize"]
    /\ UNCHANGED <<queueVars, closed, mainVars, readerVars, chunkerFile, compVars,
                   storeVars, total, pushed, done, hashes, finalized, issues, error,
                   result>>

(* TryFinalizeFile after the store: chunks_done is compared without the    *)
(* lock, and with it the file is finalized unless a store worker did.      *)
TryFinalizeFile(w) ==
    LET f == chunkerFile[w] IN
    /\ chunker[w] = "finalize"
    /\ finalized' = IF total[f] > 0 /\ done[f] < total[f]
                    THEN finalized ELSE finalized \union {f}
    /\ ChunkerNext(w)
    /\ UNCHANGED <<queueVars, mainVars, readerVars, compVars, storeVars, total, pushed,
                   done, hashes, complete, issues, error, result>>

-----------------------------------------------------------------------------
(* CompressorWorker.                                                       *)

(* Mutation: the encoded queue is left open. *)
CompressorExitSilent(k) ==
    /\ compressor' = [compressor EXCEPT ![k] = "done"]
    /\ compTask' = [compTask EXCEPT ![k] = None]
    /\ UNCHANGED closed

(* The last compressor to leave closes the encoded queue.                  *)
CompressorExit(k) ==
    /\ compressor' = [compressor EXCEPT ![k] = "done"]
    /\ compTask' = [compTask EXCEPT ![k] = None]
    /\ closed' = closed \union IF \A j \in Compressors \ {k} : compressor[j] = "done"
                               THEN {EncodedQueue} ELSE {}

CompressorPop(k) ==
    /\ compressor[k] = "pop"
    /\ chunkQ # <<>>
    /\ chunkQ' = Tail(chunkQ)
    /\ IF error
       THEN CompressorExit(k)
       ELSE /\ compressor' = [compressor EXCEPT ![k] = "encode"]
            /\ compTask' = [compTask EXCEPT ![k] = Head(chunkQ)]
            /\ UNCHANGED closed
    /\ UNCHANGED <<fileQ, readQ, encodedQ, mainVars, readerVars, chunkerVars, storeVars,
                   stateVars, issues, error, result>>

CompressorLeave(k) ==
    /\ \/ compressor[k] = "pop" /\ Drained(chunkQ, ChunkQueue)
       \/ compressor[k] = "encode" /\ error
    /\ CompressorExit(k)
    /\ UNCHANGED <<queueVars, mainVars, readerVars, chunkerVars, storeVars, stateVars,
                   issues, error, result>>

EncodeChunk(k) ==
    /\ compressor[k] = "encode"
    /\ Room(encodedQ, EncodedQueue, StageDepth)
    /\ encodedQ' = Append(encodedQ, compTask[k])
    /\ compressor' = [compressor EXCEPT ![k] = "pop"]
    /\ compTask' = [compTask EXCEPT ![k] = None]
    /\ UNCHANGED <<fileQ, readQ, chunkQ, closed, mainVars, readerVars, chunkerVars,
                   storeVars, stateVars, issues, error, result>>

(* The codec fails, or the encoded queue refuses the chunk.                *)
EncodeError(k) ==
    /\ compressor[k] = "encode"
    /\ ~error
    /\ error' = TRUE
    /\ compressor' = [compressor EXCEPT ![k] = "closing"]
    /\ UNCHANGED <<queueVars, closed, compTask, mainVars, readerVars, chunkerVars,
                   storeVars, stateVars, issues, result>>

CompressorCloseAll(k) ==
    /\ compressor[k] = "closing"
    /\ compressor' = [compressor EXCEPT ![k] = "done"]
    /\ compTask' = [compTask EXCEPT ![k] = None]
    /\ closed' = closed \union Registered
    /\ UNCHANGED <<queueVars, mainVars, readerVars, chunkerVars, storeVars, stateVars,
                   issues, error, result>>

-----------------------------------------------------------------------------
(* StoreWorker.                                                            *)

StorerExit(s) ==
    /\ storer' = [storer EXCEPT ![s] = "done"]
    /\ storeTask' = [storeTask EXCEPT ![s] = None]

StorerPop(s) ==
    /\ storer[s] = "pop"
    /\ encodedQ # <<>>
    /\ encodedQ' = Tail(encodedQ)
    /\ IF error
       THEN StorerExit(s)
       ELSE /\ storer' = [storer EXCEPT ![s] = "store"]
            /\ storeTask' = [storeTask EXCEPT ![s] = Head(encodedQ)]
    /\ UNCHANGED <<fileQ, readQ, chunkQ, closed, mainVars, readerVars, chunkerVars,
                   compVars, stateVars, issues, error, result>>

StorerLeave(s) ==
    /\ \/ storer[s] = "pop" /\ Drained(encodedQ, EncodedQueue)
       \/ storer[s] = "store" /\ error
    /\ StorerExit(s)
    /\ UNCHANGED <<queueVars, closed, mainVars, readerVars, chunkerVars, compVars,
                   stateVars, issues, error, result>>

(* Mutation: chunking_complete is not looked at. *)
FinishesUncut(f) == done[f] + 1 >= total[f]

(* Mutation: finalizing is left to the chunker. *)
FinishesNever(f) == FALSE

(* MaybeFinalizeFileLocked, with the chunk just counted.                   *)
Finishes(f) == f \in complete /\ done[f] + 1 >= total[f]

(* PutPrecompressed and RecordStoredChunkHash: under the lock of the file  *)
(* its slot is filled, chunks_done counted and, with the last chunk of a   *)
(* file that is cut to the end, the file finalized.                        *)
StoreChunk(s) ==
    LET f == storeTask[s].file IN
    /\ storer[s] = "store"
    /\ IF f \in finalized
       THEN UNCHANGED <<hashes, done, finalized>>
       ELSE /\ hashes' = [hashes EXCEPT ![f] = @ \union {storeTask[s].chunk}]
            /\ done' = [done EXCEPT ![f] = @ + 1]
            /\ finalized' = IF Finishes(f) THEN finalized \union {f} ELSE finalized
    /\ IF error
       THEN StorerExit(s)
       ELSE /\ storer' = [storer EXCEPT ![s] = "pop"]
            /\ storeTask' = [storeTask EXCEPT ![s] = None]
    /\ UNCHANGED <<queueVars, closed, mainVars, readerVars, chunkerVars, compVars, total,
                   pushed, complete, issues, error, result>>

(* Encryption or the store fails.                                          *)
StoreError(s) ==
    /\ storer[s] = "store"
    /\ ~error
    /\ error' = TRUE
    /\ storer' = [storer EXCEPT ![s] = "closing"]
    /\ UNCHANGED <<queueVars, closed, storeTask, mainVars, readerVars, chunkerVars,
                   compVars, stateVars, issues, result>>

StorerCloseAll(s) ==
    /\ storer[s] = "closing"
    /\ StorerExit(s)
    /\ closed' = closed \union Registered
    /\ UNCHANGED <<queueVars, mainVars, readerVars, chunkerVars, compVars, stateVars,
                   issues, error, result>>

-----------------------------------------------------------------------------
Main == StartWorker \/ PushFile \/ CloseFileQueue \/ Join

Reader(w) == ReaderPop(w) \/ ReaderLeave(w) \/ ReadUnreadable(w) \/ ReadFile(w)

Chunker(w) ==
    \/ ChunkerPop(w) \/ ChunkerLeave(w) \/ CutBatch(w) \/ PushChunk(w) \/ ChunkedAll(w)
    \/ ChunkError(w) \/ ChunkerCloseAll(w) \/ CompleteChunking(w) \/ TryFinalizeFile(w)

Compressor(k) ==
    \/ CompressorPop(k) \/ CompressorLeave(k) \/ EncodeChunk(k) \/ EncodeError(k)
    \/ CompressorCloseAll(k)

Storer(s) ==
    \/ StorerPop(s) \/ StorerLeave(s) \/ StoreChunk(s) \/ StoreError(s)
    \/ StorerCloseAll(s)

Next ==
    \/ Main
    \/ \E w \in Workers : Reader(w) \/ Chunker(w)
    \/ \E k \in Compressors : Compressor(k)
    \/ \E s \in Storers : Storer(s)

(* Every thread is scheduled as long as it can go on.                      *)
Fairness ==
    /\ WF_vars(Main)
    /\ \A w \in Workers : WF_vars(Reader(w)) /\ WF_vars(Chunker(w))
    /\ \A k \in Compressors : WF_vars(Compressor(k))
    /\ \A s \in Storers : WF_vars(Storer(s))

Spec == Init /\ [][Next]_vars

FairSpec == Spec /\ Fairness

-----------------------------------------------------------------------------
TaskOrNone == Task \union {None}

(* Types; the queues never exceed their capacity.                          *)
TypeOK ==
    /\ fileQ \in [Workers -> Seq(Files)] /\ readQ \in [Workers -> Seq(Files)]
    /\ \A w \in Workers : Len(fileQ[w]) <= QueueDepth /\ Len(readQ[w]) <= QueueDepth
    /\ chunkQ \in Seq(Task) /\ Len(chunkQ) <= StageDepth
    /\ encodedQ \in Seq(Task) /\ Len(encodedQ) <= StageDepth
    /\ closed \subseteq {FileQueue(w) : w \in Workers} \union {ReadQueue(w) : w \in Workers}
                       \union {ChunkQueue, EncodedQueue}
    /\ mainPc \in {"start", "push", "join", "returned"}
    /\ cur \in Workers /\ nextFile \in Nat \ {0}
    /\ reader \in [Workers -> {"idle", "pop", "read", "done"}]
    /\ readerFile \in [Workers -> Files \union {None}]
    /\ chunker \in [Workers -> {"idle", "pop", "chunk", "closing", "complete", "finalize",
                                "done"}]
    /\ chunkerFile \in [Workers -> Files \union {None}]
    /\ compressor \in [Compressors -> {"pop", "encode", "closing", "done"}]
    /\ compTask \in [Compressors -> TaskOrNone]
    /\ storer \in [Storers -> {"pop", "store", "closing", "done"}]
    /\ storeTask \in [Storers -> TaskOrNone]
    /\ total \in [Files -> Nat] /\ pushed \in [Files -> Nat] /\ done \in [Files -> Nat]
    /\ hashes \in [Files -> SUBSET Nat]
    /\ {complete, finalized, issues} \subseteq SUBSET Files
    /\ error \in BOOLEAN
    /\ result \in {"running", "ok", "error"}

(* A file in the manifest has the hash of every one of its chunks, however *)
(* far the store workers run ahead of a chunker that is still cutting      *)
(* (MaybeFinalizeFileLocked compares with the chunks counted so far).      *)
EntriesWhole == \A f \in finalized : hashes[f] = 1..NumChunks[f]

(* A pipeline that reports success has put every file into the manifest    *)
(* that it has not recorded as unreadable: no chunk and no file is left in *)
(* a queue that closed too early, and between chunker and store workers    *)
(* one finalizes the file.                                                 *)
NothingLeftOut == result = "ok" => Files = finalized \union issues

(* Without an error no producer meets a closed queue: a queue is closed by *)
(* the last of its producers, so that nothing is dropped silently (the     *)
(* reader, main) or reported as "closed early" (chunkers, compressors).    *)
OpenToProducers ==
    error \/ /\ mainPc = "push" => FileQueue(cur) \notin closed
             /\ \A w \in Workers : reader[w] = "read" => ReadQueue(w) \notin closed
             /\ (\E w \in Workers : chunker[w] = "chunk") => ChunkQueue \notin closed
             /\ (\E k \in Compressors : compressor[k] = "encode") => EncodedQueue \notin closed

(* Where a thread waits in BoundedQueue::Push or Pop: at a full or at an   *)
(* empty queue that is open.                                               *)
Full(queue, name, depth) == name \notin closed /\ Len(queue) >= depth
Empty(queue, name) == name \notin closed /\ queue = <<>>

MainWaits ==
    \/ /\ mainPc = "push" /\ nextFile <= Len(Assigned[cur])
       /\ Full(fileQ[cur], FileQueue(cur), QueueDepth)
    \/ mainPc = "join" /\ ~ThreadsDone

ReaderWaits(w) ==
    \/ reader[w] \in {"idle", "done"}
    \/ reader[w] = "pop" /\ Empty(fileQ[w], FileQueue(w))
    \/ reader[w] = "read" /\ Full(readQ[w], ReadQueue(w), QueueDepth)

ChunkerWaits(w) ==
    \/ chunker[w] \in {"idle", "done"}
    \/ chunker[w] = "pop" /\ Empty(readQ[w], ReadQueue(w))
    \/ chunker[w] = "chunk" /\ Full(chunkQ, ChunkQueue, StageDepth)

CompressorWaits(k) ==
    \/ compressor[k] = "done"
    \/ compressor[k] = "pop" /\ Empty(chunkQ, ChunkQueue)
    \/ compressor[k] = "encode" /\ Full(encodedQ, EncodedQueue, StageDepth)

StorerWaits(s) ==
    storer[s] = "done" \/ (storer[s] = "pop" /\ Empty(encodedQ, EncodedQueue))

(* Nobody can go on.                                                       *)
Deadlocked ==
    /\ MainWaits
    /\ \A w \in Workers : ReaderWaits(w) /\ ChunkerWaits(w)
    /\ \A k \in Compressors : CompressorWaits(k)
    /\ \A s \in Storers : StorerWaits(s)

(* Main pushes to a worker it started after the error closed the queues,   *)
(* whose reader has left, and more files than that queue and one hand take.*)
ReaderGone ==
    /\ mainPc = "push" /\ error /\ reader[cur] = "done"
    /\ Len(Assigned[cur]) > QueueDepth + 1

(* The threads never all wait for each other, in whatever order queues     *)
(* fill, are drained and are closed, with or without an error; the one     *)
(* exception is main at a file queue whose reader has left.                *)
DeadlockOnlyAtReaderGone == Deadlocked => ReaderGone

Intake == INSTANCE FileIntake
            WITH manifest <- finalized, unreadable <- issues, recorded <- hashes,
                 outcome <- result

(* The threads together implement FileIntake: no chunk is recorded twice,  *)
(* no file is both in the manifest and reported, and no thread changes     *)
(* anything after RunBackupPipeline has returned.                          *)
ImplementsIntake == Intake!Spec

(* RunBackupPipeline returns, whatever fails and whoever is waiting on     *)
(* which queue then.  This takes that the files of a worker fit into its   *)
(* file queue and its reader's hand: with more, main may wait for ever for *)
(* a reader that has left.                                                 *)
Termination == <>(result # "running")
=============================================================================
