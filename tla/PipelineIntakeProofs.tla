------------------------ MODULE PipelineIntakeProofs ------------------------
(***************************************************************************)
(* Pipeline implements FileIntake.  What this adds to PipelineProofs: a    *)
(* file is in one place at a time on its way from main to the chunker, so  *)
(* that one that is reported as unreadable has no chunk and never enters   *)
(* the manifest, and all threads have left when RunBackupPipeline returns. *)
(***************************************************************************)
EXTENDS PipelineDeadlockProofs

(* The files main has yet to push to worker w.                             *)
Ahead(w) == {Assigned[w][i] : i \in {j \in 1..Len(Assigned[w]) : Awaited(w, j)}}

Reading(w, f) == reader[w] = "read" /\ readerFile[w] = f

Cutting(w, f) ==
    chunker[w] \in {"chunk", "complete", "finalize"} /\ chunkerFile[w] = f

(* Before the chunker takes it, nothing is known of a file.                *)
Upstream(w, f) ==
    f \in Ahead(w) \/ f \in Elems(fileQ[w]) \/ Reading(w, f) \/ f \in Elems(readQ[w])

Untouched(f) == total[f] = 0 /\ f \notin complete \union issues

UpstreamOK ==
    \A w \in Workers, f \in Files :
        /\ Upstream(w, f) => f \in Elems(Assigned[w]) /\ Untouched(f) /\ ~Cutting(w, f)
        /\ Cutting(w, f) => f \in Elems(Assigned[w]) /\ f \notin issues

(* On its way to the chunker a file is in one place.                       *)
OnceAt(w) ==
    /\ Distinct(fileQ[w]) /\ Distinct(readQ[w])
    /\ \A f \in Elems(fileQ[w]) : f \notin Ahead(w)
    /\ \A f \in Files : Reading(w, f) => f \notin Ahead(w) /\ f \notin Elems(fileQ[w])
    /\ \A f \in Elems(readQ[w]) :
          f \notin Ahead(w) /\ f \notin Elems(fileQ[w]) /\ ~Reading(w, f)

FilesOnce == \A w \in Workers : OnceAt(w)

(* A file is reported instead of being cut, and finalized after it was.    *)
Settled ==
    /\ \A f \in issues : total[f] = 0 /\ f \notin complete
    /\ finalized \subseteq complete
    /\ \A w \in Workers : chunker[w] = "finalize" => chunkerFile[w] \in complete

AllLeft == result # "running" => mainPc = "returned" /\ ThreadsDone

NInv == IInv /\ StartedRun /\ UpstreamOK /\ FilesOnce /\ Settled /\ AllLeft

-----------------------------------------------------------------------------
(* Files on their way to the chunker.                                      *)

(* A file has one worker. *)
LEMMA OneOwner ==
    ASSUME NEW v \in Workers, NEW w \in Workers, NEW f \in Elems(Assigned[v]),
           f \in Elems(Assigned[w])
    PROVE  v = w
  BY AssignedAssumption DEF Elems

(* Main takes the files of a worker in their order and comes to every file *)
(* once.                                                                   *)
LEMMA AheadStep ==
    ASSUME TypeOK, Main \/ UNCHANGED mainVars, NEW w \in Workers
    PROVE  Ahead(w)' \subseteq Ahead(w)
  <1>1. cur \in Int /\ Workers \subseteq Int /\ nextFile \in Int
    BY DEF TypeOK, Workers
  <1>2. \A i \in 1..Len(Assigned[w]) : i \in Nat
    BY AssignedAssumption
  <1>3. ASSUME NEW i \in 1..Len(Assigned[w]), Awaited(w, i)'
        PROVE  Awaited(w, i)
    <2>1. CASE StartWorker
      BY <1>1, <1>2, <1>3, <2>1 DEF StartWorker, Awaited
    <2>2. CASE PushFile
      BY <1>1, <1>2, <1>3, <2>2 DEF PushFile, Awaited
    <2>3. CASE CloseFileQueue
      BY <1>1, <1>2, <1>3, <2>3 DEF CloseFileQueue, Awaited
    <2>4. CASE Join
      BY <1>3, <2>4 DEF Join, Awaited
    <2>5. CASE UNCHANGED mainVars
      BY <1>3, <2>5 DEF mainVars, Awaited
    <2> QED BY <2>1, <2>2, <2>3, <2>4, <2>5 DEF Main
  <1> QED BY <1>3 DEF Ahead

(* The file that main pushes is no longer ahead. *)
LEMMA PushedIsBehind ==
    ASSUME TypeOK, PushFile, NEW w \in Workers, w = cur
    PROVE  /\ Assigned[w][nextFile] \in Files
           /\ Assigned[w][nextFile] \in Ahead(w)
           /\ Assigned[w][nextFile] \notin Ahead(w)'
  <1>1. /\ nextFile \in Nat \ {0} /\ nextFile <= Len(Assigned[w])
        /\ mainPc = "push" /\ cur' = w /\ mainPc' = mainPc /\ nextFile' = nextFile + 1
    BY DEF PushFile, TypeOK
  <1>2. Assigned[w] \in Seq(Files)
    BY AssignedAssumption
  <1>3. nextFile \in 1..Len(Assigned[w]) /\ Assigned[w][nextFile] \in Files
    BY <1>1, <1>2
  <1>4. Awaited(w, nextFile)
    BY <1>1 DEF Awaited
  <1>5. ASSUME NEW i \in 1..Len(Assigned[w]), Awaited(w, i)'
        PROVE  i # nextFile
    BY <1>1, <1>5 DEF Awaited, Workers
  <1>6. ASSUME NEW i \in 1..Len(Assigned[w]), Assigned[w][i] = Assigned[w][nextFile]
        PROVE  i = nextFile
    BY <1>3, <1>6, AssignedAssumption
  <1> QED BY <1>3, <1>4, <1>5, <1>6 DEF Ahead

(* A worker whose files stay where they are. *)
LEMMA OnceSame ==
    ASSUME TypeOK, NEW w \in Workers, OnceAt(w), Ahead(w)' \subseteq Ahead(w),
           fileQ'[w] = fileQ[w], readQ'[w] = readQ[w],
           \A f \in Files : Reading(w, f)' => Reading(w, f)
    PROVE  OnceAt(w)'
  <1>1. Elems(readQ[w]) \subseteq Files
    BY ElemsType DEF TypeOK
  <1> QED BY <1>1 DEF OnceAt

(* A push of main puts a file into one more place, and takes it from what  *)
(* is ahead.                                                               *)
LEMMA OnceMain ==
    ASSUME TypeOK, FilesOnce, Main
    PROVE  FilesOnce'
  <1> SUFFICES ASSUME NEW w \in Workers PROVE OnceAt(w)'
    BY DEF FilesOnce
  <1>1. OnceAt(w) /\ Ahead(w)' \subseteq Ahead(w)
    BY AheadStep DEF FilesOnce
  <1>2. readQ'[w] = readQ[w] /\ \A f \in Files : Reading(w, f)' => Reading(w, f)
    BY DEF Main, StartWorker, PushFile, CloseFileQueue, Join, Reading, queueVars, readerVars,
           TypeOK
  <1>3. CASE ~(PushFile /\ w = cur)
    <2>1. fileQ'[w] = fileQ[w]
      BY <1>3 DEF Main, StartWorker, PushFile, CloseFileQueue, Join, queueVars, TypeOK
    <2> QED BY <1>1, <1>2, <2>1, OnceSame
  <1>4. CASE PushFile /\ w = cur
    <2> DEFINE g == Assigned[w][nextFile]
    <2>1. g \in Files /\ g \in Ahead(w) /\ g \notin Ahead(w)'
      BY <1>4, PushedIsBehind
    <2>2. fileQ[w] \in Seq(Files) /\ fileQ'[w] = Append(fileQ[w], g)
      BY <1>4 DEF PushFile, TypeOK
    <2>3. Elems(readQ[w]) \subseteq Files
      BY ElemsType DEF TypeOK
    <2> HIDE DEF g
    <2>4. g \notin Elems(fileQ[w])
      BY <1>1, <2>1 DEF OnceAt
    <2>5. Elems(fileQ'[w]) = Elems(fileQ[w]) \union {g} /\ Distinct(fileQ'[w])
      BY <1>1, <2>1, <2>2, <2>4, AppendElems DEF OnceAt
    <2> QED BY <1>1, <1>2, <2>1, <2>3, <2>5 DEF OnceAt
  <1> QED BY <1>3, <1>4

(* A reader moves a file from the file queue into its hand and on to the   *)
(* read queue.                                                             *)
LEMMA OnceReader ==
    ASSUME TypeOK, HandsOK, FilesOnce, NEW w \in Workers, Reader(w)
    PROVE  FilesOnce'
  <1> USE DEF queueVars, mainVars, readerVars, chunkerVars, compVars, storeVars, stateVars
  <1> SUFFICES ASSUME NEW v \in Workers PROVE OnceAt(v)'
    BY DEF FilesOnce
  <1>0. UNCHANGED mainVars
    BY ReaderFrame
  <1>1. OnceAt(v) /\ Ahead(v)' \subseteq Ahead(v)
    BY <1>0, AheadStep DEF FilesOnce
  <1>2. CASE v # w
    <2>1. /\ fileQ'[v] = fileQ[v] /\ readQ'[v] = readQ[v]
          /\ \A f \in Files : Reading(v, f)' => Reading(v, f)
      BY <1>2 DEF Reader, ReaderPop, ReaderLeave, ReadUnreadable, ReadFile, ReaderExit, Reading,
                  TypeOK
    <2> QED BY <1>1, <2>1, OnceSame
  <1>3. CASE v = w /\ (ReaderLeave(w) \/ ReadUnreadable(w))
    <2>1. /\ fileQ'[v] = fileQ[v] /\ readQ'[v] = readQ[v]
          /\ \A f \in Files : Reading(v, f)' => Reading(v, f)
      BY <1>3 DEF ReaderLeave, ReadUnreadable, ReaderExit, Reading, TypeOK
    <2> QED BY <1>1, <2>1, OnceSame
  <1>4. CASE v = w /\ ReaderPop(w)
    <2> DEFINE g == Head(fileQ[w])
    <2>1. /\ fileQ[w] \in Seq(Files) /\ fileQ[w] # <<>> /\ fileQ'[w] = Tail(fileQ[w])
          /\ readQ'[w] = readQ[w]
      BY <1>4 DEF ReaderPop, TypeOK
    <2>2. \A f \in Files : Reading(w, f)' => f = g
      BY <1>4 DEF ReaderPop, ReaderExit, Reading, TypeOK
    <2>3. Elems(readQ[w]) \subseteq Files
      BY ElemsType DEF TypeOK
    <2> HIDE DEF g
    <2>4. /\ Elems(fileQ[w]) = Elems(fileQ'[w]) \union {g} /\ g \in Files
          /\ Distinct(fileQ'[w]) /\ g \notin Elems(fileQ'[w])
      BY <1>1, <1>4, <2>1, TailElems DEF OnceAt, g
    <2> QED BY <1>1, <1>4, <2>1, <2>2, <2>3, <2>4 DEF OnceAt
  <1>5. CASE v = w /\ ReadFile(w)
    <2> DEFINE g == readerFile[w]
    <2>1. /\ readQ[w] \in Seq(Files) /\ readQ'[w] = Append(readQ[w], g)
          /\ fileQ'[w] = fileQ[w] /\ g \in Files
      BY <1>5 DEF ReadFile, TypeOK, HandsOK
    <2>2. Reading(w, g) /\ \A f \in Files : ~Reading(w, f)'
      BY <1>5 DEF ReadFile, Reading, TypeOK
    <2> HIDE DEF g
    <2>3. g \notin Elems(readQ[w])
      BY <1>1, <1>5, <2>2 DEF OnceAt
    <2>4. Elems(readQ'[w]) = Elems(readQ[w]) \union {g} /\ Distinct(readQ'[w])
      BY <1>1, <1>5, <2>1, <2>3, AppendElems DEF OnceAt
    <2>5. Elems(readQ'[w]) \subseteq Files
      BY <2>1, <2>4, ElemsType
    <2> QED BY <1>1, <1>5, <2>1, <2>2, <2>4, <2>5 DEF OnceAt
  <1> QED BY <1>2, <1>3, <1>4, <1>5 DEF Reader

(* A chunker takes a file out of the read queue. *)
LEMMA OnceChunker ==
    ASSUME TypeOK, FilesOnce, NEW w \in Workers, Chunker(w)
    PROVE  FilesOnce'
  <1> USE DEF queueVars, mainVars, readerVars, chunkerVars, compVars, storeVars, stateVars
  <1> SUFFICES ASSUME NEW v \in Workers PROVE OnceAt(v)'
    BY DEF FilesOnce
  <1>0. UNCHANGED <<mainVars, readerVars, fileQ>>
    BY DEF Chunker, ChunkerPop, ChunkerLeave, CutBatch, PushChunk, ChunkedAll,
           ChunkError, ChunkerCloseAll, CompleteChunking, TryFinalizeFile
  <1>1. OnceAt(v) /\ Ahead(v)' \subseteq Ahead(v)
    BY <1>0, AheadStep DEF FilesOnce
  <1>2. fileQ'[v] = fileQ[v] /\ \A f : Reading(v, f)' <=> Reading(v, f)
    BY <1>0 DEF Reading
  <1>3. CASE readQ'[v] = readQ[v]
    BY <1>1, <1>2, <1>3, OnceSame
  <1>4. CASE readQ'[v] # readQ[v]
    <2>1. v = w /\ readQ[w] \in Seq(Files) /\ readQ[w] # <<>> /\ readQ'[w] = Tail(readQ[w])
      BY <1>4 DEF Chunker, ChunkerPop, ChunkerLeave, CutBatch, PushChunk, ChunkedAll,
                  ChunkError, ChunkerCloseAll, CompleteChunking, TryFinalizeFile, TypeOK
    <2>2. Elems(readQ'[w]) \subseteq Elems(readQ[w]) /\ Distinct(readQ'[w])
      BY <1>1, <2>1, TailElems DEF OnceAt
    <2> QED BY <1>1, <1>2, <2>1, <2>2 DEF OnceAt
  <1> QED BY <1>3, <1>4

(* Until the chunker takes it a file is in one place. *)
LEMMA OnceStep ==
    ASSUME TypeOK, HandsOK, FilesOnce, [Next]_vars
    PROVE  FilesOnce'
  <1> USE DEF queueVars, mainVars, readerVars, chunkerVars, compVars, storeVars, stateVars
  <1>1. ASSUME UNCHANGED <<mainVars, readerVars, fileQ, readQ>>
        PROVE  FilesOnce'
    <2> SUFFICES ASSUME NEW v \in Workers PROVE OnceAt(v)'
      BY DEF FilesOnce
    <2>1. OnceAt(v) /\ Ahead(v)' \subseteq Ahead(v)
      BY <1>1, AheadStep DEF FilesOnce
    <2>2. \A f : Reading(v, f)' <=> Reading(v, f)
      BY <1>1 DEF Reading
    <2> QED BY <1>1, <2>1, <2>2, OnceSame
  <1>2. CASE UNCHANGED vars
    BY <1>1, <1>2 DEF vars
  <1>3. ASSUME NEW k \in Compressors, Compressor(k)
        PROVE  FilesOnce'
    BY <1>1, <1>3 DEF Compressor, CompressorPop, CompressorLeave, EncodeChunk, EncodeError,
                      CompressorCloseAll
  <1>4. ASSUME NEW s \in Storers, Storer(s)
        PROVE  FilesOnce'
    BY <1>1, <1>4 DEF Storer, StorerPop, StorerLeave, StoreChunk, StoreError, StorerCloseAll
  <1> QED BY <1>2, <1>3, <1>4, OnceMain, OnceReader, OnceChunker DEF Next

-----------------------------------------------------------------------------
(* What is known of a file before and after the chunker takes it.          *)

(* Who has a file after a step had it, or what comes before it, already.   *)
LEMMA UpstreamMoves ==
    ASSUME TypeOK, HandsOK, [Next]_vars, NEW v \in Workers, NEW f \in Files, Upstream(v, f)'
    PROVE  Upstream(v, f)
  <1> USE DEF queueVars, mainVars, readerVars, chunkerVars, compVars, storeVars, stateVars
  <1>0. fileQ[v] \in Seq(Files) /\ readQ[v] \in Seq(Files)
    BY DEF TypeOK
  <1>1. ASSUME UNCHANGED <<mainVars, readerVars, fileQ, readQ>>
        PROVE  Upstream(v, f)
    BY <1>1, AheadStep DEF Upstream, Reading
  <1>2. CASE UNCHANGED vars
    BY <1>1, <1>2 DEF vars
  <1>3. ASSUME NEW k \in Compressors, Compressor(k)
        PROVE  Upstream(v, f)
    BY <1>1, <1>3 DEF Compressor, CompressorPop, CompressorLeave, EncodeChunk, EncodeError,
                      CompressorCloseAll
  <1>4. ASSUME NEW s \in Storers, Storer(s)
        PROVE  Upstream(v, f)
    BY <1>1, <1>4 DEF Storer, StorerPop, StorerLeave, StoreChunk, StoreError, StorerCloseAll
  <1>5. CASE Main
    <2>1. Ahead(v)' \subseteq Ahead(v)
      BY <1>5, AheadStep
    <2>2. readQ'[v] = readQ[v] /\ (Reading(v, f)' => Reading(v, f))
      BY <1>5 DEF Main, StartWorker, PushFile, CloseFileQueue, Join, Reading, TypeOK
    <2>3. CASE PushFile /\ v = cur
      <3>1. /\ Assigned[v][nextFile] \in Files /\ Assigned[v][nextFile] \in Ahead(v)
            /\ fileQ'[v] = Append(fileQ[v], Assigned[v][nextFile])
        BY <2>3, PushedIsBehind DEF PushFile, TypeOK
      <3>2. Elems(fileQ'[v]) = Elems(fileQ[v]) \union {Assigned[v][nextFile]}
        BY <1>0, <3>1, AppendElems
      <3> QED BY <2>1, <2>2, <3>1, <3>2 DEF Upstream
    <2>4. CASE ~(PushFile /\ v = cur)
      <3>1. fileQ'[v] = fileQ[v]
        BY <1>5, <2>4 DEF Main, StartWorker, PushFile, CloseFileQueue, Join, TypeOK
      <3> QED BY <2>1, <2>2, <3>1 DEF Upstream
    <2> QED BY <2>3, <2>4
  <1>6. ASSUME NEW w \in Workers, Reader(w)
        PROVE  Upstream(v, f)
    <2>1. Ahead(v)' \subseteq Ahead(v)
      BY <1>6, ReaderFrame, AheadStep
    <2>2. CASE ReaderPop(w) /\ v = w
      <3>1. /\ fileQ[v] # <<>> /\ fileQ'[v] = Tail(fileQ[v]) /\ readQ'[v] = readQ[v]
            /\ Reading(v, f)' => f = Head(fileQ[v])
        BY <2>2 DEF ReaderPop, ReaderExit, Reading, TypeOK
      <3>2. Elems(fileQ[v]) = Elems(fileQ'[v]) \union {Head(fileQ[v])}
        BY <1>0, <3>1, TailElems
      <3> QED BY <2>1, <3>1, <3>2 DEF Upstream
    <2>3. CASE ReadFile(w) /\ v = w
      <3>1. /\ fileQ'[v] = fileQ[v] /\ readQ'[v] = Append(readQ[v], readerFile[v])
            /\ reader[v] = "read" /\ readerFile[v] \in Files /\ ~Reading(v, f)'
        BY <2>3 DEF ReadFile, Reading, TypeOK, HandsOK
      <3>2. Elems(readQ'[v]) = Elems(readQ[v]) \union {readerFile[v]}
        BY <1>0, <3>1, AppendElems
      <3> QED BY <2>1, <3>1, <3>2 DEF Upstream, Reading
    <2>4. CASE ~(ReaderPop(w) /\ v = w) /\ ~(ReadFile(w) /\ v = w)
      <3>1. /\ fileQ'[v] = fileQ[v] /\ readQ'[v] = readQ[v]
            /\ Reading(v, f)' => Reading(v, f)
        BY <1>6, <2>4 DEF Reader, ReaderPop, ReaderLeave, ReadUnreadable, ReadFile, ReaderExit,
                          Reading, TypeOK
      <3> QED BY <2>1, <3>1 DEF Upstream
    <2> QED BY <2>2, <2>3, <2>4
  <1>7. ASSUME NEW w \in Workers, Chunker(w)
        PROVE  Upstream(v, f)
    <2>1. UNCHANGED <<mainVars, readerVars, fileQ>>
      BY <1>7 DEF Chunker, ChunkerPop, ChunkerLeave, CutBatch, PushChunk, ChunkedAll,
                  ChunkError, ChunkerCloseAll, CompleteChunking, TryFinalizeFile
    <2>2. CASE UNCHANGED readQ
      BY <1>1, <2>1, <2>2
    <2>3. CASE ChunkerPop(w)
      <3>1. readQ'[v] = readQ[v] \/ (readQ[v] # <<>> /\ readQ'[v] = Tail(readQ[v]))
        BY <2>3 DEF ChunkerPop, TypeOK
      <3>2. Elems(readQ'[v]) \subseteq Elems(readQ[v])
        BY <1>0, <3>1, TailElems
      <3>3. Ahead(v)' \subseteq Ahead(v)
        BY <2>1, AheadStep
      <3> QED BY <2>1, <3>2, <3>3 DEF Upstream, Reading
    <2> QED BY <1>7, <2>2, <2>3 DEF Chunker, ChunkerLeave, CutBatch, PushChunk, ChunkedAll,
                  ChunkError, ChunkerCloseAll, CompleteChunking, TryFinalizeFile
  <1> QED BY <1>2, <1>3, <1>4, <1>5, <1>6, <1>7 DEF Next

(* A step that takes no file to a chunker and tells nothing new of one. *)
LEMMA UpstreamKept ==
    ASSUME TypeOK, HandsOK, UpstreamOK, [Next]_vars,
           UNCHANGED <<total, complete, issues>>,
           \A v \in Workers, f \in Files : Cutting(v, f)' => Cutting(v, f)
    PROVE  UpstreamOK'
  <1> SUFFICES ASSUME NEW v \in Workers, NEW f \in Files
               PROVE  /\ Upstream(v, f)' => /\ f \in Elems(Assigned[v])
                                            /\ Untouched(f)' /\ ~Cutting(v, f)'
                      /\ Cutting(v, f)' => f \in Elems(Assigned[v]) /\ f \notin issues'
    BY DEF UpstreamOK
  <1>1. Upstream(v, f)' => Upstream(v, f)
    BY UpstreamMoves
  <1>2. Untouched(f) => Untouched(f)'
    BY DEF Untouched
  <1> QED BY <1>1, <1>2 DEF UpstreamOK

(* What becomes known of a file is known of one that a chunker has, or     *)
(* that a reader just gave up.                                             *)
LEMMA UpstreamTold ==
    ASSUME TypeOK, HandsOK, UpstreamOK, [Next]_vars, NEW w \in Workers, NEW g \in Files,
           g \in Elems(Assigned[w]), ~Upstream(w, g)',
           \A f \in Files : f # g /\ Untouched(f) => Untouched(f)',
           \A v \in Workers, f \in Files : Cutting(v, f)' => f \notin issues',
           \A v \in Workers, f \in Files : Cutting(v, f)' => Cutting(v, f) \/ (v = w /\ f = g)
    PROVE  UpstreamOK'
  <1> SUFFICES ASSUME NEW v \in Workers, NEW f \in Files
               PROVE  /\ Upstream(v, f)' => /\ f \in Elems(Assigned[v])
                                            /\ Untouched(f)' /\ ~Cutting(v, f)'
                      /\ Cutting(v, f)' => f \in Elems(Assigned[v]) /\ f \notin issues'
    BY DEF UpstreamOK
  <1>1. ASSUME Upstream(v, f)'
        PROVE  f \in Elems(Assigned[v]) /\ Untouched(f)' /\ ~Cutting(v, f)'
    <2>1. Upstream(v, f)
      BY <1>1, UpstreamMoves
    <2>2. f \in Elems(Assigned[v]) /\ Untouched(f) /\ ~Cutting(v, f)
      BY <2>1 DEF UpstreamOK
    <2>3. f # g
      BY <1>1, <2>2, OneOwner
    <2> QED BY <2>2, <2>3
  <1>2. ASSUME Cutting(v, f)'
        PROVE  f \in Elems(Assigned[v]) /\ f \notin issues'
    BY <1>2 DEF UpstreamOK
  <1> QED BY <1>1, <1>2

(* The chunker of a worker takes what its reader has read. *)
LEMMA UpstreamStep ==
    ASSUME TypeOK, HandsOK, Unstarted, UpstreamOK, FilesOnce, [Next]_vars
    PROVE  UpstreamOK'
  <1> USE DEF queueVars, mainVars, readerVars, chunkerVars, compVars, storeVars, stateVars
  <1>1. CASE Main
    <2>1. UNCHANGED <<total, complete, issues>>
      BY <1>1 DEF Main, StartWorker, PushFile, CloseFileQueue, Join
    <2>2. \A v \in Workers, f \in Files : Cutting(v, f)' => Cutting(v, f)
      BY <1>1 DEF Main, StartWorker, PushFile, CloseFileQueue, Join, Cutting, TypeOK
    <2> QED BY <2>1, <2>2, UpstreamKept
  <1>2. ASSUME UNCHANGED <<total, complete, issues, chunkerVars>>
        PROVE  UpstreamOK'
    BY <1>2, UpstreamKept DEF Cutting
  <1>3. CASE UNCHANGED vars
    BY <1>2, <1>3 DEF vars
  <1>4. ASSUME NEW k \in Compressors, Compressor(k)
        PROVE  UpstreamOK'
    BY <1>2, <1>4 DEF Compressor, CompressorPop, CompressorLeave, EncodeChunk, EncodeError,
                      CompressorCloseAll
  <1>5. ASSUME NEW s \in Storers, Storer(s)
        PROVE  UpstreamOK'
    BY <1>2, <1>5 DEF Storer, StorerPop, StorerLeave, StoreChunk, StoreError, StorerCloseAll
  <1>6. ASSUME NEW w \in Workers, Reader(w)
        PROVE  UpstreamOK'
    <2>1. CASE ReaderPop(w) \/ ReaderLeave(w) \/ ReadFile(w)
      BY <1>2, <2>1 DEF ReaderPop, ReaderLeave, ReadFile
    <2>2. CASE ReadUnreadable(w)
      <3>0. readerFile[w] \in Files
        BY <2>2 DEF ReadUnreadable, HandsOK
      <3>1. PICK g \in Files :
                /\ g = readerFile[w] /\ issues' = issues \union {g}
                /\ UNCHANGED <<total, complete, chunkerVars>>
        BY <2>2, <3>0 DEF ReadUnreadable
      <3>2. Reading(w, g)
        BY <2>2, <3>1 DEF ReadUnreadable, Reading
      <3>3. ~Reading(w, g)' /\ fileQ'[w] = fileQ[w] /\ readQ'[w] = readQ[w]
        BY <2>2 DEF ReadUnreadable, Reading, TypeOK
      <3>4. Ahead(w)' \subseteq Ahead(w)
        BY <1>6, ReaderFrame, AheadStep
      <3>5. OnceAt(w)
        BY DEF FilesOnce
      <3>6. g \notin Ahead(w) /\ g \notin Elems(fileQ[w]) /\ g \notin Elems(readQ[w])
        BY <3>1, <3>2, <3>5 DEF OnceAt
      <3>7. ~Upstream(w, g)'
        BY <3>3, <3>4, <3>6 DEF Upstream
      <3>8. Upstream(w, g)
        BY <3>2 DEF Upstream
      <3>9. g \in Elems(Assigned[w]) /\ ~Cutting(w, g)
        BY <3>1, <3>8 DEF UpstreamOK
      <3>10. \A v \in Workers, f \in Files : Cutting(v, f)' <=> Cutting(v, f)
        BY <3>1 DEF Cutting
      <3>11. \A v \in Workers : ~Cutting(v, g)
        BY <3>1, <3>9, OneOwner DEF UpstreamOK
      <3>12. \A v \in Workers, f \in Files : Cutting(v, f)' => f \notin issues'
        BY <3>1, <3>10, <3>11 DEF UpstreamOK
      <3>13. \A f \in Files : f # g /\ Untouched(f) => Untouched(f)'
        BY <3>1 DEF Untouched
      <3> QED BY <3>1, <3>7, <3>9, <3>10, <3>12, <3>13, UpstreamTold
    <2> QED BY <1>6, <2>1, <2>2 DEF Reader
  <1>7. ASSUME NEW w \in Workers, Chunker(w)
        PROVE  UpstreamOK'
    <2>1. ASSUME NEW h \in Files, Cutting(w, h), UNCHANGED issues,
                 \A v \in Workers, f \in Files : Cutting(v, f)' => Cutting(v, f),
                 \A f \in Files : f # h /\ Untouched(f) => Untouched(f)'
          PROVE  UpstreamOK'
      <3>1. h \in Elems(Assigned[w])
        BY <2>1 DEF UpstreamOK
      <3>2. ~Upstream(w, h)'
        BY <2>1, UpstreamMoves DEF UpstreamOK
      <3>3. \A v \in Workers, f \in Files : Cutting(v, f)' => f \notin issues'
        BY <2>1 DEF UpstreamOK
      <3> QED BY <2>1, <3>1, <3>2, <3>3, UpstreamTold
    <2>2. CASE CutBatch(w)
      <3>0. chunkerFile[w] \in Files
        BY <2>2 DEF CutBatch, HandsOK
      <3>1. PICK h \in Files : h = chunkerFile[w] /\ Cutting(w, h)
        BY <2>2, <3>0 DEF CutBatch, Cutting
      <3>2. UNCHANGED issues /\ \A v \in Workers, f \in Files : Cutting(v, f)' => Cutting(v, f)
        BY <2>2 DEF CutBatch, Cutting
      <3>3. \A f \in Files : f # h /\ Untouched(f) => Untouched(f)'
        BY <2>2, <3>1 DEF CutBatch, Untouched, TypeOK
      <3> QED BY <2>1, <3>1, <3>2, <3>3
    <2>3. CASE CompleteChunking(w)
      <3>0. chunkerFile[w] \in Files
        BY <2>3 DEF CompleteChunking, HandsOK
      <3>1. PICK h \in Files : h = chunkerFile[w] /\ Cutting(w, h)
        BY <2>3, <3>0 DEF CompleteChunking, Cutting
      <3>2. UNCHANGED issues /\ \A v \in Workers, f \in Files : Cutting(v, f)' => Cutting(v, f)
        BY <2>3 DEF CompleteChunking, Cutting, TypeOK
      <3>3. \A f \in Files : f # h /\ Untouched(f) => Untouched(f)'
        BY <2>3, <3>1 DEF CompleteChunking, Untouched
      <3> QED BY <2>1, <3>1, <3>2, <3>3
    <2>4. CASE ChunkerPop(w)
      <3>1. /\ readQ[w] \in Seq(Files) /\ readQ[w] # <<>> /\ readQ'[w] = Tail(readQ[w])
            /\ UNCHANGED <<total, complete, issues, mainVars, readerVars, fileQ>>
        BY <2>4 DEF ChunkerPop, TypeOK
      <3>a. PICK g \in Files : g = Head(readQ[w])
        BY <3>1, TailElems
      <3>2. \A v \in Workers, f \in Files : Cutting(v, f)' => Cutting(v, f) \/ (v = w /\ f = g)
        BY <2>4, <3>a DEF ChunkerPop, ChunkerExit, Cutting, TypeOK
      <3>3. OnceAt(w)
        BY DEF FilesOnce
      <3>4. g \in Elems(readQ[w]) /\ g \notin Elems(readQ'[w])
        BY <3>1, <3>a, <3>3, TailElems DEF OnceAt
      <3>5. Ahead(w)' \subseteq Ahead(w) /\ (Reading(w, g)' => Reading(w, g))
        BY <3>1, AheadStep DEF Reading
      <3>6. ~Upstream(w, g)'
        BY <3>1, <3>3, <3>4, <3>5 DEF OnceAt, Upstream
      <3>7. Upstream(w, g)
        BY <3>4 DEF Upstream
      <3>8. g \in Elems(Assigned[w]) /\ g \notin issues
        BY <3>4, <3>7 DEF UpstreamOK, Untouched
      <3>9. \A v \in Workers, f \in Files : Cutting(v, f)' => f \notin issues'
        BY <3>1, <3>2, <3>8 DEF UpstreamOK
      <3>10. \A f \in Files : Untouched(f) => Untouched(f)'
        BY <3>1 DEF Untouched
      <3> QED BY <3>2, <3>4, <3>6, <3>8, <3>9, <3>10, UpstreamTold
    <2>5. CASE ChunkerLeave(w) \/ PushChunk(w) \/ ChunkedAll(w) \/ ChunkError(w)
                  \/ ChunkerCloseAll(w) \/ TryFinalizeFile(w)
      <3>1. UNCHANGED <<total, complete, issues>>
        BY <2>5 DEF ChunkerLeave, PushChunk, ChunkedAll, ChunkError, ChunkerCloseAll,
                    TryFinalizeFile
      <3>2. \A v \in Workers, f \in Files : Cutting(v, f)' => Cutting(v, f)
        BY <2>5 DEF ChunkerLeave, PushChunk, ChunkedAll, ChunkError, ChunkerCloseAll,
                    TryFinalizeFile, ChunkerExit, ChunkerNext, Cutting, TypeOK
      <3> QED BY <3>1, <3>2, UpstreamKept
    <2> QED BY <1>7, <2>2, <2>3, <2>4, <2>5 DEF Chunker
  <1> QED BY <1>1, <1>3, <1>4, <1>5, <1>6, <1>7 DEF Next

(* A file is finalized only after it was cut, and then not reported. *)
LEMMA SettledStep ==
    ASSUME TypeOK, HandsOK, UpstreamOK, Settled, [Next]_vars
    PROVE  Settled'
  <1> USE DEF queueVars, mainVars, readerVars, chunkerVars, compVars, storeVars, stateVars
  <1>1. ASSUME UNCHANGED <<total, complete, issues, finalized>>,
               \A v \in Workers : chunker'[v] = "finalize"
                                     => chunker[v] = "finalize" /\ chunkerFile'[v] = chunkerFile[v]
        PROVE  Settled'
    BY <1>1 DEF Settled
  <1>2. CASE Main
    <2>1. \A v \in Workers : chunker'[v] = "finalize" => chunker[v] = "finalize"
      BY <1>2 DEF Main, StartWorker, PushFile, CloseFileQueue, Join, TypeOK
    <2> QED BY <1>1, <1>2, <2>1 DEF Main, StartWorker, PushFile, CloseFileQueue, Join
  <1>3. CASE UNCHANGED vars
    BY <1>1, <1>3 DEF vars
  <1>4. ASSUME NEW k \in Compressors, Compressor(k)
        PROVE  Settled'
    BY <1>1, <1>4 DEF Compressor, CompressorPop, CompressorLeave, EncodeChunk, EncodeError,
                      CompressorCloseAll
  <1>5. ASSUME NEW s \in Storers, Storer(s)
        PROVE  Settled'
    <2>1. CASE StoreChunk(s)
      <3>1. finalized' \subseteq complete
        BY <2>1 DEF StoreChunk, Finishes, Settled
      <3> QED BY <2>1, <3>1 DEF StoreChunk, Settled
    <2>2. CASE ~StoreChunk(s)
      BY <1>1, <1>5, <2>2 DEF Storer, StorerPop, StorerLeave, StoreError, StorerCloseAll
    <2> QED BY <2>1, <2>2
  <1>6. ASSUME NEW w \in Workers, Reader(w)
        PROVE  Settled'
    <2>1. CASE ReadUnreadable(w)
      <3>1. readerFile[w] \in Files /\ Upstream(w, readerFile[w])
        BY <2>1 DEF ReadUnreadable, HandsOK, Upstream, Reading
      <3>2. Untouched(readerFile[w])
        BY <3>1 DEF UpstreamOK
      <3> QED BY <2>1, <3>2 DEF ReadUnreadable, Settled, Untouched
    <2>2. CASE ~ReadUnreadable(w)
      BY <1>1, <1>6, <2>2 DEF Reader, ReaderPop, ReaderLeave, ReadFile
    <2> QED BY <2>1, <2>2
  <1>7. ASSUME NEW w \in Workers, Chunker(w)
        PROVE  Settled'
    <2>1. ASSUME CutBatch(w) \/ CompleteChunking(w) \/ TryFinalizeFile(w)
          PROVE  chunkerFile[w] \in Files /\ chunkerFile[w] \notin issues
      BY <2>1 DEF CutBatch, CompleteChunking, TryFinalizeFile, HandsOK, UpstreamOK, Cutting
    <2>2. CASE CutBatch(w)
      <3>1. \A f \in Files : f \in issues => total'[f] = total[f]
        BY <2>1, <2>2 DEF CutBatch, TypeOK
      <3>2. issues \subseteq Files
        BY DEF TypeOK
      <3> QED BY <2>2, <3>1, <3>2 DEF CutBatch, Settled
    <2>3. CASE CompleteChunking(w)
      BY <2>1, <2>3 DEF CompleteChunking, Settled, TypeOK
    <2>4. CASE TryFinalizeFile(w)
      <3>1. finalized' \subseteq complete
        BY <2>4 DEF TryFinalizeFile, Settled
      <3>2. \A v \in Workers : chunker'[v] = "finalize"
                                  => chunker[v] = "finalize" /\ chunkerFile'[v] = chunkerFile[v]
        BY <2>4 DEF TryFinalizeFile, ChunkerNext, ChunkerExit, TypeOK
      <3> QED BY <2>4, <3>1, <3>2 DEF TryFinalizeFile, Settled
    <2>5. CASE ChunkerPop(w) \/ ChunkerLeave(w) \/ PushChunk(w) \/ ChunkedAll(w)
                  \/ ChunkError(w) \/ ChunkerCloseAll(w)
      <3>1. UNCHANGED <<total, complete, issues, finalized>>
        BY <2>5 DEF ChunkerPop, ChunkerLeave, PushChunk, ChunkedAll, ChunkError, ChunkerCloseAll
      <3>2. \A v \in Workers : chunker'[v] = "finalize"
                                  => chunker[v] = "finalize" /\ chunkerFile'[v] = chunkerFile[v]
        BY <2>5 DEF ChunkerPop, ChunkerLeave, PushChunk, ChunkedAll, ChunkError, ChunkerCloseAll,
                    ChunkerExit, TypeOK
      <3> QED BY <1>1, <3>1, <3>2
    <2> QED BY <1>7, <2>2, <2>3, <2>4, <2>5 DEF Chunker
  <1> QED BY <1>2, <1>3, <1>4, <1>5, <1>6, <1>7 DEF Next

-----------------------------------------------------------------------------
(* The end.                                                                *)

(* No thread is left to take a step after RunBackupPipeline has returned. *)
LEMMA NothingAfter ==
    ASSUME AllLeft, [Next]_vars, result # "running"
    PROVE  UNCHANGED vars
  <1>1. mainPc = "returned" /\ ThreadsDone
    BY DEF AllLeft
  <1>2. ~Main
    BY <1>1 DEF Main, StartWorker, PushFile, CloseFileQueue, Join
  <1>3. \A w \in Workers : ~Reader(w)
    BY <1>1 DEF ThreadsDone, Reader, ReaderPop, ReaderLeave, ReadUnreadable, ReadFile
  <1>4. \A w \in Workers : ~Chunker(w)
    BY <1>1 DEF ThreadsDone, Chunker, ChunkerPop, ChunkerLeave, CutBatch, PushChunk, ChunkedAll,
                ChunkError, ChunkerCloseAll, CompleteChunking, TryFinalizeFile
  <1>5. \A k \in Compressors : ~Compressor(k)
    BY <1>1 DEF ThreadsDone, Compressor, CompressorPop, CompressorLeave, EncodeChunk, EncodeError,
                CompressorCloseAll
  <1>6. \A s \in Storers : ~Storer(s)
    BY <1>1 DEF ThreadsDone, Storer, StorerPop, StorerLeave, StoreChunk, StoreError,
                StorerCloseAll
  <1> QED BY <1>2, <1>3, <1>4, <1>5, <1>6 DEF Next

(* Only Join gives the result. *)
LEMMA OnlyJoinReturns ==
    ASSUME TypeOK, Unstarted, StartedRun, [Next]_vars, ~Join
    PROVE  result' = result
  BY ReaderFrame, StartedReader, ChunkerFrame, CompressorFrame, StorerFrame
     DEF Next, Main, StartWorker, PushFile, CloseFileQueue, vars

(* All threads are joined before the result is there. *)
LEMMA AllLeftStep ==
    ASSUME TypeOK, Unstarted, StartedRun, AllLeft, [Next]_vars
    PROVE  AllLeft'
  <1>1. CASE result # "running"
    BY <1>1, NothingAfter DEF vars, AllLeft, ThreadsDone, mainVars, readerVars, chunkerVars,
                              compVars, storeVars
  <1>2. CASE Join
    BY <1>2 DEF Join, AllLeft, ThreadsDone, readerVars, chunkerVars, compVars, storeVars
  <1>3. CASE result = "running" /\ ~Join
    BY <1>3, OnlyJoinReturns DEF AllLeft
  <1> QED BY <1>1, <1>2, <1>3

(* NInv holds before any thread has started. *)
LEMMA NInvInit == Init => NInv
  <1> SUFFICES ASSUME Init PROVE NInv
    OBVIOUS
  <1>1. \A w \in Workers : fileQ[w] = <<>> /\ readQ[w] = <<>>
    BY DEF Init
  <1>2. \A w \in Workers, f \in Files : ~Reading(w, f) /\ ~Cutting(w, f)
    BY DEF Init, Reading, Cutting
  <1>3. \A w \in Workers : Ahead(w) \subseteq Elems(Assigned[w])
    BY DEF Ahead, Elems
  <1>4. \A f \in Files : Untouched(f)
    BY DEF Init, Untouched
  <1>5. UpstreamOK
    BY <1>1, <1>2, <1>3, <1>4, EmptyElems DEF UpstreamOK, Upstream
  <1>6. FilesOnce
    BY <1>1, <1>2, EmptyElems DEF FilesOnce, OnceAt
  <1>7. Settled /\ AllLeft
    BY DEF Init, Settled, AllLeft
  <1> QED BY <1>5, <1>6, <1>7, IInvInit, DInvInit DEF NInv, DInv

(* NInv is kept by every step. *)
LEMMA NInvStep == NInv /\ [Next]_vars => NInv'
  <1> SUFFICES ASSUME NInv, [Next]_vars PROVE NInv'
    OBVIOUS
  <1>1. TypeOK /\ HandsOK /\ Unstarted
    BY DEF NInv, IInv
  <1> QED BY <1>1, IInvStep, StartedStep, UpstreamStep, OnceStep, SettledStep, AllLeftStep
          DEF NInv

(* The threads of RunBackupPipeline together take in each file as a whole  *)
(* or report it, and change nothing after they have said that they are     *)
(* done, for any files, threads and queue capacities.                      *)
THEOREM PipelineImplementsIntake == Spec => ImplementsIntake
  <1>1. Init => Intake!Init
    BY DEF Init, Intake!Init
  <1>2. NInv /\ [Next]_vars => [Intake!Next]_Intake!vars
    <2> SUFFICES ASSUME NInv, [Next]_vars, ~UNCHANGED Intake!vars
                 PROVE  Intake!Next
      OBVIOUS
    <2> USE DEF queueVars, mainVars, readerVars, chunkerVars, compVars, storeVars, stateVars,
                Intake!vars
    <2>1. /\ TypeOK /\ HandsOK /\ Unstarted /\ StartedRun /\ CountsOK /\ TasksOnce /\ DoneCounts
          /\ UpstreamOK /\ FilesOnce /\ Settled
      BY DEF NInv, IInv
    <2>2. result = "running"
      BY NothingAfter DEF NInv, vars
    <2>3. EntriesWhole' /\ NothingLeftOut'
      BY NInvStep DEF NInv, IInv
    <2>4. finalized \subseteq Files /\ issues \subseteq Files
      BY <2>1 DEF TypeOK
    <2>5. CASE Main
      <3>1. Join
        BY <2>5 DEF Main, StartWorker, PushFile, CloseFileQueue
      <3>2. /\ UNCHANGED <<finalized, issues, hashes>>
            /\ result' = "error" \/ (result' = "ok" /\ Files = finalized \union issues)
        BY <2>3, <3>1 DEF Join, NothingLeftOut
      <3> QED BY <2>2, <3>2 DEF Intake!Next, Intake!Return
    <2>6. ASSUME NEW w \in Workers, Reader(w)
          PROVE  Intake!Next
      <3>1. ReadUnreadable(w)
        BY <2>6 DEF Reader, ReaderPop, ReaderLeave, ReadFile
      <3>2. PICK f \in Files : f = readerFile[w] /\ Upstream(w, f)
        BY <2>1, <3>1 DEF ReadUnreadable, HandsOK, Upstream, Reading
      <3>3. total[f] = 0 /\ f \notin complete /\ f \notin issues /\ f \notin finalized
        BY <2>1, <3>2 DEF UpstreamOK, Untouched, Settled
      <3>4. hashes[f] = {}
        <4>1. pushed[f] = 0
          BY <2>1, <3>3 DEF CountsOK, TypeOK
        <4> QED BY <2>1, <4>1 DEF DoneCounts
      <3>5. Intake!Report(f)
        BY <2>2, <3>1, <3>2, <3>3, <3>4 DEF ReadUnreadable, Intake!Report, Intake!Pending
      <3> QED BY <3>5 DEF Intake!Next
    <2>7. ASSUME NEW w \in Workers, Chunker(w)
          PROVE  Intake!Next
      <3>1. TryFinalizeFile(w)
        BY <2>7 DEF Chunker, ChunkerPop, ChunkerLeave, CutBatch, PushChunk, ChunkedAll,
                    ChunkError, ChunkerCloseAll, CompleteChunking
      <3>2. PICK f \in Files : f = chunkerFile[w] /\ Cutting(w, f)
        BY <2>1, <3>1 DEF TryFinalizeFile, HandsOK, Cutting
      <3>3. /\ UNCHANGED <<hashes, issues, result>> /\ f \notin finalized
            /\ finalized' = finalized \union {f}
        BY <3>1, <3>2 DEF TryFinalizeFile
      <3>4. f \notin issues
        BY <2>1, <3>2 DEF UpstreamOK
      <3>5. hashes[f] = 1..NumChunks[f]
        BY <2>3, <3>3 DEF EntriesWhole
      <3>6. Intake!TakeIn(f)
        BY <2>2, <3>3, <3>4, <3>5 DEF Intake!TakeIn, Intake!Pending, Intake!AllOf
      <3> QED BY <3>6 DEF Intake!Next
    <2>8. ASSUME NEW k \in Compressors, Compressor(k)
          PROVE  FALSE
      BY <2>8 DEF Compressor, CompressorPop, CompressorLeave, EncodeChunk, EncodeError,
                  CompressorCloseAll
    <2>9. ASSUME NEW s \in Storers, Storer(s)
          PROVE  Intake!Next
      <3>1. StoreChunk(s)
        BY <2>9 DEF Storer, StorerPop, StorerLeave, StoreError, StorerCloseAll
      <3>2. storeTask[s] \in Task /\ OnItsWay(storeTask[s])
        BY <2>1, <3>1 DEF StoreChunk, HandsOK, TasksOnce, Storing
      <3>3. PICK f \in Files, i \in Nat : f = storeTask[s].file /\ i = storeTask[s].chunk
        BY <3>2 DEF Task
      <3>4. i \in 1..pushed[f] /\ i \notin hashes[f]
        BY <3>2, <3>3 DEF OnItsWay
      <3>5. /\ f \notin finalized /\ UNCHANGED <<issues, result>>
            /\ hashes' = [hashes EXCEPT ![f] = hashes[f] \union {i}]
            /\ finalized' = finalized \/ finalized' = finalized \union {f}
        BY <3>1, <3>3 DEF StoreChunk
      <3>6. /\ pushed[f] \in Nat /\ total[f] \in Nat /\ NumChunks[f] \in Nat
            /\ pushed[f] <= total[f] /\ total[f] <= NumChunks[f]
        BY <2>1, ChunksAssumption DEF TypeOK, CountsOK
      <3>7. i \in 1..NumChunks[f] /\ f \notin issues
        BY <2>1, <3>4, <3>6 DEF Settled
      <3>8. f \in finalized' => hashes[f] \union {i} = 1..NumChunks[f]
        BY <2>1, <2>3, <3>5 DEF EntriesWhole, TypeOK
      <3>9. Intake!RecordChunk(f, i)
        BY <2>2, <3>4, <3>5, <3>7, <3>8 DEF Intake!RecordChunk, Intake!Pending, Intake!AllOf
      <3> QED BY <3>7, <3>9 DEF Intake!Next, Intake!AllOf
    <2>10. CASE UNCHANGED vars
      BY <2>10 DEF vars
    <2> QED BY <2>5, <2>6, <2>7, <2>8, <2>9, <2>10 DEF Next
  <1> QED BY <1>1, <1>2, NInvInit, NInvStep, PTL DEF Spec, ImplementsIntake, Intake!Spec
=============================================================================
