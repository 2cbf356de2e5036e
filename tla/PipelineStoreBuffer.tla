------------------------ MODULE PipelineStoreBuffer ------------------------
(***************************************************************************)
(* Pipeline on a processor that lets a load overtake an earlier store of   *)
(* the same thread (x86, whose release stores are plain ones).             *)
(* chunking_complete is stored with release order and chunks_done loaded   *)
(* with acquire order, which leaves the two free to swap: TryFinalizeFile  *)
(* may compare chunks_done while the store is still in the store buffer.   *)
(* A store worker's fetch_add, between a lock and an unlock, is not        *)
(* reordered.                                                              *)
(***************************************************************************)
EXTENDS MCPipeline

(* TryFinalizeFile finds chunks missing and returns; the store becomes     *)
(* visible later, at the latest with the next lock the chunker takes.      *)
(* (If it finds none missing it takes the lock, which empties the store    *)
(* buffer: then the order does not matter.)                                *)
TryFinalizeEarly(w) ==
    LET f == chunkerFile[w] IN
    /\ chunker[w] = "complete"
    /\ total[f] > 0 /\ done[f] < total[f]
    /\ chunker' = [chunker EXCEPT ![w] = "drain"]
    /\ UNCHANGED <<queueVars, closed, mainVars, readerVars, chunkerFile, compVars,
                   storeVars, stateVars, issues, error, result>>

DrainStore(w) ==
    /\ chunker[w] = "drain"
    /\ complete' = complete \union {chunkerFile[w]}
    /\ ChunkerNext(w)
    /\ UNCHANGED <<queueVars, mainVars, readerVars, compVars, storeVars, total, pushed,
                   done, hashes, finalized, issues, error, result>>

BufferedNext ==
    Next \/ \E w \in Workers : TryFinalizeEarly(w) \/ DrainStore(w)

BufferedSpec == Init /\ [][BufferedNext]_vars
=============================================================================
