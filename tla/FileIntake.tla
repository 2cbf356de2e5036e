----------------------------- MODULE FileIntake -----------------------------
(***************************************************************************)
(* What RunBackupPipeline promises its caller, whatever threads and queues *)
(* it uses: every chunk of a file is recorded once, a file enters the      *)
(* manifest once and with all its chunks, or is reported as unreadable     *)
(* with none and then never enters it, success means that no file is left, *)
(* and after it has returned nothing changes any more.                     *)
(***************************************************************************)
EXTENDS Integers

CONSTANTS Files, NumChunks

VARIABLES manifest,    \* files taken in
          unreadable,  \* files reported
          recorded,    \* the chunks recorded of every file
          outcome      \* "running", "ok" or "error"

vars == <<manifest, unreadable, recorded, outcome>>

Init ==
    /\ manifest = {} /\ unreadable = {}
    /\ recorded = [f \in Files |-> {}]
    /\ outcome = "running"

Pending(f) == outcome = "running" /\ f \notin manifest \union unreadable

AllOf(f) == 1..NumChunks[f]

RecordChunk(f, i) ==
    /\ Pending(f) /\ i \in AllOf(f) \ recorded[f]
    /\ recorded' = [recorded EXCEPT ![f] = @ \union {i}]
    /\ \/ manifest' = manifest
       \/ recorded[f] \union {i} = AllOf(f) /\ manifest' = manifest \union {f}
    /\ UNCHANGED <<unreadable, outcome>>

TakeIn(f) ==
    /\ Pending(f) /\ recorded[f] = AllOf(f)
    /\ manifest' = manifest \union {f}
    /\ UNCHANGED <<unreadable, recorded, outcome>>

Report(f) ==
    /\ Pending(f) /\ recorded[f] = {}
    /\ unreadable' = unreadable \union {f}
    /\ UNCHANGED <<manifest, recorded, outcome>>

Return ==
    /\ outcome = "running"
    /\ \/ outcome' = "error"
       \/ outcome' = "ok" /\ Files = manifest \union unreadable
    /\ UNCHANGED <<manifest, unreadable, recorded>>

Next ==
    \/ \E f \in Files : TakeIn(f) \/ Report(f) \/ \E i \in AllOf(f) : RecordChunk(f, i)
    \/ Return

Spec == Init /\ [][Next]_vars
=============================================================================
