---------------------------- MODULE FileLifecycle ----------------------------
(***************************************************************************)
(* What the project_files.status column promises to API clients and to the *)
(* console, without the queue, the worker or the stores behind it: a file  *)
(* is pending when uploaded, is processed, possibly again after a          *)
(* transient failure, and ends indexed or failed; both are final until the *)
(* file is deleted.  Once a writer with a stale view may be about (calm is *)
(* FALSE), only that a deleted file stays deleted, and that a file appears *)
(* by an upload, is promised.  Module Indexing implements this.            *)
(***************************************************************************)
CONSTANT Files

VARIABLES st, calm

Row == {"pending", "processing", "indexed", "failed"}

Init == st = [f \in Files |-> "absent"] /\ calm = TRUE

Move(f, from, to) == st[f] \in from /\ st' = [st EXCEPT ![f] = to]

Upload(f) == Move(f, {"absent"}, "pending")

Process(f) == Move(f, {"pending", "processing"}, "processing")

Retry(f) == Move(f, {"processing"}, "pending")

Index(f) == Move(f, {"processing"}, "indexed")

Delete(f) == Move(f, Row, "deleted")

\* The index job fails its one file, a startup sweep any number of them.
Fail(F) ==
    /\ \A f \in F : st[f] \in {"pending", "processing"}
    /\ st' = [f \in Files |-> IF f \in F THEN "failed" ELSE st[f]]

\* A stale writer gives files that still exist a status of its own.
Overwrite(F) ==
    /\ ~calm'
    /\ \A f \in F : st[f] \in Row /\ st'[f] \in Row
    /\ \A f \in Files \ F : st'[f] = st[f]

Next ==
    /\ calm' => calm
    /\ \/ \E f \in Files : Upload(f) \/ Process(f) \/ Retry(f) \/ Index(f) \/ Delete(f)
       \/ \E F \in SUBSET Files : Fail(F) \/ Overwrite(F)

Spec == Init /\ [][Next]_<<st, calm>>
=============================================================================
