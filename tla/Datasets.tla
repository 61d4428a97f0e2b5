------------------------------- MODULE Datasets -------------------------------
(***************************************************************************)
(* The dataset rows of a fine-tune project and their files: upload with    *)
(* validation in the background, curation, synthesis from the indexed      *)
(* chunks, and the sweep of the app's startup (api/v1/datasets.py,         *)
(* services/datasets.py, api/v1/synthesis.py, services/synthesis.py,       *)
(* services/maintenance.py).                                               *)
(*                                                                         *)
(* Everything runs in the app process: a background task dies with it, and *)
(* its row stays validating until a sweep.  A file is a sequence of rows,  *)
(* a row one of "json" (prompt and JSON response), "text" (prompt and any  *)
(* other response), "question" (a retrieval question), "broken".           *)
(* Synthesized items are the keys of the generated questions; duplicates   *)
(* are judged by Norm, white space and case removed, and by Near, the      *)
(* cosine of their embeddings.                                             *)
(***************************************************************************)
EXTENDS Integers, Sequences, FiniteSets

CONSTANTS
    Ids,         \* dataset ids
    None,
    Contents,    \* what a user may send as rows
    Tasks,       \* eval tasks
    MinRows,     \* settings.eval_min_rows
    MaxRows,     \* settings.eval_max_rows
    NumChunks,   \* indexed chunks long enough to ask about
    TooShort,    \* indexed chunks that are not
    MaxChunks,   \* values of max_chunks in a request
    Outputs,     \* what one generation may return: sequences of keys
    Norm,        \* key -> its normal form
    Near,        \* set of two-element sets of keys whose cosine is too high
    Events,      \* which environment events a behaviour may contain
    MaxEvents    \* bound on the number of those events

\* What the validators tell apart of a row.
Shapes == {"json", "text", "question", "broken"}

ASSUME DatasetsAssumption ==
    /\ None \notin Ids /\ None \notin Seq(Shapes)
    /\ Contents \subseteq Seq(Shapes)
    /\ MinRows \in Nat /\ MaxRows \in Nat \ {0} /\ MinRows <= MaxRows
    /\ NumChunks \in Nat \ {0} /\ TooShort \in Nat
    /\ MaxChunks \subseteq Nat \ {0}
    /\ Outputs \subseteq Seq(DOMAIN Norm)

VARIABLES
    ds,         \* datasets rows
    disk,       \* the stored file of each dataset
    task,       \* the request or background task of each dataset
    app,        \* the app process is up
    chunks,     \* how many chunks long enough the project has
    events,     \* how many environment events there have been
    faults      \*   ... and of which kinds

vars == <<ds, disk, task, app, chunks, events, faults>>

Absent == [status |-> "absent", kind |-> "upload", task |-> None, n |-> 0,
           source |-> None]
NoTask == [pc |-> "none"]

Init ==
    /\ ds = [d \in Ids |-> Absent]
    /\ disk = [d \in Ids |-> None]
    /\ task = [d \in Ids |-> NoTask]
    /\ app = TRUE
    /\ chunks = NumChunks
    /\ events = 0
    /\ faults = {}

Event(e) ==
    /\ e \in Events
    /\ events < MaxEvents
    /\ events' = events + 1
    /\ faults' = faults \cup {e}

NoEvent == UNCHANGED <<events, faults>>

Unused(d) == app /\ ds[d].status = "absent" /\ task[d] = NoTask /\ disk[d] = None

-----------------------------------------------------------------------------
(* Validation.                                                              *)

\* _validate_row: a prompt and a response, a JSON response for task extract.
RowFits(row, t) == row = "json" \/ (row = "text" /\ t # "extract")

\* Mutant: the task is not passed on to the rows.
ValidatesAnyTask(content, t) ==
    content # <<>> /\ t \in Tasks \cup {None} /\ \A i \in DOMAIN content : RowFits(content[i], None)

\* validate_dataset: every row fits and there is one.
Validates(content, t) ==
    content # <<>> /\ \A i \in DOMAIN content : RowFits(content[i], t)

\* check_eval_set_size.
SizeFits(content) == Len(content) \in MinRows..MaxRows

-----------------------------------------------------------------------------
(* Upload.                                                                  *)

\* POST /datasets saves the file; a wrong size removes it again.
SaveUpload(d, content, t) ==
    /\ Unused(d)
    /\ SizeFits(content)
    /\ disk' = [disk EXCEPT ![d] = content]
    /\ task' = [task EXCEPT ![d] = [pc |-> "commit", task |-> t]]
    /\ UNCHANGED <<ds, app, chunks>>
    /\ NoEvent

UploadedRow(d) == [Absent EXCEPT !.status = "validating", !.task = task[d].task]

\* The row is committed and the validation scheduled.
CommitUpload(d) ==
    /\ task[d].pc = "commit"
    /\ ds' = [ds EXCEPT ![d] = UploadedRow(d)]
    /\ task' = [task EXCEPT ![d] = [pc |-> "validate"]]
    /\ UNCHANGED <<disk, app, chunks>>
    /\ NoEvent

\* The commit raises, whether it took effect or its reply was lost: nothing is
\* scheduled and the file stays.
CommitUploadRaises(d) ==
    /\ task[d].pc = "commit"
    /\ Event("commit_error")
    /\ \E row \in {ds[d], UploadedRow(d)} : ds' = [ds EXCEPT ![d] = row]
    /\ task' = [task EXCEPT ![d] = NoTask]
    /\ UNCHANGED <<disk, app, chunks>>

\* _validate_in_background records the verdict.
Validate(d) ==
    LET ok == Validates(disk[d], ds[d].task)
    IN  /\ task[d].pc = "validate"
        /\ ds' = [ds EXCEPT ![d].status = IF ok THEN "valid" ELSE "invalid",
                            ![d].n = IF ok THEN Len(disk[d]) ELSE 0]
        /\ task' = [task EXCEPT ![d] = NoTask]
        /\ UNCHANGED <<disk, app, chunks>>
        /\ NoEvent

\* It raises; the except branch opens a second session.
ValidateRaises(d) ==
    /\ task[d].pc = "validate"
    /\ Event("db_error")
    /\ task' = [task EXCEPT ![d] = [pc |-> "giveup"]]
    /\ UNCHANGED <<ds, disk, app, chunks>>

\* The except branch marks the row invalid.
MarkInvalid(d) ==
    /\ task[d].pc = "giveup"
    /\ ds' = [ds EXCEPT ![d].status = "invalid"]
    /\ task' = [task EXCEPT ![d] = NoTask]
    /\ UNCHANGED <<disk, app, chunks>>
    /\ NoEvent

\* It raises too: the row stays validating with no task left.
MarkInvalidRaises(d) ==
    /\ task[d].pc = "giveup"
    /\ Event("db_down")
    /\ task' = [task EXCEPT ![d] = NoTask]
    /\ UNCHANGED <<ds, disk, app, chunks>>

-----------------------------------------------------------------------------
(* Curation.                                                                *)

\* POST /datasets/{id}/curate writes the rows to a temporary file and validates
\* them, without the source's task; rows that fail leave nothing.
WriteCurated(d, source, content) ==
    /\ Unused(d)
    /\ ds[source].status = "valid"
    /\ Validates(content, None)
    /\ task' = [task EXCEPT ![d] = [pc |-> "rename", source |-> source, content |-> content]]
    /\ UNCHANGED <<ds, disk, app, chunks>>
    /\ NoEvent

\* The flush has given an id: the file takes its permanent name.
RenameCurated(d) ==
    /\ task[d].pc = "rename"
    /\ disk' = [disk EXCEPT ![d] = task[d].content]
    /\ task' = [task EXCEPT ![d].pc = "commit_curated"]
    /\ UNCHANGED <<ds, app, chunks>>
    /\ NoEvent

\* The row is committed as valid, with its source's kind and task.
CommitCurated(d) ==
    LET source == ds[task[d].source]
    IN  /\ task[d].pc = "commit_curated"
        /\ ds' = [ds EXCEPT ![d] = [status |-> "valid", kind |-> source.kind,
                                    task |-> source.task, n |-> Len(disk[d]),
                                    source |-> task[d].source]]
        /\ task' = [task EXCEPT ![d] = NoTask]
        /\ UNCHANGED <<disk, app, chunks>>
        /\ NoEvent

-----------------------------------------------------------------------------
(* Synthesis.                                                               *)

\* Only a behavior set has an eval task.
SynthesizedRow(mode, t) ==
    [Absent EXCEPT !.status = "validating", !.kind = mode,
                   !.task = IF mode = "behavior" THEN t ELSE None]

\* POST /datasets/synthesize: there are chunks, of any length; the row is
\* committed, the task scheduled.
Synthesize(d, mode, t, max) ==
    /\ Unused(d)
    /\ chunks + TooShort > 0
    /\ ds' = [ds EXCEPT ![d] = SynthesizedRow(mode, t)]
    /\ task' = [task EXCEPT ![d] = [pc |-> "load", max |-> max]]
    /\ UNCHANGED <<disk, app, chunks>>
    /\ NoEvent

\* The commit's reply is lost: the row is there and no task is scheduled.
SynthesizeReplyLost(d, mode, t) ==
    /\ Unused(d)
    /\ chunks + TooShort > 0
    /\ Event("commit_error")
    /\ ds' = [ds EXCEPT ![d] = SynthesizedRow(mode, t)]
    /\ UNCHANGED <<disk, task, app, chunks>>

\* load_chunks: all n rows, or max of them at even strides (positions from 0).  The
\* code's float stride may fall just short of a whole position and then picks the
\* one before it; the strides stay within one of each other.
Sample(n, max) == IF n > max THEN [i \in 1..max |-> ((i - 1) * n) \div max]
                  ELSE [i \in 1..n |-> i - 1]

\* load_chunks in the background task; there may be none long enough, or by now.
LoadChunks(d) ==
    /\ task[d].pc = "load"
    /\ task' = [task EXCEPT ![d] =
                  IF chunks = 0 THEN [pc |-> "giveup"]
                  ELSE [pc |-> "generate", sample |-> Sample(chunks, task[d].max),
                        at |-> 0, errors |-> 0, items |-> <<>>]]
    /\ UNCHANGED <<ds, disk, app, chunks>>
    /\ NoEvent

\* One chunk's generation: its usable items are added, or it failed and counts.
Generate(d, out) ==
    /\ task[d].pc = "generate"
    /\ task[d].at < Len(task[d].sample)
    /\ task' = [task EXCEPT ![d].at = @ + 1,
                            ![d].errors = IF out = None THEN @ + 1 ELSE @,
                            ![d].items = IF out = None THEN @ ELSE @ \o out]
    /\ UNCHANGED <<ds, disk, app, chunks>>
    /\ NoEvent

\* dedup_exact: the first of each normal form.
FirstOfForm(items) ==
    {i \in DOMAIN items : \A j \in 1..i-1 : Norm[items[j]] # Norm[items[i]]}

\* Mutant: an item is compared with every earlier one, dropped or not.
KeptIfNew(items) ==
    {i \in FirstOfForm(items) :
        \A j \in FirstOfForm(items) : j < i => {items[i], items[j]} \notin Near}

\* near_duplicate_mask over the items dedup_exact kept: greedy, earlier ones win.
Kept(items) ==
    LET exact == FirstOfForm(items)
        kept[i \in 0..Len(items)] ==
            IF i = 0 THEN {}
            ELSE LET before == kept[i-1]
                 IN  IF i \in exact /\ \A j \in before : {items[i], items[j]} \notin Near
                     THEN before \cup {i} ELSE before
    IN  kept[Len(items)]

\* The row an item becomes: a question, or a row of the task's shape.
RowOf(mode, t) == IF mode = "rag_eval" THEN "question"
                  ELSE IF t = "extract" THEN "json" ELSE "text"

\* Every chunk has been asked.  No items, or errors on more than half of the
\* chunks (synthesis_max_error_rate), raise; else the kept rows are written, at
\* most MaxRows of a behavior set.
WriteRows(d) ==
    LET x == task[d]
        kept == Kept(x.items)
        behavior == ds[d].kind = "behavior"
        size == IF behavior /\ Cardinality(kept) > MaxRows THEN MaxRows ELSE Cardinality(kept)
    IN  /\ x.pc = "generate"
        /\ x.at = Len(x.sample)
        /\ IF x.items = <<>> \/ 2 * x.errors > Len(x.sample)
           THEN /\ task' = [task EXCEPT ![d] = [pc |-> "giveup"]]
                /\ UNCHANGED disk
           ELSE /\ disk' = [disk EXCEPT ![d] =
                              [i \in 1..size |-> RowOf(ds[d].kind, ds[d].task)]]
                /\ task' = [task EXCEPT ![d].pc = "record"]
        /\ UNCHANGED <<ds, app, chunks>>
        /\ NoEvent

\* The row becomes valid with the file's path and count.
RecordRows(d) ==
    /\ task[d].pc = "record"
    /\ ds' = [ds EXCEPT ![d].status = "valid", ![d].n = Len(disk[d])]
    /\ task' = [task EXCEPT ![d] = NoTask]
    /\ UNCHANGED <<disk, app, chunks>>
    /\ NoEvent

\* synthesize_from_chunks raises: the embedder, or the disk.
SynthesisRaises(d) ==
    /\ task[d].pc = "generate"
    /\ Event("embedding_error")
    /\ task' = [task EXCEPT ![d] = [pc |-> "giveup"]]
    /\ UNCHANGED <<ds, disk, app, chunks>>

\* A query of _run_synthesis raises, and so does the handler's own, on the same
\* session: the row stays validating with no task left.
SynthesisSessionLost(d) ==
    /\ task[d].pc \in {"load", "record"}
    /\ Event("session_lost")
    /\ task' = [task EXCEPT ![d] = NoTask]
    /\ UNCHANGED <<ds, disk, app, chunks>>

-----------------------------------------------------------------------------
(* The environment.                                                         *)

\* Documents of the project are deleted, all of them or all but one chunk.
DeleteFiles(left) ==
    /\ chunks > left
    /\ Event("files_deleted")
    /\ chunks' = left
    /\ UNCHANGED <<ds, disk, task, app>>

\* The app process dies with its requests and tasks ...
Crash ==
    /\ app
    /\ Event("crash")
    /\ app' = FALSE
    /\ task' = [d \in Ids |-> NoTask]
    /\ UNCHANGED <<ds, disk, chunks>>

\* Mutant: the sweep forgets the datasets.
RestartOtherTables ==
    /\ ~app
    /\ app' = TRUE
    /\ UNCHANGED <<ds, disk, task, chunks>>
    /\ NoEvent

\* ... and starts again: sweep_stuck_tasks, before the first request.
Restart ==
    /\ ~app
    /\ app' = TRUE
    /\ ds' = [d \in Ids |-> IF ds[d].status = "validating"
                            THEN [ds[d] EXCEPT !.status = "invalid"] ELSE ds[d]]
    /\ UNCHANGED <<disk, task, chunks>>
    /\ NoEvent

\* A sweep that fails does not stop the start.
RestartUnswept ==
    /\ ~app
    /\ Event("sweep_error")
    /\ app' = TRUE
    /\ UNCHANGED <<ds, disk, task, chunks>>

RequestStep(d) ==
    \/ CommitUpload(d)
    \/ RenameCurated(d)
    \/ CommitCurated(d)

TaskStep(d) ==
    \/ Validate(d)
    \/ MarkInvalid(d)
    \/ LoadChunks(d)
    \/ \E out \in Outputs \cup {None} : Generate(d, out)
    \/ WriteRows(d)
    \/ RecordRows(d)

Next ==
    \/ \E d \in Ids, c \in Contents, t \in Tasks : SaveUpload(d, c, t)
    \/ \E d, s \in Ids, c \in Contents : WriteCurated(d, s, c)
    \/ \E d \in Ids, m \in {"rag_eval", "behavior"}, t \in Tasks, k \in MaxChunks :
          Synthesize(d, m, t, k)
    \/ \E d \in Ids, m \in {"rag_eval", "behavior"}, t \in Tasks : SynthesizeReplyLost(d, m, t)
    \/ \E d \in Ids : RequestStep(d) \/ TaskStep(d) \/ CommitUploadRaises(d)
    \/ \E d \in Ids : ValidateRaises(d) \/ MarkInvalidRaises(d)
    \/ \E d \in Ids : SynthesisRaises(d) \/ SynthesisSessionLost(d)
    \/ \E left \in {0, 1} : DeleteFiles(left)
    \/ Crash
    \/ Restart
    \/ RestartUnswept

Spec == Init /\ [][Next]_vars

\* Tasks and requests of a running app go on; the container restarts it.
Fairness ==
    /\ \A d \in Ids : WF_vars(RequestStep(d) \/ TaskStep(d))
    /\ WF_vars(Restart)

FairSpec == Spec /\ Fairness

-----------------------------------------------------------------------------
(* Properties.                                                              *)

Valid(d) == ds[d].status = "valid"

\* A valid dataset is usable: its file is there, its count is the file's, and
\* every row has the shape of the dataset's kind and task, over crashes between
\* the file and the row, and whoever wrote it.  Curated sets are excepted from
\* the shape: curate_dataset validates them without kind or task.
ValidIsUsable ==
    \A d \in Ids : Valid(d) =>
        /\ disk[d] # None
        /\ Len(disk[d]) = ds[d].n
        /\ ds[d].n > 0
        /\ ds[d].source = None =>
              \A i \in DOMAIN disk[d] :
                  IF ds[d].kind = "rag_eval" THEN disk[d][i] = "question"
                  ELSE RowFits(disk[d][i], ds[d].task)

\* Synthesis keeps one of each group of duplicates: no two kept questions are
\* duplicates of each other, and none is dropped without a kept one that stands
\* for it.  The sample it asks about has max_chunks distinct chunks, spread over
\* the whole project: strides differ by at most one.
SynthesisKeepsOne ==
    \A d \in Ids : task[d].pc = "generate" =>
        LET items == task[d].items
            kept == Kept(items)
            sample == task[d].sample
            same(i, j) == Norm[items[i]] = Norm[items[j]]
            near(i, j) == {items[i], items[j]} \in Near
        IN  /\ \A i, j \in kept : i # j => ~same(i, j) /\ ~near(i, j)
            /\ \A i \in DOMAIN items : \E j \in 1..i :
                  same(i, j) /\ (j \in kept \/ \E k \in kept : near(j, k))
            /\ \A i, j \in 1..Len(sample)-1 :
                  /\ sample[i+1] > sample[i]
                  /\ (sample[i+1] - sample[i]) - (sample[j+1] - sample[j]) \in -1..1
            /\ Len(sample) > 0 => sample[1] = 0 /\ sample[Len(sample)] < NumChunks

\* "The curated dataset passes through the same min-size and schema validation
\* as any uploaded dataset" (specs/openapi.yaml).
CuratedLikeUploaded ==
    \A d \in Ids : Valid(d) /\ ds[d].source # None /\ ds[d].kind = "upload" =>
        SizeFits(disk[d]) /\ Validates(disk[d], ds[d].task)

\* No dataset stays validating: the task ends, or its exception does, or the
\* next start sweeps the row.  Excepted are a commit of the row whose reply is lost,
\* a database that is down for the exception's own write, a session the handler
\* reuses after it failed, and a sweep that fails.
Stranding == {"commit_error", "db_down", "session_lost", "sweep_error"}
DatasetsFinish ==
    \A d \in Ids :
        ds[d].status = "validating" ~>
            (ds[d].status # "validating" \/ faults \cap Stranding # {})
=============================================================================
