------------------------------ MODULE Extraction ------------------------------
(***************************************************************************)
(* Visual extraction of one indexed file: the request that queues a job    *)
(* (api/v1/files.py), the job itself (services/extraction.py, run by the   *)
(* worker of worker/main.py), and the file's delete handler racing with    *)
(* it.  The worker is meant to be serial; a heartbeat that fails under a   *)
(* job, or a second worker, lets two jobs of the file run side by side.    *)
(*                                                                         *)
(* For each selected page the job asks the vision model for the schema's   *)
(* fields and, when the page's OCR was weak, for a transcription, which    *)
(* replaces the page's chunks: rows in one Postgres transaction, vectors   *)
(* in Chroma by two calls made before that transaction commits.            *)
(*                                                                         *)
(* A chunk's text is one piece of one reading of its page.  Chunk ids are  *)
(* the chunk indexes, in both stores.  DELETE of rows locks them until its *)
(* transaction ends; INSERT of a chunk row and the cascade of the file     *)
(* row's DELETE each wait for the other's locks.                           *)
(***************************************************************************)
EXTENDS Integers, Sequences, FiniteSets, FiniteSetsExt, Functions

CONSTANTS
    Chunks,      \* the indexed chunks: a function from index to page
    Flagged,     \* the pages whose chunks need review
    Outcomes,    \* what reading a page may give: <<fields or none, pieces of text>>
    MaxPages,    \* settings.extract_max_pages
    MaxJobs,     \* bound on the number of requests
    Events,      \* which environment events a behaviour may contain
    MaxEvents    \* bound on the number of those events

Pages == {Chunks[i] : i \in DOMAIN Chunks}

ASSUME ExtractionAssumption ==
    /\ DOMAIN Chunks \subseteq Nat /\ IsFiniteSet(DOMAIN Chunks)
    /\ Pages \subseteq Nat
    /\ Flagged \subseteq Pages
    /\ Outcomes \subseteq BOOLEAN \X Nat

VARIABLES
    rows,       \* committed chunk rows: index -> [page, text, fields, review]
    vec,        \* vectors: index -> text
    exists,     \* the file row is committed
    disk,       \* the uploaded bytes are on disk
    queue,      \* queued extract jobs; the payload is all_pages
    asked,      \* how many jobs have been queued
    wk,         \* the worker's job
    left,       \* a second job of the file, when one runs beside it
    del,        \* the delete request
    events,     \* how many environment events there have been
    faults      \*   ... and of which kinds

vars == <<rows, vec, exists, disk, queue, asked, wk, left, del, events, faults>>

\* Pieces of the text of page p: those of the first reading are its chunks.
Piece(p, reading, k, n) == [page |-> p, reading |-> reading, k |-> k, n |-> n]

Rank(i) == Cardinality({j \in DOMAIN Chunks : Chunks[j] = Chunks[i] /\ j <= i})
Size(p) == Cardinality({j \in DOMAIN Chunks : Chunks[j] = p})
FirstText(i) == Piece(Chunks[i], 0, Rank(i), Size(Chunks[i]))

NoJob == [pc |-> "idle", all |-> FALSE, todo |-> {}, flagged |-> {}, reading |-> 0,
          got |-> FALSE, n |-> 0, old |-> {}, top |-> 0, locked |-> FALSE, missed |-> FALSE, done |-> 0]

Init ==
    /\ rows = [i \in DOMAIN Chunks |->
                 [page |-> Chunks[i], text |-> FirstText(i), fields |-> FALSE,
                  review |-> Chunks[i] \in Flagged]]
    /\ vec = [i \in DOMAIN Chunks |-> FirstText(i)]
    /\ exists = TRUE
    /\ disk = TRUE
    /\ queue = <<>>
    /\ asked = 0
    /\ wk = NoJob
    /\ left = NoJob
    /\ del = "none"
    /\ events = 0
    /\ faults = {}

Event(e) ==
    /\ e \in Events
    /\ events < MaxEvents
    /\ events' = events + 1
    /\ faults' = faults \cup {e}

NoEvent == UNCHANGED <<events, faults>>

-----------------------------------------------------------------------------
(* The request.                                                             *)

\* select_pages: the flagged pages, or every page.
SelectPages(all) ==
    {rows[i].page : i \in {j \in DOMAIN rows : all \/ rows[j].review}}

\* POST .../extract: the file exists and some page, but not too many, qualify.
Request(all) ==
    /\ asked < MaxJobs
    /\ exists
    /\ Cardinality(SelectPages(all)) \in 1..MaxPages
    /\ queue' = Append(queue, all)
    /\ asked' = asked + 1
    /\ UNCHANGED <<rows, vec, exists, disk, wk, left, del>>
    /\ NoEvent

-----------------------------------------------------------------------------
(* The job.                                                                 *)

\* The job ends, with or without an error; its session, if any, is closed.
EndJob == wk' = [NoJob EXCEPT !.reading = wk.reading]

\* extract_file begins: no file row or no schema raises, and so does a file
\* that has too many pages by now.  The flagged pages are read once, here.  The
\* reading gets a number above every earlier one.
StartJob ==
    /\ wk.pc = "idle"
    /\ queue # <<>>
    /\ queue' = Tail(queue)
    /\ LET all == Head(queue)
           pages == SelectPages(all)
       IN  \/ /\ exists /\ Cardinality(pages) <= MaxPages
              /\ wk' = [NoJob EXCEPT !.pc = "page", !.all = all, !.todo = pages,
                                     !.flagged = SelectPages(FALSE),
                                     !.reading = wk.reading + left.reading + 1]
              /\ NoEvent
           \/ /\ ~exists \/ Cardinality(pages) > MaxPages
              /\ EndJob
              /\ NoEvent
           \/ /\ Event("schema_cleared")
              /\ EndJob
    /\ UNCHANGED <<rows, vec, exists, disk, asked, left, del>>

ThisPage == Min(wk.todo)

\* The page is behind us, done or not.
NextPage(done) ==
    wk' = [wk EXCEPT !.pc = "page", !.todo = wk.todo \ {ThisPage},
                     !.done = IF done THEN wk.done + 1 ELSE wk.done,
                     !.old = {}, !.top = 0, !.locked = FALSE, !.missed = FALSE,
                     !.got = FALSE, !.n = 0]

\* The page is rendered and read: fields or none, and the number of pieces of
\* the transcription, which only a flagged page gets and which may be empty.
ReadPage(got, n) ==
    /\ wk.pc = "page"
    /\ wk.todo # {}
    /\ disk
    /\ n > 0 => ThisPage \in wk.flagged
    /\ wk' = [wk EXCEPT !.pc = "select", !.got = got, !.n = n]
    /\ UNCHANGED <<rows, vec, exists, disk, queue, asked, left, del>>
    /\ NoEvent

\* Rendering or the model raises: the page is skipped.
SkipPage ==
    /\ wk.pc = "page"
    /\ wk.todo # {}
    /\ NextPage(FALSE)
    /\ UNCHANGED <<rows, vec, exists, disk, queue, asked, left, del>>
    /\ NoEvent

\* The model stops answering ...
Hang ==
    /\ wk.pc = "page"
    /\ wk.todo # {}
    /\ disk
    /\ Event("hang")
    /\ wk' = [wk EXCEPT !.pc = "hung"]
    /\ UNCHANGED <<rows, vec, exists, disk, queue, asked, left, del>>

\* Mutant: no timeout around the page.
PageUnbounded == wk.pc = "hung" /\ UNCHANGED vars

\* ... and extract_page_timeout_seconds ends the job.
PageTimeout ==
    /\ wk.pc = "hung"
    /\ EndJob
    /\ UNCHANGED <<rows, vec, exists, disk, queue, asked, left, del>>
    /\ NoEvent

\* The other job has deleted some of these rows and not committed.
LockedByOther(old) == left.locked /\ left.old \cap old # {}

\* The page's chunks and the file's highest index are selected.  No chunks: the
\* file was deleted.  No transcription: the fields, if any, are set at once.
SelectOld ==
    LET old == {i \in DOMAIN rows : rows[i].page = ThisPage}
    IN  /\ wk.pc = "select"
        /\ \/ old = {} /\ NextPage(FALSE) /\ UNCHANGED rows
           \/ /\ old # {} /\ wk.n = 0
              /\ ~(wk.got /\ LockedByOther(old))
              /\ rows' = [i \in DOMAIN rows |->
                            IF i \in old /\ wk.got THEN [rows[i] EXCEPT !.fields = TRUE]
                            ELSE rows[i]]
              /\ NextPage(TRUE)
           \/ /\ old # {} /\ wk.n > 0
              /\ wk' = [wk EXCEPT !.pc = "delete", !.old = old, !.top = Max(DOMAIN rows)]
              /\ UNCHANGED rows
        /\ UNCHANGED <<vec, exists, disk, queue, asked, left, del>>
        /\ NoEvent

\* The old rows are deleted, uncommitted: their locks are held from here on,
\* unless the file and its rows are gone already.  A DELETE that had to wait for
\* the other job misses the rows that job committed under the same ids.
DeleteOld ==
    /\ \/ /\ wk.pc = "delete" /\ LockedByOther(wk.old)
          /\ wk' = [wk EXCEPT !.pc = "waiting"]
       \/ /\ wk.pc = "delete" /\ ~LockedByOther(wk.old)
          /\ wk' = [wk EXCEPT !.pc = "upsert", !.locked = exists]
       \/ /\ wk.pc = "waiting" /\ ~LockedByOther(wk.old)
          /\ \E missed \in BOOLEAN :
                wk' = [wk EXCEPT !.pc = "upsert", !.locked = exists, !.missed = missed]
    /\ UNCHANGED <<rows, vec, exists, disk, queue, asked, left, del>>
    /\ NoEvent

\* The indexes of the new pieces, in order: the old ones, then fresh ones above
\* every index of the file.
Indexes(old, top, n) ==
    LET order[k \in 0..n] ==
            IF k = 0 THEN {}
            ELSE LET rest == old \ order[k-1]
                 IN  order[k-1] \cup
                     {IF rest # {} THEN Min(rest) ELSE top + k - Cardinality(old)}
    IN  [k \in 1..n |-> CHOOSE i \in order[k] : i \notin order[k-1]]

NewIndexes == Indexes(wk.old, wk.top, wk.n)

\* new_chunks by index.
NewTexts ==
    LET ix == NewIndexes
    IN  [i \in Range(ix) |->
            Piece(ThisPage, wk.reading, CHOOSE k \in 1..wk.n : ix[k] = i, wk.n)]

\* What is new replaces what is there, by index.
Upsert(new, old) ==
    [i \in DOMAIN new \cup DOMAIN old |-> IF i \in DOMAIN new THEN new[i] ELSE old[i]]

\* rag.index_chunks embeds and upserts the new pieces.
UpsertNew ==
    /\ wk.pc = "upsert"
    /\ vec' = Upsert(NewTexts, vec)
    /\ wk' = [wk EXCEPT !.pc = "surplus"]
    /\ UNCHANGED <<rows, exists, disk, queue, asked, left, del>>
    /\ NoEvent

\* Mutant: the vectors of surplus pieces stay.
DeleteSurplusNever ==
    /\ wk.pc = "surplus"
    /\ wk' = [wk EXCEPT !.pc = "commit"]
    /\ UNCHANGED <<rows, vec, exists, disk, queue, asked, left, del>>
    /\ NoEvent

\* rag.delete_chunk_ids removes the vectors of old pieces nothing replaced.
DeleteSurplus ==
    /\ wk.pc = "surplus"
    /\ vec' = Restrict(vec, DOMAIN vec \ (wk.old \ Range(NewIndexes)))
    /\ wk' = [wk EXCEPT !.pc = "commit"]
    /\ UNCHANGED <<rows, exists, disk, queue, asked, left, del>>
    /\ NoEvent

\* A Chroma or Postgres error in the middle of a page is caught nowhere in
\* extract_file: the transaction rolls back and the job fails.
StoreError ==
    /\ wk.pc \in {"select", "delete", "waiting", "upsert", "surplus", "commit"}
    /\ Event("store_error")
    /\ EndJob
    /\ UNCHANGED <<rows, vec, exists, disk, queue, asked, left, del>>

\* The rows of the new pieces, with the fields and no flag.
NewRows ==
    [i \in DOMAIN NewTexts |->
        [page |-> ThisPage, text |-> NewTexts[i], fields |-> wk.got, review |-> FALSE]]

\* An id of the new rows is taken: by the other job's rows, never by this one's.
Collides ==
    wk.missed \/ DOMAIN NewTexts \cap (DOMAIN rows \ wk.old) # {}

\* Mutant: the surplus rows of the old reading are not deleted.
CommitPageOverOld ==
    /\ wk.pc = "commit"
    /\ del # "blocked"
    /\ IF exists
       THEN /\ rows' = Upsert(NewRows, rows)
            /\ NextPage(TRUE)
       ELSE EndJob /\ UNCHANGED rows
    /\ UNCHANGED <<vec, exists, disk, queue, asked, left, del>>
    /\ NoEvent

\* INSERT and COMMIT.  Without the file the foreign key fails, with an id that is
\* taken the primary key: the transaction rolls back and the job fails.
CommitPage ==
    /\ wk.pc = "commit"
    /\ del # "blocked"
    /\ IF exists /\ ~Collides
       THEN /\ rows' = Upsert(NewRows, Restrict(rows, DOMAIN rows \ wk.old))
            /\ NextPage(TRUE)
       ELSE EndJob /\ UNCHANGED rows
    /\ UNCHANGED <<vec, exists, disk, queue, asked, left, del>>
    /\ NoEvent

\* The INSERT waits for the file row, its DELETE for the chunk rows: Postgres
\* aborts one of the two.  The request answers 500, or the job fails.
Deadlock ==
    /\ wk.pc = "commit"
    /\ del = "blocked"
    /\ \/ /\ ~Collides
          /\ rows' = Upsert(NewRows, Restrict(rows, DOMAIN rows \ wk.old))
          /\ NextPage(TRUE)
          /\ del' = "none"
       \/ EndJob /\ del' = "row" /\ UNCHANGED rows
    /\ UNCHANGED <<vec, exists, disk, queue, asked, left>>
    /\ NoEvent

\* Every page is behind us; none done means InferenceFailed.  Nothing else is
\* left of the job either way.
FinishJob ==
    /\ wk.pc = "page"
    /\ wk.todo = {}
    /\ EndJob
    /\ UNCHANGED <<rows, vec, exists, disk, queue, asked, left, del>>
    /\ NoEvent

-----------------------------------------------------------------------------
(* The delete handler, and the process.                                     *)

\* delete_file removes the file's vectors ...
DeleteVectors ==
    /\ exists
    /\ del = "none"
    /\ Event("delete")
    /\ vec' = <<>>
    /\ del' = "unlink"
    /\ UNCHANGED <<rows, exists, disk, queue, asked, wk, left>>

\* ... the stored bytes ...
Unlink ==
    /\ del = "unlink"
    /\ disk' = FALSE
    /\ del' = "row"
    /\ UNCHANGED <<rows, vec, exists, queue, asked, wk, left>>
    /\ NoEvent

\* ... and the row, whose cascade waits for rows the job has locked.
DeleteRow ==
    /\ del \in {"row", "blocked"}
    /\ IF wk.locked \/ left.locked
       THEN /\ del = "row"
            /\ del' = "blocked"
            /\ UNCHANGED <<rows, exists>>
       ELSE /\ exists' = FALSE
            /\ rows' = <<>>
            /\ del' = "none"
    /\ UNCHANGED <<vec, disk, queue, asked, wk, left>>
    /\ NoEvent

InSwap == wk.pc \in {"upsert", "surplus", "commit"}

\* SIGTERM cancels the task and requeues the job; the transaction rolls back.
Shutdown ==
    /\ wk.pc # "idle"
    /\ Event(IF InSwap THEN "stop_in_swap" ELSE "shutdown")
    /\ queue' = <<wk.all>> \o queue
    /\ EndJob
    /\ UNCHANGED <<rows, vec, exists, disk, asked, left, del>>

\* The worker is killed and restarted: the job is lost.
Kill ==
    /\ wk.pc # "idle"
    /\ Event(IF InSwap THEN "stop_in_swap" ELSE "kill")
    /\ EndJob
    /\ UNCHANGED <<rows, vec, exists, disk, queue, asked, left, del>>

\* A heartbeat fails under the job: the loop calls the job failed and goes on,
\* and the task goes on too, beside the next job.  So do the jobs of a second
\* worker (--scale worker=N).
SecondJob ==
    /\ wk.pc # "idle"
    /\ left.pc = "idle"
    /\ Event("overlap")
    /\ left' = wk
    /\ EndJob
    /\ UNCHANGED <<rows, vec, exists, disk, queue, asked, del>>

\* The other of two jobs makes the next steps.
Switch ==
    /\ left.pc # "idle"
    /\ wk' = left
    /\ left' = wk
    /\ UNCHANGED <<rows, vec, exists, disk, queue, asked, del>>
    /\ NoEvent

JobStep ==
    \/ StartJob
    \/ \E o \in Outcomes : ReadPage(o[1], o[2])
    \/ SkipPage
    \/ PageTimeout
    \/ SelectOld
    \/ DeleteOld
    \/ UpsertNew
    \/ DeleteSurplus
    \/ CommitPage
    \/ Deadlock
    \/ FinishJob

Next ==
    \/ \E all \in BOOLEAN : Request(all)
    \/ JobStep
    \/ Hang
    \/ StoreError
    \/ DeleteVectors
    \/ Unlink
    \/ DeleteRow
    \/ Shutdown
    \/ Kill
    \/ SecondJob
    \/ Switch

Spec == Init /\ [][Next]_vars

\* The worker takes its next step, the delete handler its own, and of two jobs
\* neither is forgotten: the event loop, or the other process, runs both.
Fairness ==
    /\ SF_vars(JobStep)
    /\ WF_vars(Switch)
    /\ WF_vars(Unlink \/ DeleteRow)

FairSpec == Spec /\ Fairness

-----------------------------------------------------------------------------
(* Properties.                                                              *)

\* A page of the file is all of one reading: whatever failed or stopped, its
\* committed rows are every piece of that reading, once each, so no citation
\* quotes a page half replaced (one transaction per page in extract_file).  Voided
\* by two jobs of the file side by side ("overlap"): one that selected a page
\* before the other committed more pieces of it, and deletes after, leaves the
\* surplus of the other's reading beside its own.
WholePages ==
    exists /\ "overlap" \notin faults => \A p \in Pages :
        LET here == {i \in DOMAIN rows : rows[i].page = p}
        IN  \E i \in here :
                /\ Cardinality(here) = rows[i].text.n
                /\ {rows[j].text : j \in here} =
                      {Piece(p, rows[i].text.reading, k, rows[i].text.n) :
                          k \in 1..rows[i].text.n}

\* Between pages and jobs, rows and vectors agree: the same ids, each with the
\* text that was embedded.  A reading may have more or fewer pieces than the one
\* it replaces; the indexes it takes collide with no other page's.  Voided by an
\* error, a stop or a delete request that meets the vector calls of a page, and by
\* two jobs side by side.
RowsMatchVectors ==
    \/ wk.pc \in {"surplus", "commit"}
    \/ faults \cap {"store_error", "stop_in_swap", "delete", "overlap"} # {}
    \/ vec = [i \in DOMAIN rows |-> rows[i].text]

\* Every queued job ends, whatever page hangs, fails or is deleted under it:
\* the worker is free for the next one, two jobs at once included.
JobsFinish == (queue # <<>>) ~> (queue = <<>> /\ wk.pc = "idle" /\ left.pc = "idle")
=============================================================================
