------------------------------- MODULE Indexing -------------------------------
(***************************************************************************)
(* The document-indexing pipeline of Adapta: the app's upload and delete   *)
(* handlers (api/v1/files.py), the Redis job queue (services/jobs.py), the *)
(* worker loop with its index job (worker/main.py), and the startup sweeps *)
(* of both processes (services/maintenance.py).  Three stores are written  *)
(* by separate steps of those handlers and can disagree: the file and      *)
(* chunk rows in Postgres, the vectors in Chroma, the jobs in Redis.       *)
(*                                                                         *)
(* A file's chunks are one boolean per store: parse_and_chunk never        *)
(* returns an empty list, the chunk ids depend only on the file, and every *)
(* store call writes or removes all of them.  Each action is one segment   *)
(* of a handler between two awaits that other actors can observe.          *)
(***************************************************************************)
EXTENDS Naturals, Sequences

CONSTANTS
    Files,      \* the documents users may upload to one project
    Workers,    \* worker processes; docker-compose.yml starts one
    App,        \* the app process
    NoFile,     \* a worker without a job
    Bad,        \* documents whose parsing raises a DomainError
    Events,     \* which environment events a behaviour may contain
    MaxEvents   \* bound on the number of those events

ASSUME IndexingAssumption ==
    /\ Bad \subseteq Files
    /\ NoFile \notin Files
    /\ Workers # {}
    /\ App \notin Workers
    /\ MaxEvents \in Nat

VARIABLES
    status,     \* project_files.status; "absent" before upload, "deleted" after
    rows,       \* the file's chunk rows are committed in Postgres
    coll,       \* the project's Collection row is committed
    vec,        \* the file's vectors are in Chroma
    disk,       \* the uploaded bytes are on disk
    queue,      \* adapta:job_queue, the Redis list
    meta,       \* status field of adapta:job:<id>; the job id is the file id
    alive,      \* the heartbeat key exists
    app,        \* the app process: "down", "sweeping", "reporting" or "up"
    upl,        \* the upload request of each file, after its first commit
    del,        \* the delete request of each file
    wpc,        \* where each worker's loop is
    cur,        \* the job each worker's loop holds
    shutdown,   \* the shutdown event of each worker
    pc,         \* the index job's task of each file
    owner,      \* the worker that runs that task
    att,        \* its attempt: 1, or 2 for final=True
    retry,      \* the flag _index_file is about to return
    zombies,    \* threads whose awaiting task was cancelled
    todo,       \* files a startup sweep has selected and not yet judged
    dead,       \* files it found without a live job
    events,     \* how many environment events there have been
    seen        \*   ... and of which kinds

db == <<status, rows, coll>>
store == <<vec, disk>>
redis == <<queue, meta, alive>>
appVars == <<app, upl, del>>
loopVars == <<wpc, cur, shutdown>>
taskVars == <<pc, owner, att, retry, zombies>>
sweepVars == <<todo, dead>>
vars == <<db, store, redis, appVars, loopVars, taskVars, sweepVars, events, seen>>

Transient == {"pending", "processing"}
Row == Transient \cup {"indexed", "failed"}
Status == Row \cup {"absent", "deleted"}
Meta == {"none", "queued", "running", "succeeded", "failed"}
Sweepers == Workers \cup {App}
\* Inside index_file_by_id, hence under the deadline of _index_attempt.
Attempt == {"lookup", "mark", "prep", "persist", "upsert", "commit",
            "cleanup", "reset", "returned"}
TaskPc == Attempt \cup {"none", "start", "failfile", "ffclean", "jobfail", "succeed", "golden"}
LoopPc == {"down", "sweeping", "reporting", "idle", "popped", "busy", "requeue", "lpush", "exit"}
\* Threads of asyncio.to_thread: an upsert, or a vector cleanup, left running.
Zombie == [owner : Workers, file : Files, call : {"upsert", "delete"}]

TypeOK ==
    /\ status \in [Files -> Status]
    /\ rows \in [Files -> BOOLEAN]
    /\ coll \in BOOLEAN
    /\ vec \in [Files -> BOOLEAN]
    /\ disk \in [Files -> BOOLEAN]
    /\ queue \in Seq(Files)
    /\ meta \in [Files -> Meta]
    /\ alive \in BOOLEAN
    /\ app \in {"down", "sweeping", "reporting", "up"}
    /\ upl \in [Files -> {"none", "enqueue", "markfailed"}]
    /\ del \in [Files -> {"none", "vectors", "unlink", "row"}]
    /\ wpc \in [Workers -> LoopPc]
    /\ cur \in [Workers -> Files \cup {NoFile}]
    /\ shutdown \in [Workers -> BOOLEAN]
    /\ pc \in [Files -> TaskPc]
    /\ owner \in [Files -> Workers]
    /\ att \in [Files -> {1, 2}]
    /\ retry \in [Files -> BOOLEAN]
    /\ zombies \in SUBSET Zombie
    /\ todo \in [Sweepers -> SUBSET Files]
    /\ dead \in [Sweepers -> SUBSET Files]
    /\ events \in 0..MaxEvents
    /\ seen \subseteq Events

Init ==
    /\ status = [f \in Files |-> "absent"]
    /\ rows = [f \in Files |-> FALSE]
    /\ coll = FALSE
    /\ vec = [f \in Files |-> FALSE]
    /\ disk = [f \in Files |-> FALSE]
    /\ queue = <<>>
    /\ meta = [f \in Files |-> "none"]
    /\ alive = FALSE
    /\ app = "down"
    /\ upl = [f \in Files |-> "none"]
    /\ del = [f \in Files |-> "none"]
    /\ wpc = [w \in Workers |-> "down"]
    /\ cur = [w \in Workers |-> NoFile]
    /\ shutdown = [w \in Workers |-> FALSE]
    /\ pc = [f \in Files |-> "none"]
    /\ owner = [f \in Files |-> CHOOSE w \in Workers : TRUE]
    /\ att = [f \in Files |-> 1]
    /\ retry = [f \in Files |-> FALSE]
    /\ zombies = {}
    /\ todo = [p \in Sweepers |-> {}]
    /\ dead = [p \in Sweepers |-> {}]
    /\ events = 0
    /\ seen = {}

\* An environment event the run allows, charged to the bound MaxEvents.
Event(e) ==
    /\ e \in Events
    /\ events < MaxEvents
    /\ events' = events + 1
    /\ seen' = seen \cup {e}

NoEvent == UNCHANGED <<events, seen>>

-----------------------------------------------------------------------------
(* The app: POST /files and DELETE /files/{id}.                             *)

\* upload_file up to its commit: bytes on disk, row pending.  (A duplicate of
\* a non-failed file is refused before this.)
UploadCommit(f) ==
    /\ app = "up"
    /\ status[f] = "absent"
    /\ status' = [status EXCEPT ![f] = "pending"]
    /\ disk' = [disk EXCEPT ![f] = TRUE]
    /\ upl' = [upl EXCEPT ![f] = "enqueue"]
    /\ NoEvent
    /\ UNCHANGED <<rows, coll, vec, redis, app, del, loopVars, taskVars, sweepVars>>

\* That commit takes effect but its reply is lost: the request ends with an error
\* and nobody enqueues the job.
UploadReplyLost(f) ==
    /\ app = "up"
    /\ status[f] = "absent"
    /\ Event("db_reply_lost")
    /\ status' = [status EXCEPT ![f] = "pending"]
    /\ disk' = [disk EXCEPT ![f] = TRUE]
    /\ UNCHANGED <<rows, coll, vec, redis, appVars, loopVars, taskVars, sweepVars>>

\* JobQueue.enqueue: one MULTI sets the metadata and appends to the list.
Enqueue(f) ==
    /\ meta' = [meta EXCEPT ![f] = "queued"]
    /\ queue' = Append(queue, f)
    /\ alive' = alive

UploadEnqueue(f) ==
    /\ upl[f] = "enqueue"
    /\ Enqueue(f)
    /\ upl' = [upl EXCEPT ![f] = "none"]
    /\ NoEvent
    /\ UNCHANGED <<db, store, app, del, loopVars, taskVars, sweepVars>>

\* enqueue raises; with "redis_reply_lost" the MULTI took effect all the same.
UploadEnqueueFails(f) ==
    /\ upl[f] = "enqueue"
    /\ \/ Event("redis") /\ UNCHANGED redis
       \/ Event("redis_reply_lost") /\ Enqueue(f)
    /\ upl' = [upl EXCEPT ![f] = "markfailed"]
    /\ UNCHANGED <<db, store, app, del, loopVars, taskVars, sweepVars>>

\* The except branch: the row, if it still exists, ends failed.
UploadMarkFailed(f) ==
    /\ upl[f] = "markfailed"
    /\ status' = IF status[f] \in Row THEN [status EXCEPT ![f] = "failed"] ELSE status
    /\ upl' = [upl EXCEPT ![f] = "none"]
    /\ NoEvent
    /\ UNCHANGED <<rows, coll, store, redis, app, del, loopVars, taskVars, sweepVars>>

\* The commit of that branch fails too: the row stays as it is.
UploadMarkFails(f) ==
    /\ upl[f] = "markfailed"
    /\ Event("db")
    /\ upl' = [upl EXCEPT ![f] = "none"]
    /\ UNCHANGED <<db, store, redis, app, del, loopVars, taskVars, sweepVars>>

\* delete_file finds the row and the Collection row.
DeleteStart(f) ==
    /\ app = "up"
    /\ status[f] \in Row
    /\ del[f] = "none"
    /\ Event("delete")
    /\ del' = [del EXCEPT ![f] = IF coll THEN "vectors" ELSE "unlink"]
    /\ UNCHANGED <<db, store, redis, app, upl, loopVars, taskVars, sweepVars>>

\* delete_file_chunks, when the project had a Collection row.
DeleteVectors(f) ==
    /\ del[f] = "vectors"
    /\ vec' = [vec EXCEPT ![f] = FALSE]
    /\ del' = [del EXCEPT ![f] = "unlink"]
    /\ NoEvent
    /\ UNCHANGED <<db, disk, redis, app, upl, loopVars, taskVars, sweepVars>>

\* VectorStoreFailed ends the request before anything else changes; with
\* "chroma_reply_lost" Chroma had removed the vectors all the same.
DeleteVectorsFails(f) ==
    /\ del[f] = "vectors"
    /\ \/ Event("chroma") /\ vec' = vec
       \/ Event("chroma_reply_lost") /\ vec' = [vec EXCEPT ![f] = FALSE]
    /\ del' = [del EXCEPT ![f] = "none"]
    /\ UNCHANGED <<db, disk, redis, app, upl, loopVars, taskVars, sweepVars>>

\* The bytes; an OSError of the unlink is logged and the request goes on.
Unlink(f) ==
    /\ del[f] = "unlink"
    /\ disk' \in {disk, [disk EXCEPT ![f] = FALSE]}
    /\ del' = [del EXCEPT ![f] = "row"]
    /\ NoEvent
    /\ UNCHANGED <<db, vec, redis, app, upl, loopVars, taskVars, sweepVars>>

\* The flushed, uncommitted chunk rows of a running attempt hold a key-share
\* lock on the file row until its transaction ends.
RowLocked(f) == pc[f] \in {"upsert", "commit"}

\* DELETE with ON DELETE CASCADE, commit.
DeleteRow(f) ==
    /\ del[f] = "row"
    /\ ~RowLocked(f)
    /\ status' = [status EXCEPT ![f] = "deleted"]
    /\ rows' = [rows EXCEPT ![f] = FALSE]
    /\ del' = [del EXCEPT ![f] = "none"]
    /\ NoEvent
    /\ UNCHANGED <<coll, store, redis, app, upl, loopVars, taskVars, sweepVars>>

\* The commit fails: vectors and bytes are gone, the row stays.
DeleteRowFails(f) ==
    /\ del[f] = "row"
    /\ Event("db")
    /\ del' = [del EXCEPT ![f] = "none"]
    /\ UNCHANGED <<db, store, redis, app, upl, loopVars, taskVars, sweepVars>>

\* The app dies: its requests are gone, their open transactions roll back.
AppCrash ==
    /\ app # "down"
    /\ Event("app_crash")
    /\ app' = "down"
    /\ upl' = [f \in Files |-> "none"]
    /\ del' = [f \in Files |-> "none"]
    /\ todo' = [todo EXCEPT ![App] = {}]
    /\ dead' = [dead EXCEPT ![App] = {}]
    /\ UNCHANGED <<db, store, redis, loopVars, taskVars>>

-----------------------------------------------------------------------------
(* Startup sweeps.  The app serves, and the worker pops, only after its own. *)

TransientFiles == {f \in Files : status[f] \in Transient}

\* lifespan: sweep_stuck_files selects the transient rows.
AppStart ==
    /\ app = "down"
    /\ app' = "sweeping"
    /\ todo' = [todo EXCEPT ![App] = TransientFiles]
    /\ NoEvent
    /\ UNCHANGED <<db, store, redis, upl, del, loopVars, taskVars, dead>>

\* worker_loop before its loop: sweep_stuck_files(worker_startup=True).
WorkerStart(w) ==
    /\ wpc[w] = "down"
    /\ wpc' = [wpc EXCEPT ![w] = "sweeping"]
    /\ todo' = [todo EXCEPT ![w] = TransientFiles]
    /\ NoEvent
    /\ UNCHANGED <<db, store, redis, appVars, cur, shutdown, taskVars, dead>>

\* Mutant: the heartbeat is not asked, a running job is never live.
OnlyQueuedIsLive(p, f) == meta[f] = "queued" /\ p \in Sweepers

\* Mutant: worker_startup is ignored, a fresh heartbeat saves every running job.
WorkerSparesRunning(p, f) ==
    \/ meta[f] = "queued"
    \/ meta[f] = "running" /\ alive /\ p \in Sweepers

\* _job_is_live: queued is live; running is live only to the app's sweep, and
\* only while a heartbeat is fresh; no metadata is not live.
JobIsLive(p, f) ==
    \/ meta[f] = "queued"
    \/ meta[f] = "running" /\ p = App /\ alive

SweepJudge(p, f, live) ==
    /\ todo' = [todo EXCEPT ![p] = @ \ {f}]
    /\ dead' = [dead EXCEPT ![p] = IF live THEN @ ELSE @ \cup {f}]

SweepCheck(p, f) ==
    /\ f \in todo[p]
    /\ SweepJudge(p, f, JobIsLive(p, f))
    /\ NoEvent
    /\ UNCHANGED <<db, store, redis, appVars, loopVars, taskVars>>

\* Redis does not answer: nothing is live.
SweepCheckFails(p, f) ==
    /\ f \in todo[p]
    /\ Event("redis")
    /\ SweepJudge(p, f, FALSE)
    /\ UNCHANGED <<db, store, redis, appVars, loopVars, taskVars>>

SweepPhase(p) == IF p = App THEN app ELSE wpc[p]

SetSweepPhase(p, ph) ==
    IF p = App
    THEN app' = ph /\ wpc' = wpc
    ELSE wpc' = [wpc EXCEPT ![p] = ph] /\ app' = app

\* One commit fails every file found dead, whatever its status has become
\* since the select.  A row deleted meanwhile is an UPDATE that matches
\* nothing: skipped here, or the whole commit raises (next action).
SweepCommit(p) ==
    /\ SweepPhase(p) = "sweeping"
    /\ todo[p] = {}
    /\ status' = [f \in Files |-> IF f \in dead[p] /\ status[f] \in Row
                                  THEN "failed" ELSE status[f]]
    /\ SetSweepPhase(p, "reporting")
    /\ NoEvent
    /\ UNCHANGED <<rows, coll, store, redis, upl, del, cur, shutdown, taskVars, sweepVars>>

\* The commit raises; both callers log the exception and go on.
SweepCommitFails(p) ==
    /\ SweepPhase(p) = "sweeping"
    /\ todo[p] = {}
    /\ dead[p] # {}
    /\ \/ Event("db")
       \/ NoEvent /\ \E f \in dead[p] : status[f] \notin Row
    /\ SetSweepPhase(p, "reporting")
    /\ dead' = [dead EXCEPT ![p] = {}]
    /\ UNCHANGED <<db, store, redis, upl, del, cur, shutdown, taskVars, todo>>

\* "keep the job record honest; best effort": update_status(failed) per file.
SweepReport(p, f) ==
    /\ SweepPhase(p) = "reporting"
    /\ f \in dead[p]
    /\ \/ NoEvent /\ meta' = [meta EXCEPT ![f] = "failed"]
       \/ Event("redis") /\ meta' = meta
    /\ dead' = [dead EXCEPT ![p] = @ \ {f}]
    /\ UNCHANGED <<db, store, queue, alive, appVars, loopVars, taskVars, todo>>

\* The app starts to serve; the worker writes its heartbeat and polls.
SweepEnd(p) ==
    /\ SweepPhase(p) = "reporting"
    /\ dead[p] = {}
    /\ SetSweepPhase(p, IF p = App THEN "up" ELSE "idle")
    /\ alive' = (alive \/ p # App)
    /\ NoEvent
    /\ UNCHANGED <<db, store, queue, meta, upl, del, cur, shutdown, taskVars, sweepVars>>

\* No worker refreshes the heartbeat key and its 90 s pass.
HeartbeatExpires ==
    /\ alive
    /\ \A w \in Workers : wpc[w] \in {"down", "sweeping", "reporting", "exit"}
    /\ alive' = FALSE
    /\ NoEvent
    /\ UNCHANGED <<db, store, queue, meta, appVars, loopVars, taskVars, sweepVars>>

-----------------------------------------------------------------------------
(* The worker loop.                                                         *)

SetLoop(w, l, f) ==
    /\ wpc' = [wpc EXCEPT ![w] = l]
    /\ cur' = [cur EXCEPT ![w] = f]

\* dequeue, first half: BLPOP.  From here on only this worker knows the job.
Pop(w) ==
    /\ wpc[w] = "idle"
    /\ queue # <<>>
    /\ SetLoop(w, "popped", Head(queue))
    /\ queue' = Tail(queue)
    /\ NoEvent
    /\ UNCHANGED <<db, store, meta, alive, appVars, shutdown, taskVars, sweepVars>>

\* Mutant: the loop polls again without awaiting the task.
DispatchDetached(w) ==
    LET f == cur[w] IN
    /\ wpc[w] = "popped"
    /\ meta[f] # "none"
    /\ SetLoop(w, "idle", NoFile)
    /\ pc' = [pc EXCEPT ![f] = "start"]
    /\ owner' = [owner EXCEPT ![f] = w]
    /\ NoEvent
    /\ UNCHANGED <<db, store, redis, appVars, shutdown, att, retry, zombies, sweepVars>>

\* dequeue, second half: the metadata is read and the handler's task created.
Dispatch(w) ==
    LET f == cur[w] IN
    /\ wpc[w] = "popped"
    /\ meta[f] # "none"
    /\ SetLoop(w, "busy", f)
    /\ pc' = [pc EXCEPT ![f] = "start"]
    /\ owner' = [owner EXCEPT ![f] = w]
    /\ NoEvent
    /\ UNCHANGED <<db, store, redis, appVars, shutdown, att, retry, zombies, sweepVars>>

\* Redis fails between the BLPOP and the GET: the loop logs and polls again.
DispatchFails(w) ==
    /\ wpc[w] = "popped"
    /\ Event("redis_pop")
    /\ SetLoop(w, "idle", NoFile)
    /\ UNCHANGED <<db, store, redis, appVars, shutdown, taskVars, sweepVars>>

\* The thread a cancelled task was awaiting runs on.
Orphaned(f) ==
    IF pc[f] = "upsert" THEN {[owner |-> owner[f], file |-> f, call |-> "upsert"]}
    ELSE IF pc[f] \in {"cleanup", "ffclean"}
         THEN {[owner |-> owner[f], file |-> f, call |-> "delete"]}
         ELSE {}

\* Mutant: SIGTERM requeues the job without cancelling its task.
TerminateUncancelled(w) ==
    /\ wpc[w] = "busy"
    /\ ~shutdown[w]
    /\ Event("sigterm")
    /\ shutdown' = [shutdown EXCEPT ![w] = TRUE]
    /\ wpc' = [wpc EXCEPT ![w] = "requeue"]
    /\ UNCHANGED <<db, store, redis, appVars, cur, taskVars, sweepVars>>

\* SIGTERM or SIGINT: the shutdown event is set and a task not yet done cancelled.
\* A job popped afterwards, out of a BLPOP already waiting, still runs.
Terminate(w) ==
    /\ wpc[w] \in {"idle", "popped", "busy"}
    /\ ~shutdown[w]
    /\ Event("sigterm")
    /\ shutdown' = [shutdown EXCEPT ![w] = TRUE]
    /\ IF wpc[w] = "busy" /\ pc[cur[w]] # "jobfail"
       THEN /\ wpc' = [wpc EXCEPT ![w] = "requeue"]
            /\ pc' = [pc EXCEPT ![cur[w]] = "none"]
            /\ zombies' = zombies \cup Orphaned(cur[w])
       ELSE UNCHANGED <<wpc, pc, zombies>>
    /\ UNCHANGED <<db, store, redis, appVars, cur, owner, att, retry, sweepVars>>

\* JobQueue.requeue, first half: update_status(queued).
RequeueStatus(w) ==
    /\ wpc[w] = "requeue"
    /\ meta' = [meta EXCEPT ![cur[w]] = "queued"]
    /\ wpc' = [wpc EXCEPT ![w] = "lpush"]
    /\ NoEvent
    /\ UNCHANGED <<db, store, queue, alive, appVars, cur, shutdown, taskVars, sweepVars>>

OwnTasks(w) == {f \in Files : owner[f] = w /\ pc[f] # "none"}

\* The loop is left; asyncio.run cancels every task that still runs.
LeaveLoop(w) ==
    /\ SetLoop(w, "exit", NoFile)
    /\ pc' = [f \in Files |-> IF f \in OwnTasks(w) THEN "none" ELSE pc[f]]
    /\ zombies' = zombies \cup UNION {Orphaned(f) : f \in OwnTasks(w)}

\* Mutant: the loop breaks after the status update, without the LPUSH.
RequeueStatusOnly(w) ==
    /\ wpc[w] = "lpush"
    /\ LeaveLoop(w)
    /\ NoEvent
    /\ UNCHANGED <<db, store, redis, appVars, shutdown, owner, att, retry, sweepVars>>

\* JobQueue.requeue, second half: LPUSH to the front; then the loop breaks.
RequeuePush(w) ==
    /\ wpc[w] = "lpush"
    /\ queue' = <<cur[w]>> \o queue
    /\ LeaveLoop(w)
    /\ NoEvent
    /\ UNCHANGED <<db, store, meta, alive, appVars, shutdown, owner, att, retry, sweepVars>>

\* BLPOP returned nothing and the shutdown event is set.
LoopEnds(w) ==
    /\ wpc[w] = "idle"
    /\ shutdown[w]
    /\ LeaveLoop(w)
    /\ NoEvent
    /\ UNCHANGED <<db, store, redis, appVars, shutdown, owner, att, retry, sweepVars>>

\* asyncio.run waits for the threads of the default executor, then exits.
WorkerExits(w) ==
    /\ wpc[w] = "exit"
    /\ \A z \in zombies : z.owner # w
    /\ wpc' = [wpc EXCEPT ![w] = "down"]
    /\ shutdown' = [shutdown EXCEPT ![w] = FALSE]
    /\ NoEvent
    /\ UNCHANGED <<db, store, redis, appVars, cur, taskVars, sweepVars>>

\* The worker holds a job that Redis calls queued and the list does not hold.
HoldsQueuedJob(w) == cur[w] # NoFile /\ meta[cur[w]] = "queued"

\* SIGKILL, OOM or a lost host: tasks and threads die, transactions roll back.
WorkerCrash(w) ==
    /\ wpc[w] # "down"
    /\ Event(IF HoldsQueuedJob(w) THEN "kill_holding_queued" ELSE "kill")
    /\ SetLoop(w, "down", NoFile)
    /\ shutdown' = [shutdown EXCEPT ![w] = FALSE]
    /\ pc' = [f \in Files |-> IF f \in OwnTasks(w) THEN "none" ELSE pc[f]]
    /\ zombies' = {z \in zombies : z.owner # w}
    /\ todo' = [todo EXCEPT ![w] = {}]
    /\ dead' = [dead EXCEPT ![w] = {}]
    /\ UNCHANGED <<db, store, redis, appVars, owner, att, retry>>

\* queue.heartbeat() raises while a task is in flight: the generic handler
\* marks the job failed and the loop goes on, with the task still running.
HeartbeatFails(w) ==
    /\ wpc[w] = "busy"
    /\ Event("heartbeat")
    /\ meta' = [meta EXCEPT ![cur[w]] = "failed"]
    /\ SetLoop(w, "idle", NoFile)
    /\ UNCHANGED <<db, store, queue, alive, appVars, shutdown, taskVars, sweepVars>>

\* The job that w holds is called queued and is not on the list any more.
LeavesQueued(w) == cur[w] # NoFile /\ meta'[cur[w]] = "queued" /\ queue' = queue

\* Redis raises where the loop does not catch it, and worker_loop ends: in the
\* heartbeat before the loop or at its top; in the update_status of a handler,
\* after a failed job or a failed heartbeat; in either half of requeue.  The call
\* took effect or not.  (A heartbeat failing after a cancellation leads to the
\* generic handler instead of the requeue, and the shutdown event ends the loop.)
LoopRaises(w) ==
    /\ \/ wpc[w] = "reporting" /\ dead[w] = {} /\ UNCHANGED <<queue, meta>>
       \/ wpc[w] = "idle" /\ UNCHANGED <<queue, meta>>
       \/ /\ wpc[w] \in {"busy", "requeue"}
          /\ meta' \in {meta, [meta EXCEPT ![cur[w]] = "failed"]}
          /\ queue' = queue
       \/ /\ wpc[w] = "requeue"
          /\ meta' = [meta EXCEPT ![cur[w]] = "queued"]
          /\ queue' = queue
       \/ /\ wpc[w] = "lpush"
          /\ queue' \in {queue, <<cur[w]>> \o queue}
          /\ meta' = meta
    /\ Event(IF LeavesQueued(w) THEN "redis_holding_queued" ELSE "redis")
    /\ LeaveLoop(w)
    /\ UNCHANGED <<db, store, alive, appVars, shutdown, owner, att, retry, sweepVars>>

-----------------------------------------------------------------------------
(* The index job of one file: _run_index_job, _index_attempt, _index_file.  *)

Goto(f, l) == pc' = [pc EXCEPT ![f] = l]

\* A step of the task that stays inside the worker process.
TaskOnly(f) == NoEvent /\ UNCHANGED <<redis, appVars, loopVars, owner, zombies, sweepVars>>

JobStart(f) ==
    /\ pc[f] = "start"
    /\ meta' = [meta EXCEPT ![f] = "running"]
    /\ att' = [att EXCEPT ![f] = 1]
    /\ Goto(f, "lookup")
    /\ NoEvent
    /\ UNCHANGED <<db, store, queue, alive, appVars, loopVars, owner, retry, zombies, sweepVars>>

\* Mutant: index_file_by_id does not look at the status.
LookupAnyStatus(f) ==
    /\ pc[f] = "lookup"
    /\ Goto(f, IF status[f] \in Row THEN "mark" ELSE "succeed")
    /\ TaskOnly(f)
    /\ UNCHANGED <<db, store, att, retry>>

\* index_file_by_id: a row that is gone or already terminal is skipped.
Lookup(f) ==
    /\ pc[f] = "lookup"
    /\ Goto(f, IF status[f] \in Transient THEN "mark" ELSE "succeed")
    /\ TaskOnly(f)
    /\ UNCHANGED <<db, store, att, retry>>

\* _index_file finds the row again, whatever its status, and commits processing.
Mark(f) ==
    /\ pc[f] = "mark"
    /\ IF status[f] \in Row
       THEN status' = [status EXCEPT ![f] = "processing"] /\ Goto(f, "prep")
       ELSE status' = status /\ Goto(f, "returned")
    /\ TaskOnly(f)
    /\ UNCHANGED <<rows, coll, store, att, retry>>

\* Raise inside _index_file: retry = transient and not final.
Raise(f, transient, l) ==
    /\ retry' = [retry EXCEPT ![f] = transient /\ att[f] = 1]
    /\ Goto(f, l)

\* Collection row, model and dimension guards, ensure_collection, parse, context.
Prep(f) ==
    /\ pc[f] = "prep"
    /\ f \notin Bad
    /\ disk[f]
    /\ coll' = TRUE
    /\ Goto(f, "persist")
    /\ TaskOnly(f)
    /\ UNCHANGED <<status, rows, store, att, retry>>

\* A typed error repeats on every attempt; missing bytes are an OSError; Chroma
\* failing in ensure_collection is transient too.
PrepRaises(f) ==
    /\ pc[f] = "prep"
    /\ \/ NoEvent /\ f \in Bad /\ disk[f] /\ Raise(f, FALSE, "reset")
       \/ NoEvent /\ ~disk[f] /\ Raise(f, TRUE, "reset")
       \/ Event("chroma") /\ Raise(f, TRUE, "reset")
    /\ coll' = TRUE
    /\ UNCHANGED <<status, rows, store, redis, appVars, loopVars, owner, att, zombies, sweepVars>>

\* Postgres fails before the upsert: in the select of index_file_by_id the error
\* leaves the handler, in _index_file it is transient.  vectors_written is False,
\* so the vectors of an earlier, interrupted attempt are not looked for.
EarlyDbRaises(f) ==
    /\ pc[f] \in {"lookup", "mark", "prep", "persist"}
    /\ Event("db_early")
    /\ IF pc[f] = "lookup" THEN Goto(f, "jobfail") /\ retry' = retry
                           ELSE Raise(f, TRUE, "reset")
    /\ coll' \in {coll, coll \/ pc[f] = "prep"}
    /\ UNCHANGED <<status, rows, store, redis, appVars, loopVars, owner, att, zombies, sweepVars>>

\* Mutant: persist_chunks commits the chunk rows instead of flushing them.
PersistCommitsRows(f) ==
    /\ pc[f] = "persist"
    /\ rows' = [rows EXCEPT ![f] = @ \/ status[f] \in Row]
    /\ Goto(f, "upsert")
    /\ TaskOnly(f)
    /\ UNCHANGED <<status, coll, store, att, retry>>

\* Mutant: the row is committed indexed before the vectors are written.
PersistSkipsUpsert(f) ==
    /\ pc[f] = "persist"
    /\ status[f] \in Row
    /\ Goto(f, "commit")
    /\ TaskOnly(f)
    /\ UNCHANGED <<db, store, att, retry>>

\* persist_chunks flushes the chunk rows; a missing parent row, or rows already
\* there, is an IntegrityError, which counts as transient.
Persist(f) ==
    /\ pc[f] = "persist"
    /\ IF status[f] \in Row /\ ~rows[f]
       THEN Goto(f, "upsert") /\ retry' = retry
       ELSE Raise(f, TRUE, "reset")
    /\ TaskOnly(f)
    /\ UNCHANGED <<db, store, att>>

\* The thread of _do_index upserts the vectors; vectors_written = True.
Upsert(f) ==
    /\ pc[f] = "upsert"
    /\ vec' = [vec EXCEPT ![f] = TRUE]
    /\ Goto(f, "commit")
    /\ TaskOnly(f)
    /\ UNCHANGED <<db, disk, att, retry>>

\* The upsert raises, so vectors_written stays False; with
\* "chroma_reply_lost" Chroma had stored the vectors all the same.
UpsertRaises(f) ==
    /\ pc[f] = "upsert"
    /\ \/ Event("chroma") /\ vec' = vec
       \/ Event("chroma_reply_lost") /\ vec' = [vec EXCEPT ![f] = TRUE]
    /\ Raise(f, TRUE, "reset")
    /\ UNCHANGED <<db, disk, redis, appVars, loopVars, owner, att, zombies, sweepVars>>

\* status = indexed and the chunk rows, in one commit.
Commit(f) ==
    /\ pc[f] = "commit"
    /\ status' = [status EXCEPT ![f] = "indexed"]
    /\ rows' = [rows EXCEPT ![f] = TRUE]
    /\ Goto(f, "returned")
    /\ TaskOnly(f)
    /\ UNCHANGED <<coll, store, att, retry>>

\* Mutant: vectors_written is forgotten, the except branch skips the cleanup.
CommitRaisesUncleaned(f) ==
    /\ pc[f] = "commit"
    /\ Event("db")
    /\ Raise(f, TRUE, "reset")
    /\ UNCHANGED <<db, store, redis, appVars, loopVars, owner, att, zombies, sweepVars>>

\* The commit raises: the rows roll back and the vectors must go.
CommitRaises(f) ==
    /\ pc[f] = "commit"
    /\ Event("db")
    /\ Raise(f, TRUE, "cleanup")
    /\ UNCHANGED <<db, store, redis, appVars, loopVars, owner, att, zombies, sweepVars>>

\* The commit takes effect but its reply is lost: the except branch takes the
\* vectors of a file that is indexed, and the status back.
CommitReplyLost(f) ==
    /\ pc[f] = "commit"
    /\ Event("db_reply_lost")
    /\ status' = [status EXCEPT ![f] = "indexed"]
    /\ rows' = [rows EXCEPT ![f] = TRUE]
    /\ Raise(f, TRUE, "cleanup")
    /\ UNCHANGED <<coll, store, redis, appVars, loopVars, owner, att, zombies, sweepVars>>

\* delete_file_chunks in the except branch, best effort.
Cleanup(f) ==
    /\ pc[f] = "cleanup"
    /\ \/ NoEvent /\ vec' = [vec EXCEPT ![f] = FALSE]
       \/ Event("chroma") /\ vec' = vec
    /\ Goto(f, "reset")
    /\ UNCHANGED <<db, disk, redis, appVars, loopVars, owner, att, retry, zombies, sweepVars>>

\* The second session: pending when a retry follows, failed otherwise.
Reset(f) ==
    /\ pc[f] = "reset"
    /\ status' = IF status[f] \in Row
                 THEN [status EXCEPT ![f] = IF retry[f] THEN "pending" ELSE "failed"]
                 ELSE status
    /\ IF retry[f]
       THEN Goto(f, "lookup") /\ att' = [att EXCEPT ![f] = 2]
       ELSE Goto(f, "returned") /\ att' = att
    /\ TaskOnly(f)
    /\ UNCHANGED <<rows, coll, store, retry>>

\* That session, or the one of _fail_file, fails: the exception leaves the handler.
ResetRaises(f) ==
    /\ pc[f] \in {"reset", "failfile"}
    /\ Event("db")
    /\ Goto(f, "jobfail")
    /\ UNCHANGED <<db, store, redis, appVars, loopVars, owner, att, retry, zombies, sweepVars>>

\* The attempt returns False, within its deadline.
Return(f) ==
    /\ pc[f] = "returned"
    /\ Goto(f, "succeed")
    /\ TaskOnly(f)
    /\ UNCHANGED <<db, store, att, retry>>

\* Mutant: no time-out is final, the attempts are only counted.
TimeoutNeverFinal(f) ==
    /\ pc[f] \in Attempt
    /\ Event("timeout")
    /\ zombies' = zombies \cup Orphaned(f)
    /\ Goto(f, "lookup") /\ att' = [att EXCEPT ![f] = @ + 1]
    /\ UNCHANGED <<db, store, redis, appVars, loopVars, owner, retry, sweepVars>>

\* wait_for cancels the attempt at whatever it awaits.  CancelledError is not
\* an Exception: no cleanup runs.  The first time-out is a retry.
Timeout(f) ==
    /\ pc[f] \in Attempt
    /\ Event("timeout")
    /\ zombies' = zombies \cup Orphaned(f)
    /\ IF att[f] = 1
       THEN Goto(f, "lookup") /\ att' = [att EXCEPT ![f] = 2]
       ELSE Goto(f, "failfile") /\ att' = att
    /\ UNCHANGED <<db, store, redis, appVars, loopVars, owner, retry, sweepVars>>

\* _fail_file: a row still transient ends failed; otherwise nothing to do.
FailFile(f) ==
    /\ pc[f] = "failfile"
    /\ IF status[f] \in Transient
       THEN status' = [status EXCEPT ![f] = "failed"] /\ Goto(f, "ffclean")
       ELSE status' = status /\ Goto(f, "jobfail")
    /\ TaskOnly(f)
    /\ UNCHANGED <<rows, coll, store, att, retry>>

\* _fail_file drops stray vectors, best effort; then Timeout is raised.
FailFileClean(f) ==
    /\ pc[f] = "ffclean"
    /\ \/ NoEvent /\ vec' = [vec EXCEPT ![f] = FALSE]
       \/ Event("chroma") /\ vec' = vec
    /\ Goto(f, "jobfail")
    /\ UNCHANGED <<db, disk, redis, appVars, loopVars, owner, att, retry, zombies, sweepVars>>

\* The task is over; the loop, if it still awaits it, polls again.
EndTask(f, awaited) ==
    /\ Goto(f, "none")
    /\ IF awaited THEN SetLoop(owner[f], "idle", NoFile) ELSE UNCHANGED <<wpc, cur>>
    /\ NoEvent
    /\ UNCHANGED <<db, store, queue, alive, appVars, shutdown, owner, att, retry, zombies, sweepVars>>

Awaited(f) == cur[owner[f]] = f

\* update_status(succeeded).
JobSucceeds(f) ==
    /\ pc[f] = "succeed"
    /\ meta' = [meta EXCEPT ![f] = "succeeded"]
    /\ Goto(f, "golden")
    /\ NoEvent
    /\ UNCHANGED <<db, store, queue, alive, appVars, loopVars, owner, att, retry, zombies, sweepVars>>

\* golden.enqueue_after_index, which swallows its errors and may queue a
\* rag_eval job but no index job.
JobReturns(f) ==
    /\ pc[f] = "golden"
    /\ meta' = meta
    /\ EndTask(f, Awaited(f))

\* update_status raises at either end of the job, having taken effect or not.
JobStatusRaises(f) ==
    /\ pc[f] \in {"start", "succeed"}
    /\ Event("redis")
    /\ meta' \in {meta, [meta EXCEPT ![f] = IF pc[f] = "start" THEN "running" ELSE "succeeded"]}
    /\ Goto(f, "jobfail")
    /\ UNCHANGED <<db, store, queue, alive, appVars, loopVars, owner, att, retry, zombies, sweepVars>>

\* The exception reaches the loop, which marks the job failed; the exception of
\* a task the loop has let go of reaches nobody.
JobFails(f) ==
    /\ pc[f] = "jobfail"
    /\ meta' = IF Awaited(f) THEN [meta EXCEPT ![f] = "failed"] ELSE meta
    /\ EndTask(f, Awaited(f))

\* A thread left behind finishes its Chroma call, or the call fails.
ZombieEnds(z) ==
    /\ zombies' = zombies \ {z}
    /\ \/ vec' = [vec EXCEPT ![z.file] = (z.call = "upsert")]
       \/ vec' = vec
    /\ NoEvent
    /\ UNCHANGED <<db, disk, redis, appVars, loopVars, pc, owner, att, retry, sweepVars>>

-----------------------------------------------------------------------------
TaskStep(f) ==
    \/ JobStart(f) \/ Lookup(f) \/ Mark(f) \/ Prep(f) \/ PrepRaises(f) \/ EarlyDbRaises(f)
    \/ Persist(f) \/ Upsert(f) \/ UpsertRaises(f) \/ Commit(f) \/ CommitRaises(f)
    \/ CommitReplyLost(f) \/ Cleanup(f) \/ Reset(f) \/ ResetRaises(f) \/ Return(f) \/ FailFile(f)
    \/ FailFileClean(f) \/ JobSucceeds(f) \/ JobReturns(f) \/ JobStatusRaises(f)
    \/ JobFails(f)

LoopStep(w) ==
    \/ WorkerStart(w) \/ Pop(w) \/ Dispatch(w) \/ RequeueStatus(w)
    \/ RequeuePush(w) \/ LoopEnds(w) \/ WorkerExits(w)

SweepStep(p) ==
    \/ \E f \in Files : SweepCheck(p, f) \/ SweepReport(p, f)
    \/ SweepCommit(p)
    \/ SweepEnd(p)

RequestStep(f) ==
    \/ UploadEnqueue(f) \/ UploadMarkFailed(f) \/ UploadMarkFails(f)
    \/ DeleteVectors(f) \/ Unlink(f) \/ DeleteRow(f)

\* What clients and the environment do.
UserStep(f) == UploadCommit(f) \/ UploadReplyLost(f) \/ DeleteStart(f)

Disturbance ==
    \/ AppCrash
    \/ HeartbeatExpires
    \/ \E f \in Files : \/ UploadEnqueueFails(f) \/ DeleteVectorsFails(f)
                        \/ DeleteRowFails(f) \/ Timeout(f)
    \/ \E w \in Workers : \/ DispatchFails(w) \/ Terminate(w)
                          \/ WorkerCrash(w) \/ HeartbeatFails(w) \/ LoopRaises(w)
    \/ \E p \in Sweepers : \/ SweepCommitFails(p)
                           \/ \E f \in Files : SweepCheckFails(p, f)

Next ==
    \/ AppStart
    \/ \E f \in Files : UserStep(f) \/ RequestStep(f) \/ TaskStep(f)
    \/ \E w \in Workers : LoopStep(w)
    \/ \E p \in Sweepers : SweepStep(p)
    \/ \E z \in zombies : ZombieEnds(z)
    \/ Disturbance

Spec == Init /\ [][Next]_vars

-----------------------------------------------------------------------------
(* Properties.                                                              *)

\* Where the index job of f is: in the upload request that will enqueue it, at
\* a position of the Redis list, with a worker between the list and a task, or
\* in a running task.
Places(f) ==
    {<<"upload", f>> : x \in {y \in {f} : upl[y] = "enqueue"}}
    \cup {<<"list", i>> : i \in {j \in DOMAIN queue : queue[j] = f}}
    \cup {<<"worker", w>> : w \in {v \in Workers :
              cur[v] = f /\ wpc[v] \in {"popped", "requeue", "lpush"}}}
    \cup {<<"task", f>> : x \in {y \in {f} : pc[y] # "none"}}

\* A job is in one place only: no pop, requeue, cancellation or crash ever
\* gives a file two index tasks at a time (dequeue, requeue, worker_loop).
JobHeldOnce == \A f \in Files : \A p, q \in Places(f) : p = q

\* The chunk rows follow the status: an indexed file has its chunk rows, and a
\* file has chunk rows only once indexed, or when a stale writer called it
\* failed afterwards (_index_file's one commit, rollback on every other path).
\* After a commit whose reply was lost the except branch takes the status back,
\* to pending or failed, and the rows stay.
RowsMatchStatus ==
    \A f \in Files :
        /\ status[f] = "indexed" => rows[f]
        /\ rows[f] /\ "db_reply_lost" \notin seen => status[f] \in {"indexed", "failed"}

\* A delete request may end, or be cut off, between the vectors and the row.
DeleteCut == "delete" \in seen /\ seen \cap {"app_crash", "chroma_reply_lost", "db"} # {}

\* An indexed file is searchable: its vectors are in Chroma until a delete
\* request that is still running has taken them ("Postgres never records chunks
\* that have no vectors", persist_chunks).  Three things void it: a deadline (the
\* cleanup thread of a cancelled attempt may run on beside the retry), a commit
\* whose reply is lost, and a delete that loses Chroma's reply, its process or its
\* last commit.
IndexedIsSearchable ==
    seen \cap {"timeout", "db_reply_lost"} = {} /\ ~DeleteCut =>
        \A f \in Files : status[f] = "indexed" => vec[f] \/ del[f] \in {"unlink", "row"}

\* A job record that says queued is telling the truth: the job is in the list
\* or in some process' hands.  _job_is_live relies on it, so otherwise no sweep
\* and no worker ever touches the file again.  Three things break it, each with
\* the job in a worker's hands and the record at queued: the GET after the BLPOP
\* fails, the worker is killed, or a Redis call fails that the loop does not
\* catch (requeue's LPUSH, or the failed mark of a job that never ran).
QueuedJobExists ==
    seen \cap {"redis_pop", "kill_holding_queued", "redis_holding_queued"} = {} =>
        \A f \in Files :
            status[f] \in Transient /\ meta[f] = "queued" => Places(f) # {}

\* Nobody is working on f any more.
Settled(f) ==
    /\ Places(f) = {}
    /\ upl[f] = "none" /\ del[f] = "none"
    /\ \A z \in zombies : z.file # f

\* Retrieval answers from Chroma without looking at the file's status, so once
\* everything about a failed or deleted file is over it must have no vectors
\* (cleanup in _index_file and _fail_file, delete_file).
NoStrayVectors ==
    \A f \in Files :
        Settled(f) /\ status[f] \in {"failed", "deleted"} => ~vec[f]

\* What the code does achieve of it: a failed commit, a requeue and a retry of
\* _index_file clean up after themselves, and so do attempts that fail before
\* their upsert, unless an attempt was interrupted before them: vectors_written
\* knows nothing of the vectors an earlier attempt had left.
CleansUp ==
    (seen \subseteq {"db", "sigterm"} \/ seen \subseteq {"db", "db_early"}) => NoStrayVectors

\* A worker runs one index task at a time ("one file at a time", upload_file),
\* until a heartbeat raises and the loop abandons its task (worker_loop).
OneTaskPerWorker ==
    "heartbeat" \notin seen =>
        \A f, g \in Files :
            pc[f] # "none" /\ pc[g] # "none" /\ owner[f] = owner[g] => f = g

\* A file is failed by its own task or when it has none: while the sweep can
\* read Redis and the job records are true, a startup sweep never fails a file
\* that a live worker is indexing (_job_is_live).
SweepSparesRunning ==
    [][seen' \cap {"redis", "redis_holding_queued", "redis_reply_lost", "heartbeat"} = {} =>
          \A f \in Files :
             status[f] \in Transient /\ status'[f] = "failed" /\ pc[f] # "none"
                 => pc'[f] # pc[f]]_vars

\* No writer with a stale view of the file is about: the app has not restarted
\* beside a running worker (its sweep writes rows it read earlier), no upload has
\* given up on a job that was enqueued after all, and no attempt on a commit that
\* was made after all.
Calm == seen \cap {"app_crash", "redis_reply_lost", "db_reply_lost"} = {}

\* The file's status behaves as FileLifecycle promises its readers: no step of
\* any handler, sweep or retry takes another transition.
Life == INSTANCE FileLifecycle WITH st <- status, calm <- Calm
Lifecycle == Life!Spec

\* A job lost while Redis still calls it queued (see QueuedJobExists) is spared by
\* every later sweep; a write of Redis or Postgres that fails, or an upload that
\* loses its commit's reply, leaves the file to a restart that may not come; and a
\* file deleted under a sweep makes its commit, with every other file's, fail.
Stranding ==
    {"kill_holding_queued", "redis_pop", "redis_holding_queued", "redis", "db", "db_early",
     "db_reply_lost", "delete"}

\* Every uploaded file reaches an end state: over kills, signals and restarts of
\* either process, a failing or slow Chroma, timeouts, lost replies and an
\* expired heartbeat, some sweep or the job itself ends it.
FilesFinish ==
    \A f \in Files :
        status[f] \in Transient ~>
            (status[f] \notin Transient \/ seen \cap Stranding # {})

-----------------------------------------------------------------------------
(* Fairness: a running process takes its next step; compose restarts the    *)
(* app and operators restart the worker.  Users, faults, signals and the    *)
(* expiry of the heartbeat key owe nothing.                                 *)
Fairness ==
    /\ WF_vars(AppStart)
    /\ \A f \in Files : WF_vars(TaskStep(f)) /\ WF_vars(RequestStep(f))
    /\ \A w \in Workers : WF_vars(LoopStep(w))
    /\ \A p \in Sweepers : WF_vars(SweepStep(p))
    /\ WF_vars(\E z \in zombies : ZombieEnds(z))

FairSpec == Spec /\ Fairness
=============================================================================
