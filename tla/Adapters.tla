------------------------------- MODULE Adapters -------------------------------
(***************************************************************************)
(* The life of an imported LoRA adapter and of the endpoint that serves    *)
(* one: upload and delete (api/v1/adapters.py), the worker's adapter job   *)
(* (worker/main.py, services/adapters.py, core/adapter_conversion.py) with *)
(* the gate's rule (services/eval_gate.py), the app's startup sweep        *)
(* (services/maintenance.py), creation and promotion of the endpoint with  *)
(* the audit trail (api/v1/endpoints.py), for one fine-tune project.       *)
(*                                                                         *)
(* Postgres runs at READ COMMITTED: an action is one statement, or the     *)
(* flush and commit of a session, which writes only what the session       *)
(* changed.  The worker's loop and the job records in Redis are those of   *)
(* module Indexing; here a job is an id in the list or in a worker's hands.*)
(***************************************************************************)
EXTENDS Integers, Sequences, FiniteSets

CONSTANTS
    Adapters,       \* adapter ids (uuid4: an id is used once)
    Contents,       \* what an upload may hold, with its eval set
    Peft,           \* contents that are a PEFT zip; the others are GGUF files
    Flaw,           \* the stage of the job that rejects each content, or "none"
    Score, Base,    \* score of adapter and bare base on the eval set
    MinImprovement, Floor,  \* settings.eval_min_improvement, eval_absolute_floor
    Delta,          \* their difference, as floating point rounds it
    Eps,            \* _EPS: what that rounding may take from it
    BaseModel,      \* the project's base model
    OllamaMap,      \* bases with a tag in settings.ollama_model_map
    Reqs,           \* requests the app serves at a time
    None,           \* no adapter
    Events,         \* which environment events a behaviour may contain
    MaxEvents,      \* bound on the number of those events
    MaxRequests     \* bound on the number of requests

ASSUME AdaptersAssumption ==
    /\ Peft \subseteq Contents
    /\ None \notin Adapters /\ Contents # {}
    /\ Flaw \in [Contents -> {"none", "dataset", "convert", "probe"}]
    /\ \A c \in Contents : Flaw[c] = "convert" => c \in Peft
    /\ Score \in [Contents -> Int] /\ Base \in [Contents -> Int]
    /\ MinImprovement \in Nat /\ Floor \in Int /\ Eps \in Nat
    /\ Delta \in [Contents -> Int]
    /\ \A c \in Contents : Score[c] - Base[c] - Delta[c] \in -Eps..Eps
    /\ MaxEvents \in Nat /\ MaxRequests \in Nat

VARIABLES
    row,        \* the adapters table; status "absent" where there is no row
    made,       \* adapters.created_at: when its upload's transaction began
    content,    \* what was uploaded under each id
    disk,       \* adapters_dir/{id}: what it holds
    endpoint,   \* endpoints.adapter_id of the project; None without an endpoint
    trail,      \* adapter_events, in the order of the commits
    clock,      \* transactions begun by requests
    req,        \* each request: where it is, the adapter it is about, when its
                \* transaction began, the action promote_adapter will record
    app,        \* the app process: "down", "sweep" or "up"
    stuck,      \* adapters the sweep read as processing
    queue,      \* adapta:job_queue
    wpc,        \* where the worker is
    job,        \* the adapter in its hands
    snap,       \* process_adapter's session: the row as last read or written
    metrics,    \* what evaluate returned
    events,     \* number of environment events so far
    seen        \* their kinds

reqVars == <<clock, req, made, content>>
appVars == <<app, stuck>>
workVars == <<wpc, job, snap, metrics>>
envVars == <<events, seen>>
vars == <<row, disk, endpoint, trail, reqVars, appVars, queue, workVars, envVars>>

Status == {"absent", "uploaded", "processing", "passed", "failed"}
Metrics == {"none", "pass", "fail"}
Rows == [status : Status, gguf : BOOLEAN, reason : BOOLEAN, metrics : Metrics]
NoRow == [status |-> "absent", gguf |-> FALSE, reason |-> FALSE, metrics |-> "none"]
Moment == 0..MaxRequests
EventRows == [adapter : Adapters \cup {None}, action : {"promote", "rollback"},
              at : Moment, done : Moment]
ReqPc == {"idle", "commit", "enqueue", "refuse", "drop", "remove", "unlink", "unlink_peft",
          "create", "bind", "promote", "served", "rebind"}
Requests == [pc : ReqPc, adp : Adapters \cup {None}, at : Moment,
             label : {"promote", "rollback"}]
NoRequest == [pc |-> "idle", adp |-> None, at |-> 0, label |-> "promote"]
WorkPc == {"down", "idle", "read", "mark", "convert", "write", "converted",
           "probe", "score", "decide", "fail", "report"}

TypeOK ==
    /\ row \in [Adapters -> Rows]
    /\ made \in [Adapters -> Moment]
    /\ content \in [Adapters -> Contents]
    /\ disk \in [Adapters -> {"none", "peft", "partial", "whole"}]
    /\ endpoint \in Adapters \cup {None}
    /\ trail \in Seq(EventRows)
    /\ clock \in Moment
    /\ req \in [Reqs -> Requests]
    /\ app \in {"down", "sweep", "up"}
    /\ stuck \in SUBSET Adapters
    /\ queue \in Seq(Adapters)
    /\ wpc \in WorkPc
    /\ job \in Adapters \cup {None}
    /\ snap \in Rows
    /\ metrics \in Metrics
    /\ events \in 0..MaxEvents

Init ==
    /\ row = [a \in Adapters |-> NoRow]
    /\ made = [a \in Adapters |-> 0]
    /\ content = [a \in Adapters |-> CHOOSE c \in Contents : TRUE]
    /\ disk = [a \in Adapters |-> "none"]
    /\ endpoint = None
    /\ trail = <<>>
    /\ clock = 0
    /\ req = [r \in Reqs |-> NoRequest]
    /\ app = "down"
    /\ stuck = {}
    /\ queue = <<>>
    /\ wpc = "down"
    /\ job = None
    /\ snap = NoRow
    /\ metrics = "none"
    /\ events = 0
    /\ seen = {}

\* An environment event the run allows, charged to the bound MaxEvents.
Event(e) ==
    /\ e \in Events
    /\ events < MaxEvents
    /\ events' = events + 1
    /\ seen' = seen \cup {e}

NoEvent == UNCHANGED envVars

Exists(a) == row[a].status # "absent"

-----------------------------------------------------------------------------
(* Requests.                                                                *)

\* Request r begins at p about a.  Its transaction begins with the first query
\* of get_current_user, and now() means this moment to every row it inserts.
Begin(r, p, a) ==
    /\ app = "up" /\ req[r].pc = "idle"
    /\ clock < MaxRequests
    /\ clock' = clock + 1
    /\ req' = [req EXCEPT ![r] = [NoRequest EXCEPT !.pc = p, !.adp = a, !.at = clock + 1]]
    /\ NoEvent
    /\ UNCHANGED <<row, endpoint, trail, appVars, queue, workVars>>

\* What no step of a request changes.
RequestFrame == UNCHANGED <<clock, made, content, appVars, workVars>>

\* Request r goes on at p.
GoTo(r, p) == req' = [req EXCEPT ![r].pc = p] /\ RequestFrame

\* Request r is answered or raises.
End(r) == req' = [req EXCEPT ![r] = NoRequest] /\ RequestFrame

\* What validate_and_store leaves in the adapter's directory.
Stored(c) == IF c \in Peft THEN "peft" ELSE "whole"

\* upload_adapter up to the commit: validate_and_store has put content c in
\* place under a fresh id.  (A refused upload leaves nothing behind.)
Upload(r, a, c) ==
    /\ made[a] = 0
    /\ Begin(r, "commit", a)
    /\ made' = [made EXCEPT ![a] = clock + 1]
    /\ content' = [content EXCEPT ![a] = c]
    /\ disk' = [disk EXCEPT ![a] = Stored(c)]

Uploaded(a) == [NoRow EXCEPT !.status = "uploaded", !.gguf = content[a] \notin Peft]

UploadCommit(r) ==
    LET a == req[r].adp IN
    /\ req[r].pc = "commit"
    /\ row' = [row EXCEPT ![a] = Uploaded(a)]
    /\ GoTo(r, "enqueue")
    /\ NoEvent
    /\ UNCHANGED <<disk, endpoint, trail, queue>>

\* The commit raises, whether or not it took effect: the files are dropped.
UploadCommitFails(r) ==
    LET a == req[r].adp IN
    /\ req[r].pc = "commit"
    /\ \/ Event("db") /\ UNCHANGED row
       \/ Event("db_reply_lost") /\ row' = [row EXCEPT ![a] = Uploaded(a)]
    /\ disk' = [disk EXCEPT ![a] = "none"]
    /\ End(r)
    /\ UNCHANGED <<endpoint, trail, queue>>

\* db.refresh raises between the commit and the enqueue: the job is never
\* enqueued and the row stays uploaded.  It also raises when the row is gone.
UploadRefreshRaises(r) ==
    /\ req[r].pc = "enqueue"
    /\ \/ Event("db_unqueued")
       \/ NoEvent /\ ~Exists(req[r].adp)
    /\ End(r)
    /\ UNCHANGED <<row, disk, endpoint, trail, queue>>

UploadEnqueue(r) ==
    /\ req[r].pc = "enqueue"
    /\ queue' = Append(queue, req[r].adp)
    /\ End(r)
    /\ NoEvent
    /\ UNCHANGED <<row, disk, endpoint, trail>>

\* The pipeline fails, or only its reply is lost: either way the upload gives up.
UploadEnqueueFails(r) ==
    /\ req[r].pc = "enqueue"
    /\ \/ Event("redis") /\ UNCHANGED queue
       \/ Event("redis_reply_lost") /\ queue' = Append(queue, req[r].adp)
    /\ GoTo(r, "refuse")
    /\ UNCHANGED <<row, disk, endpoint, trail>>

\* UPDATE ... SET status, failure_reason; raises when the row is gone.
UploadRefuse(r) ==
    LET a == req[r].adp IN
    /\ req[r].pc = "refuse"
    /\ row' = IF Exists(a)
              THEN [row EXCEPT ![a].status = "failed", ![a].reason = TRUE]
              ELSE row
    /\ End(r)
    /\ NoEvent
    /\ UNCHANGED <<disk, endpoint, trail, queue>>

\* The commit of the refusal fails: the row stays uploaded.
UploadRefuseFails(r) ==
    /\ req[r].pc = "refuse"
    /\ Event("db_unqueued")
    /\ End(r)
    /\ UNCHANGED <<row, disk, endpoint, trail, queue>>

\* delete_adapter has found the row and no endpoint bound to it.
DeleteCheck(r, a) ==
    /\ Exists(a) /\ endpoint # a
    /\ Begin(r, "drop", a)
    /\ UNCHANGED <<disk, made, content>>

\* Events keep their row when their adapter goes (ON DELETE SET NULL).
Forget(a) ==
    [i \in DOMAIN trail |->
        IF trail[i].adapter = a THEN [trail[i] EXCEPT !.adapter = None] ELSE trail[i]]

\* Mutant: endpoints.adapter_id does not hold the row back.
DeleteCommitUnchecked(r) ==
    LET a == req[r].adp IN
    /\ req[r].pc = "drop"
    /\ row' = [row EXCEPT ![a] = NoRow]
    /\ trail' = Forget(a)
    /\ GoTo(r, "remove")
    /\ NoEvent
    /\ UNCHANGED <<disk, endpoint, queue>>

\* DELETE and commit; endpoints.adapter_id refuses it for an adapter bound
\* since the check (IntegrityError).
DeleteCommit(r) ==
    LET a == req[r].adp IN
    /\ req[r].pc = "drop"
    /\ \/ /\ endpoint = a
          /\ End(r)
          /\ UNCHANGED <<row, trail>>
       \/ /\ endpoint # a
          /\ row' = [row EXCEPT ![a] = NoRow]
          /\ trail' = Forget(a)
          /\ GoTo(r, "remove")
    /\ NoEvent
    /\ UNCHANGED <<disk, endpoint, queue>>

\* The commit raises, whether or not it took effect, and the files stay.
DeleteCommitFails(r) ==
    LET a == req[r].adp IN
    /\ req[r].pc = "drop"
    /\ \/ Event("db") /\ UNCHANGED <<row, trail>>
       \/ /\ endpoint # a
          /\ Event("delete_reply_lost")
          /\ row' = [row EXCEPT ![a] = NoRow]
          /\ trail' = Forget(a)
    /\ End(r)
    /\ UNCHANGED <<disk, endpoint, queue>>

\* rmtree lists the directory, ...
DeleteList(r) ==
    /\ req[r].pc = "remove"
    /\ GoTo(r, IF disk[req[r].adp] = "peft" THEN "unlink_peft" ELSE "unlink")
    /\ NoEvent
    /\ UNCHANGED <<row, disk, endpoint, trail, queue>>

\* A GGUF that the converter created since the directory was listed.
Unlisted(r) == req[r].pc = "unlink_peft" /\ disk[req[r].adp] # "peft"

\* Mutant: a file that is being written is left there.
DeleteFilesIdle(r) ==
    /\ req[r].pc \in {"unlink", "unlink_peft"}
    /\ disk' = [disk EXCEPT ![req[r].adp] = IF @ = "partial" THEN @ ELSE "none"]
    /\ End(r)
    /\ NoEvent
    /\ UNCHANGED <<row, endpoint, trail, queue>>

\* ... and removes what it has listed; a file that is new keeps the directory
\* there, and ignore_errors hides it.
DeleteFiles(r) ==
    /\ req[r].pc \in {"unlink", "unlink_peft"}
    /\ IF Unlisted(r)
       THEN UNCHANGED <<disk, events>> /\ seen' = seen \cup {"delete_converting"}
       ELSE disk' = [disk EXCEPT ![req[r].adp] = "none"] /\ NoEvent
    /\ End(r)
    /\ UNCHANGED <<row, endpoint, trail, queue>>

Passed == {a \in Adapters : row[a].status = "passed"}

CreateBegin(r) == Begin(r, "create", None) /\ UNCHANGED <<disk, made, content>>

\* create_endpoint: no endpoint yet, and the latest adapter that passed.
CreateRead(r) ==
    /\ req[r].pc = "create"
    /\ IF endpoint = None /\ Passed # {}
       THEN \E a \in Passed :
               /\ \A b \in Passed : made[b] <= made[a]
               /\ req' = [req EXCEPT ![r].pc = "bind", ![r].adp = a]
               /\ RequestFrame
       ELSE End(r)
    /\ NoEvent
    /\ UNCHANGED <<row, disk, endpoint, trail, queue>>

\* The endpoint is bound to a and the trail says so, in one commit.
Bind(r, a, action) ==
    /\ endpoint' = a
    /\ trail' = Append(trail, [adapter |-> a, action |-> action,
                               at |-> req[r].at, done |-> clock])

\* INSERT of endpoint and event; endpoints.project_id is unique and the adapter
\* must still be there (IntegrityError, a 409 to the client).
CreateCommit(r) ==
    LET a == req[r].adp IN
    /\ req[r].pc = "bind"
    /\ IF endpoint = None /\ Exists(a)
       THEN Bind(r, a, "promote")
       ELSE UNCHANGED <<endpoint, trail>>
    /\ End(r)
    /\ NoEvent
    /\ UNCHANGED <<row, disk, queue>>

\* promote_adapter's refusals: no endpoint, not passed, already served, no GGUF.
Promotable(a) == endpoint \notin {None, a} /\ row[a].status = "passed" /\ row[a].gguf

PromoteBegin(r, a) ==
    /\ made[a] # 0
    /\ Begin(r, "promote", a)
    /\ UNCHANGED <<disk, made, content>>

PromoteRead(r) ==
    LET a == req[r].adp IN
    /\ req[r].pc = "promote"
    /\ IF Promotable(a) THEN GoTo(r, "served") ELSE End(r)
    /\ NoEvent
    /\ UNCHANGED <<row, disk, endpoint, trail, queue>>

ServedBefore(a) == \E i \in DOMAIN trail : trail[i].adapter = a

\* Mutant: the adapter served last is the only one a rollback can restore.
PromoteServedLast(r) ==
    LET a == req[r].adp IN
    /\ req[r].pc = "served"
    /\ req' = [req EXCEPT ![r].pc = "rebind",
                          ![r].label = IF endpoint = a THEN "rollback" ELSE "promote"]
    /\ RequestFrame
    /\ NoEvent
    /\ UNCHANGED <<row, disk, endpoint, trail, queue>>

PromoteServed(r) ==
    LET a == req[r].adp IN
    /\ req[r].pc = "served"
    /\ req' = [req EXCEPT ![r].pc = "rebind",
                          ![r].label = IF ServedBefore(a) THEN "rollback" ELSE "promote"]
    /\ RequestFrame
    /\ NoEvent
    /\ UNCHANGED <<row, disk, endpoint, trail, queue>>

\* UPDATE of the endpoint and INSERT of the event, refused by the foreign key
\* when the adapter is gone.  (The eviction that follows is in ModelCache.)
PromoteCommit(r) ==
    LET a == req[r].adp IN
    /\ req[r].pc = "rebind"
    /\ IF Exists(a) THEN Bind(r, a, req[r].label) ELSE UNCHANGED <<endpoint, trail>>
    /\ End(r)
    /\ NoEvent
    /\ UNCHANGED <<row, disk, queue>>

-----------------------------------------------------------------------------
(* The app process.                                                         *)

\* It dies with the requests in flight: between their commit and their next
\* step nobody takes over.
AppCrash ==
    /\ app # "down"
    /\ Event(IF \E r \in Reqs : req[r].pc \in {"enqueue", "refuse"}
             THEN "crash_unqueued"
             ELSE "app_crash")
    /\ app' = "down"
    /\ req' = [r \in Reqs |-> NoRequest]
    /\ UNCHANGED <<row, disk, endpoint, trail, clock, made, content, stuck, queue,
                   workVars>>

\* lifespan runs sweep_stuck_tasks before it serves: it reads the adapters that
\* are processing ...
SweepRead ==
    /\ app = "down"
    /\ app' = "sweep"
    /\ stuck' = {a \in Adapters : row[a].status = "processing"}
    /\ NoEvent
    /\ UNCHANGED <<row, disk, endpoint, trail, reqVars, queue, workVars>>

\* ... and fails them all, with no look at the worker.
SweepCommit ==
    /\ app = "sweep"
    /\ app' = "up"
    /\ \/ /\ NoEvent
          /\ row' = [a \in Adapters |->
                        IF a \in stuck
                        THEN [row[a] EXCEPT !.status = "failed", !.reason = TRUE]
                        ELSE row[a]]
       \/ Event("db") /\ UNCHANGED row
    /\ stuck' = {}
    /\ UNCHANGED <<disk, endpoint, trail, reqVars, queue, workVars>>

-----------------------------------------------------------------------------
(* The worker: _adapter_job and process_adapter.                            *)

\* What no step of the worker changes.
WorkerFrame == UNCHANGED <<endpoint, trail, reqVars, appVars>>

\* The worker goes on at p with its job.
Goes(p) == wpc' = p /\ UNCHANGED job

\* The worker has done with its job; the session is closed.
Leaves(p) == wpc' = p /\ job' = None /\ snap' = NoRow /\ metrics' = "none"

WorkerUp ==
    /\ wpc = "down"
    /\ Goes("idle")
    /\ NoEvent
    /\ UNCHANGED <<row, disk, queue, snap, metrics>> /\ WorkerFrame

\* BLPOP, and the job is marked running.
JobTake ==
    /\ wpc = "idle" /\ queue # <<>>
    /\ queue' = Tail(queue)
    /\ wpc' = "read" /\ job' = Head(queue)
    /\ NoEvent
    /\ UNCHANGED <<row, disk, snap, metrics>> /\ WorkerFrame

\* Redis fails between BLPOP and the running mark: the loop drops the job.
JobDropped ==
    /\ wpc = "read"
    /\ Event("redis_pop")
    /\ Leaves("idle")
    /\ UNCHANGED <<row, disk, queue>> /\ WorkerFrame

\* Mutant: an adapter that has passed or failed is processed again.
ToProcessAny(a) == Exists(a)

\* process_adapter has nothing to do for an adapter that is gone, passed or failed.
ToProcess(a) == row[a].status \in {"uploaded", "processing"}

JobRead ==
    /\ wpc = "read"
    /\ IF ToProcess(job)
       THEN Goes("mark") /\ snap' = row[job]
       ELSE Goes("report") /\ UNCHANGED snap
    /\ NoEvent
    /\ UNCHANGED <<row, disk, queue, metrics>> /\ WorkerFrame

\* What the session's UPDATE leaves: the columns it changed, as it has them;
\* the others as they are by now.
Merge(new, old) ==
    [c \in DOMAIN old |-> IF new[c] # snap[c] THEN new[c] ELSE old[c]]

\* db.commit() of the session with the row as new.  Nothing is sent when
\* nothing changed; an UPDATE of a row that is gone raises (StaleDataError),
\* past every handler of process_adapter, and fails the job.
Commit(new, p) ==
    /\ \/ /\ new # snap /\ ~Exists(job)
          /\ Leaves("idle")
          /\ UNCHANGED row
       \/ /\ new = snap \/ Exists(job)
          /\ row' = [row EXCEPT ![job] = IF new = snap THEN @ ELSE Merge(new, @)]
          /\ Goes(p)
          /\ IF p = "report" THEN snap' = NoRow /\ metrics' = "none"
             ELSE snap' = new /\ UNCHANGED metrics
    /\ NoEvent
    /\ UNCHANGED <<disk, queue>> /\ WorkerFrame

\* Where the job starts: an eval dataset that cannot gate ends it, a PEFT
\* adapter is converted first.
FirstStage(c) ==
    IF Flaw[c] = "dataset" THEN "fail" ELSE IF c \in Peft THEN "convert" ELSE "probe"

JobMark ==
    /\ wpc = "mark"
    /\ Commit([snap EXCEPT !.status = "processing", !.reason = FALSE],
              FirstStage(content[job]))

\* A step of the job that commits nothing.
JobGoes(p) ==
    /\ Goes(p)
    /\ NoEvent
    /\ UNCHANGED <<row, queue, snap>> /\ WorkerFrame

\* Mutant: the converter is started on an output that exists, and refuses.
JobConvertFresh ==
    /\ wpc = "convert"
    /\ \/ disk[job] # "peft" /\ JobGoes("fail") /\ UNCHANGED disk
       \/ /\ disk[job] = "peft"
          /\ JobGoes("write")
          /\ disk' = [disk EXCEPT ![job] = "partial"]
    /\ UNCHANGED metrics

\* A delete is taking the PEFT files away.
Vanishing(a) == \E r \in Reqs : req[r].adp = a /\ req[r].pc = "unlink_peft"

\* convert_peft_to_gguf returns a GGUF that is there as it is; otherwise it
\* starts the converter, which creates the file.
JobConvert ==
    /\ wpc = "convert"
    /\ \/ /\ disk[job] \in {"partial", "whole"}
          /\ JobGoes("converted")
          /\ UNCHANGED disk
       \/ /\ \/ disk[job] = "none"
             \/ disk[job] = "peft" /\ (Flaw[content[job]] = "convert" \/ Vanishing(job))
          /\ JobGoes("fail")
          /\ UNCHANGED disk
       \/ /\ disk[job] = "peft" /\ Flaw[content[job]] # "convert"
          /\ JobGoes("write")
          /\ disk' = [disk EXCEPT ![job] = "partial"]
    /\ UNCHANGED metrics

\* The converter ends; its output may have been deleted meanwhile.
ConvertEnd ==
    /\ wpc = "write"
    /\ IF disk[job] = "none"
       THEN JobGoes("fail") /\ UNCHANGED disk
       ELSE JobGoes("converted") /\ disk' = [disk EXCEPT ![job] = "whole"]
    /\ UNCHANGED metrics

JobConverted ==
    /\ wpc = "converted"
    /\ Commit([snap EXCEPT !.gguf = TRUE], "probe")

\* probe_load: base and LoRA load together and generate a token.
JobProbe ==
    /\ wpc = "probe"
    /\ JobGoes(IF disk[job] = "whole" /\ Flaw[content[job]] # "probe" THEN "score" ELSE "fail")
    /\ UNCHANGED <<disk, metrics>>

\* Mutant: the thresholds are compared with the rounded difference as they are.
PassesExactly(adapter, delta) ==
    delta >= MinImprovement \/ (adapter >= Floor /\ delta >= 0)

\* eval_gate.passes, of the score and of its difference to the base's.
Passes(adapter, delta) ==
    \/ delta >= MinImprovement - Eps
    \/ adapter >= Floor - Eps /\ delta >= -Eps

\* evaluate: base and adapter on the same rows.  The adapter may have been
\* evicted by the base, so a file deleted meanwhile may be missed, or not.
JobScore ==
    /\ wpc = "score"
    /\ \/ /\ JobGoes("decide")
          /\ metrics' = IF Passes(Score[content[job]], Delta[content[job]])
                        THEN "pass" ELSE "fail"
       \/ disk[job] # "whole" /\ JobGoes("fail") /\ UNCHANGED metrics
    /\ UNCHANGED disk

\* Mutant: the reason is written before the scores are looked at.
JobDecideReasons ==
    /\ wpc = "decide"
    /\ Commit([snap EXCEPT !.metrics = metrics, !.reason = TRUE,
                 !.status = IF metrics = "pass" THEN "passed" ELSE "failed"], "report")

JobDecide ==
    /\ wpc = "decide"
    /\ IF metrics = "pass"
       THEN Commit([snap EXCEPT !.metrics = metrics, !.status = "passed"], "report")
       ELSE Commit([snap EXCEPT !.metrics = metrics, !.status = "failed",
                                !.reason = TRUE], "report")

\* Anything else process_adapter's stages raise: a base that does not load, no
\* memory for it, an unreadable eval set.
JobStageRaises ==
    /\ wpc \in {"convert", "probe", "score"}
    /\ Event("node")
    /\ Goes("fail")
    /\ UNCHANGED <<row, disk, queue, snap, metrics>> /\ WorkerFrame

\* A statement or commit of process_adapter's session raises, or that of the
\* handler that would record the failure: the job fails and the row stays as it
\* is (at "convert" and "probe": as the commit left it whose reply was lost).
JobSessionRaises ==
    /\ wpc \in {"read", "mark", "convert", "converted", "probe", "decide", "fail"}
    /\ Event("db_job")
    /\ Leaves("idle")
    /\ UNCHANGED <<row, disk, queue>> /\ WorkerFrame

JobFail ==
    /\ wpc = "fail"
    /\ Commit([snap EXCEPT !.status = "failed", !.reason = TRUE], "report")

\* process_adapter has returned; the job is marked succeeded.
JobReport ==
    /\ wpc = "report"
    /\ Leaves("idle")
    /\ NoEvent
    /\ UNCHANGED <<row, disk, queue>> /\ WorkerFrame

\* Mutant: a worker without a job pushes one back.
SigtermAlwaysRequeues ==
    /\ wpc # "down"
    /\ Event(IF wpc = "write" THEN "sigterm_writing" ELSE "sigterm")
    /\ queue' = <<job>> \o queue
    /\ Leaves("down")
    /\ UNCHANGED <<row, disk>> /\ WorkerFrame

\* Mutant: a cancelled job is not pushed back.
SigtermDropsJob ==
    /\ wpc # "down"
    /\ Event(IF wpc = "write" THEN "sigterm_writing" ELSE "sigterm")
    /\ Leaves("down")
    /\ UNCHANGED <<row, disk, queue>> /\ WorkerFrame

\* SIGTERM: the task is cancelled where it is and the job goes back to the
\* front of the list.  A converter that was writing dies with the worker.
Sigterm ==
    /\ wpc # "down"
    /\ Event(IF wpc = "write" THEN "sigterm_writing" ELSE "sigterm")
    /\ queue' = IF job = None THEN queue ELSE <<job>> \o queue
    /\ Leaves("down")
    /\ UNCHANGED <<row, disk>> /\ WorkerFrame

\* SIGKILL, or out of memory: the job is lost.
WorkerKilled ==
    /\ wpc # "down"
    /\ Event("kill")
    /\ Leaves("down")
    /\ UNCHANGED <<row, disk, queue>> /\ WorkerFrame

-----------------------------------------------------------------------------
RequestStep(r) ==
    \/ UploadCommit(r) \/ UploadEnqueue(r) \/ UploadRefuse(r)
    \/ DeleteCommit(r) \/ DeleteList(r) \/ DeleteFiles(r)
    \/ CreateRead(r) \/ CreateCommit(r)
    \/ PromoteRead(r) \/ PromoteServed(r) \/ PromoteCommit(r)

AppStep == SweepRead \/ SweepCommit

WorkerStep ==
    \/ WorkerUp \/ JobTake \/ JobRead \/ JobMark
    \/ JobConvert \/ ConvertEnd \/ JobConverted
    \/ JobProbe \/ JobScore \/ JobDecide \/ JobFail \/ JobReport

Disturbance ==
    \/ AppCrash \/ JobDropped \/ JobStageRaises \/ JobSessionRaises
    \/ Sigterm \/ WorkerKilled
    \/ \E r \in Reqs : \/ UploadCommitFails(r) \/ UploadRefreshRaises(r)
                       \/ UploadEnqueueFails(r) \/ UploadRefuseFails(r)
                       \/ DeleteCommitFails(r)

Client(r) ==
    \/ CreateBegin(r)
    \/ \E a \in Adapters : \/ PromoteBegin(r, a) \/ DeleteCheck(r, a)
                           \/ \E c \in Contents : Upload(r, a, c)

Next ==
    \/ \E r \in Reqs : Client(r)
    \/ \E r \in Reqs : RequestStep(r)
    \/ AppStep
    \/ WorkerStep
    \/ Disturbance

Spec == Init /\ [][Next]_vars

-----------------------------------------------------------------------------
(* Properties.                                                              *)

\* Whatever is deleted, promoted, retried or killed beside it, the endpoint
\* serves an adapter whose row exists, whose GGUF is complete on disk, which
\* loads, and which scored well enough, never below its base beyond the rounding
\* ("only an adapter that passes is served", README; the foreign key and
\* delete_adapter's order).
ServesSound ==
    endpoint # None =>
        /\ Exists(endpoint) /\ row[endpoint].gguf /\ row[endpoint].metrics = "pass"
        /\ disk[endpoint] = "whole"
        /\ Flaw[content[endpoint]] = "none"
        /\ Score[content[endpoint]] >= Base[content[endpoint]] - 2 * Eps

\* Nobody writes with a stale view: the app has not restarted beside a running
\* job, and no upload has given up on a job that was enqueued after all.
Calm == seen \cap {"app_crash", "crash_unqueued", "redis_reply_lost"} = {}

\* The conditions of export_adapter and build_ollama_bundle.
Exportable(a) ==
    /\ row[a].status = "passed" /\ row[a].gguf
    /\ BaseModel \in OllamaMap
    /\ disk[a] \in {"partial", "whole"}

\* What is served says passed without a reason to have failed, and it can be
\* exported unless its base has no Ollama tag (export_adapter, ollama_modelfile).
ServesPassed ==
    Calm /\ endpoint # None =>
        /\ row[endpoint].status = "passed" /\ ~row[endpoint].reason
        /\ BaseModel \in OllamaMap => Exportable(endpoint)

\* Passed and failed are final (a requeued job is a no-op on them).
FinalIsFinal ==
    [][Calm' => \A a \in Adapters :
          row[a].status \in {"passed", "failed"} =>
              row'[a].status \in {row[a].status, "absent"}]_vars

\* Nothing is wrong with what was uploaded as c, and its exact scores satisfy the
\* rule of the gate's docstring.
SoundContent(c) ==
    /\ Flaw[c] = "none"
    /\ \/ Score[c] >= Base[c] + MinImprovement
       \/ Score[c] >= Floor /\ Score[c] >= Base[c]
Sound(a) == SoundContent(content[a])

\* A sound adapter, one exactly at a threshold of the gate included, fails only if
\* the node failed it, its job could not be enqueued, the app restarted beside its
\* job, or the worker was stopped while the converter was writing (passes,
\* process_adapter, sweep_stuck_tasks).
SoundPasses ==
    seen \cap {"node", "redis", "redis_reply_lost", "app_crash", "crash_unqueued",
               "sigterm_writing"} = {} =>
        \A a \in Adapters : Sound(a) => row[a].status # "failed"

\* "A requeued job is safe" (process_adapter): as long as workers are only
\* stopped in the ordinary way, a sound adapter does not fail.
RequeueIsSafe ==
    seen \subseteq {"sigterm", "sigterm_writing"} =>
        \A a \in Adapters : Sound(a) => row[a].status # "failed"

\* The audit trail tells a rollback from a promotion: a rollback restores an
\* adapter that served before, and a promotion's had not, unless the two
\* requests overlapped (promote_adapter reads the trail before it commits).
AuditLabels ==
    \A j \in DOMAIN trail : trail[j].adapter # None =>
        LET before == {i \in 1..(j - 1) : trail[i].adapter = trail[j].adapter}
        IN  /\ trail[j].action = "rollback" => before # {}
            /\ trail[j].action = "promote" =>
                  \A i \in before : trail[i].done >= trail[j].at

\* No request is about a.
Unattended(a) == \A r \in Reqs : req[r].adp # a

\* Files are on disk for a row, or for a request that will remove or commit
\* them.  Three things leave them there without a row: an app that dies in
\* between, a delete whose commit took effect and raised (delete_adapter removes
\* the files after it), and a converter that creates its output while rmtree is at
\* work on the directory.
NoStrayFiles ==
    seen \cap {"app_crash", "crash_unqueued", "delete_reply_lost", "delete_converting"} = {} =>
        \A a \in Adapters : Unattended(a) /\ ~Exists(a) => disk[a] = "none"

\* "The newest history row is what the endpoint serves" (EndpointPanel.svelte),
\* newest by created_at, as endpoint_history sorts.
NewestServes ==
    \A i \in DOMAIN trail :
        (\A j \in DOMAIN trail : trail[j].at <= trail[i].at) => trail[i].adapter = endpoint

\* A job may have been lost: killed, dropped or failed with its row unfinished,
\* or never enqueued (the app died, or Postgres failed, between the row's commit
\* and the enqueue, or at the commit of the refusal).
Lost == seen \cap {"kill", "redis_pop", "db_job", "crash_unqueued", "db_unqueued",
                   "db_reply_lost"} # {}

\* Every uploaded adapter ends passed or failed (or deleted), unless its job was lost.
AdaptersFinish ==
    \A a \in Adapters :
        row[a].status \in {"uploaded", "processing"} ~>
            row[a].status \notin {"uploaded", "processing"} \/ Lost

-----------------------------------------------------------------------------
(* Fairness: a running process takes its next step, compose restarts the    *)
(* app and operators the worker.  Clients and faults owe nothing.           *)
Fairness ==
    /\ \A r \in Reqs : WF_vars(RequestStep(r))
    /\ WF_vars(AppStep)
    /\ WF_vars(WorkerStep)

FairSpec == Spec /\ Fairness
=============================================================================
