-------------------------------- MODULE Golden --------------------------------
(***************************************************************************)
(* The retrieval gate: a project's golden question set, the rag_eval runs  *)
(* that score it (services/golden.py, api/v1/golden.py) and the worker     *)
(* jobs that start and process them (worker/main.py).                      *)
(*                                                                         *)
(* Two kinds of job share one Redis list: an index job ends with a hook    *)
(* that may queue a run, and an eval job processes a run.  A run is a row  *)
(* committed before its job is pushed, so the table and the list can       *)
(* disagree; nothing sweeps this table, and a run that lost its job is     *)
(* only ever ignored by its age.                                           *)
(*                                                                         *)
(* A golden set is a model value with a number of questions; a run's       *)
(* outcome is the number of questions it hit.  Recalls are integers in     *)
(* units of 1/10000, the four decimals the code rounds them to.            *)
(***************************************************************************)
EXTENDS Integers, Sequences

CONSTANTS
    Files,      \* documents of the project
    Sets,       \* golden sets the project may point at
    N,          \* the number of questions of each set
    Hits,       \* how many questions a run may hit
    Workers,    \* worker processes
    Client,     \* the user who asks for a run with POST .../golden/run
    None,
    Events,     \* which environment events a behaviour may contain
    MaxEvents,  \* bound on the number of those events
    MaxRuns     \* bound on the number of rag_eval_runs rows

Unit == 10000
REGRESSION_FLOOR == 500
BASELINE_RUNS == 3

ASSUME GoldenAssumption ==
    /\ N \in [Sets -> 1..200]
    /\ Hits \subseteq Nat
    /\ Client \notin Workers
    /\ None \notin Sets

VARIABLES
    golden,     \* projects.golden_dataset_id
    uploaded,   \* files whose index job has been queued
    indexed,    \* files whose status is indexed
    runs,       \* rag_eval_runs in the order of created_at
    aged,       \* how many of them are older than STALE_RUN_AFTER
    queue,      \* adapta:job_queue
    st,         \* the coroutine of each worker and of the client's request
    given,      \* runs POST .../golden/run has answered the client with
    asking,     \* the client waits for one of them to end
    hooked,     \* files the hook has accounted for with a run
    events,     \* how many environment events there have been
    faults      \*   ... and of which kinds

vars == <<golden, uploaded, indexed, runs, aged, queue, st, given, asking,
          hooked, events, faults>>

Callers == Workers \cup {Client}
Final == {"succeeded", "failed"}

JobOf(r) == [kind |-> "rag_eval", id |-> r]

Idle == [pc |-> "idle", job |-> None, ds |-> None, run |-> 0]

\* RagEvalRun as queue_run creates it.  saw and against are history: the files
\* indexed when the run started, and the runs it was judged against.
NewRun(ds) ==
    [ds |-> ds, status |-> "queued", hits |-> 0, regression |-> FALSE,
     saw |-> {}, against |-> <<>>]

Init ==
    /\ golden = None
    /\ uploaded = {}
    /\ indexed = {}
    /\ runs = <<>>
    /\ aged = 0
    /\ queue = <<>>
    /\ st = [c \in Callers |-> Idle]
    /\ given = {}
    /\ asking = FALSE
    /\ hooked = {}
    /\ events = 0
    /\ faults = {}

Event(e) ==
    /\ e \in Events
    /\ events < MaxEvents
    /\ events' = events + 1
    /\ faults' = faults \cup {e}

NoEvent == UNCHANGED <<events, faults>>

-----------------------------------------------------------------------------
(* Scoring.                                                                 *)

\* round(x / y, 4): the integers nearest to Unit * x / y, both at a tie, where
\* the float's last bit decides.
Rounded(x, y) == {r \in (Unit * x) \div y .. (Unit * x) \div y + 1 :
                     2 * (r * y - Unit * x) \in -y..y}

\* run.recall of hits out of n questions.  No tie at four decimals unless 32
\* divides n; the least candidate is then Python's choice up to one unit.
Recall(h, n) == CHOOSE r \in Rounded(h, n) : \A q \in Rounded(h, n) : r <= q

\* Twice statistics.median of a window of at most three recalls.
TwiceMedian(w) ==
    CASE Len(w) = 1 -> 2 * w[1]
      [] Len(w) = 2 -> w[1] + w[2]
      [] Len(w) = 3 -> 2 * CHOOSE m \in {w[1], w[2], w[3]} :
                            /\ \E i, j \in 1..3 : i # j /\ w[i] <= m /\ w[j] <= m
                            /\ \E i, j \in 1..3 : i # j /\ w[i] >= m /\ w[j] >= m

\* The possible verdicts of judge on h hits of n questions after the recalls
\* in previous, newest first: the drop below the median, rounded to four
\* decimals, exceeds both the floor and one question's share.
Judge(h, n, previous) ==
    LET window == previous
        drop == n * TwiceMedian(window) - 2 * Unit * h     \* times 2n units
        Drops == {d \in drop \div (2 * n) .. drop \div (2 * n) + 1 :
                     2 * (2 * n * d - drop) \in -(2 * n)..(2 * n)}
    IN  IF window = <<>> THEN {FALSE}
        ELSE {flag \in BOOLEAN : \E d \in Drops :
                 flag <=> d > REGRESSION_FLOOR /\ d * n > Unit}

\* ORDER BY created_at DESC LIMIT BASELINE_RUNS over the runs in S.
Newest(S) ==
    CHOOSE q \in UNION {[1..m -> S] : m \in 0..BASELINE_RUNS} :
        /\ \A j, k \in DOMAIN q : j < k => q[j] > q[k]
        /\ \A i \in S :
              \/ \E k \in DOMAIN q : q[k] = i
              \/ Len(q) = BASELINE_RUNS /\ \A k \in DOMAIN q : q[k] > i

\* Mutant: the runs of every golden set of the project are compared.
PreviousAnySet(r) ==
    Newest({i \in DOMAIN runs : i # r /\ runs[i].status = "succeeded"})

\* The runs process_run compares with, newest first: other succeeded runs of
\* the project on the same golden set.
Previous(r) ==
    Newest({i \in DOMAIN runs :
               i # r /\ runs[i].status = "succeeded" /\ runs[i].ds = runs[r].ds})

-----------------------------------------------------------------------------
(* Runs are created by POST .../golden/run and by the worker's hook.        *)

\* Mutant: a run blocks new ones however old it is.
ActiveRunNeverStale(states) ==
    LET fresh == {i \in DOMAIN runs : runs[i].status \in states}
    IN  IF fresh = {} THEN 0 ELSE CHOOSE i \in fresh : \A j \in fresh : j <= i

\* active_run: the newest run in one of these states that is not stale, or 0.
ActiveRun(states) ==
    LET fresh == {i \in aged + 1 .. Len(runs) : runs[i].status \in states}
    IN  IF fresh = {} THEN 0 ELSE CHOOSE i \in fresh : \A j \in fresh : j <= i

\* set_golden_set with a file or a dataset whose questions parse; a set that
\* does not parse is refused and its upload removed.
SetGoldenSet(ds) ==
    /\ golden # ds
    /\ golden' = ds
    /\ IF golden = None THEN NoEvent ELSE Event("new_set")
    /\ UNCHANGED <<uploaded, indexed, runs, aged, queue, st, given, asking, hooked>>

\* The client decides it wants the gate's verdict (once).
Ask ==
    /\ ~asking
    /\ given = {}
    /\ asking' = TRUE
    /\ UNCHANGED <<golden, uploaded, indexed, runs, aged, queue, st, given, hooked>>
    /\ NoEvent

\* run_golden up to queue_run: refused without a golden set, answered with the
\* active run if there is one, else a run is about to be created.
RunGolden ==
    LET active == ActiveRun({"queued", "running"})
    IN  /\ asking
        /\ st[Client].pc = "idle"
        /\ asking' = (golden # None)
        /\ given' = IF golden # None /\ active # 0 THEN given \cup {active} ELSE given
        /\ st' = IF golden # None /\ active = 0
                 THEN [st EXCEPT ![Client] = [Idle EXCEPT !.pc = "create", !.ds = golden]]
                 ELSE st
        /\ UNCHANGED <<golden, uploaded, indexed, runs, aged, queue, hooked>>
        /\ NoEvent

\* Mutant: the hook is content with a running run, as the endpoint is.
EnqueueAfterIndexAnyActive(w) ==
    LET f == st[w].job.id
        active == ActiveRun({"queued", "running"})
        wanted == f \in indexed /\ golden # None
    IN  /\ st[w].pc = "hook"
        /\ st' = [st EXCEPT ![w] = IF wanted /\ active = 0
                                   THEN [@ EXCEPT !.pc = "create", !.ds = golden]
                                   ELSE Idle]
        /\ hooked' = IF wanted /\ active # 0 THEN hooked \cup {f} ELSE hooked
        /\ UNCHANGED <<golden, uploaded, indexed, runs, aged, queue, given, asking>>
        /\ NoEvent

\* enqueue_after_index up to queue_run, in one worker's index job of file f.
\* A queued run will see the file's chunks when it starts; a running one may
\* not.
EnqueueAfterIndex(w) ==
    LET f == st[w].job.id
        queued == ActiveRun({"queued"})
        wanted == f \in indexed /\ golden # None
    IN  /\ st[w].pc = "hook"
        /\ st' = [st EXCEPT ![w] = IF wanted /\ queued = 0
                                   THEN [@ EXCEPT !.pc = "create", !.ds = golden]
                                   ELSE Idle]
        /\ hooked' = IF wanted /\ queued # 0 THEN hooked \cup {f} ELSE hooked
        /\ UNCHANGED <<golden, uploaded, indexed, runs, aged, queue, given, asking>>
        /\ NoEvent

\* queue_run, first half: the row is committed before its job exists.
CreateRun(c) ==
    /\ st[c].pc = "create"
    /\ Len(runs) < MaxRuns
    /\ runs' = Append(runs, NewRun(st[c].ds))
    /\ st' = [st EXCEPT ![c].pc = "enqueue", ![c].run = Len(runs')]
    /\ UNCHANGED <<golden, uploaded, indexed, aged, queue, given, asking, hooked>>
    /\ NoEvent

\* queue_run raises: the request ends with an error, the hook swallows it.
Raised(c) ==
    /\ st' = [st EXCEPT ![c] = Idle]
    /\ asking' = (asking /\ c # Client)
    /\ hooked' = IF c = Client THEN hooked ELSE hooked \cup {st[c].job.id}
    /\ UNCHANGED given

\* Postgres fails before the push: in the reads of the hook or in the commit, or
\* the row is there and the commit's reply was lost, or db.refresh raises.
QueueRunRaises(c) ==
    /\ st[c].pc \in {"hook", "create"}
    /\ Event("db")
    /\ \/ runs' = runs
       \/ /\ st[c].pc = "create" /\ Len(runs) < MaxRuns
          /\ runs' = Append(runs, NewRun(st[c].ds))
    /\ Raised(c)
    /\ UNCHANGED <<golden, uploaded, indexed, aged, queue>>

\* What follows queue_run in its two callers: the response, or the job's end.
Answered(c) ==
    /\ st' = [st EXCEPT ![c] = Idle]
    /\ given' = IF c = Client THEN given \cup {st[c].run} ELSE given
    /\ hooked' = IF c = Client THEN hooked ELSE hooked \cup {st[c].job.id}

\* queue_run, second half: the job is pushed.
EnqueueRun(c) ==
    /\ st[c].pc = "enqueue"
    /\ queue' = Append(queue, JobOf(st[c].run))
    /\ Answered(c)
    /\ UNCHANGED <<golden, uploaded, indexed, runs, aged, asking>>
    /\ NoEvent

\* Mutant: the error is logged and the run left as it is.
EnqueueFailsQuietly(c) ==
    /\ st[c].pc = "enqueue"
    /\ Event("redis_down")
    /\ Answered(c)
    /\ asking' = (asking /\ c # Client)
    /\ UNCHANGED <<golden, uploaded, indexed, runs, aged, queue>>

\* ... or the push raises, having taken effect or not, and the run is marked failed.
EnqueueFails(c) ==
    /\ st[c].pc = "enqueue"
    /\ Event("redis_down")
    /\ queue' \in {queue, Append(queue, JobOf(st[c].run))}
    /\ runs' = [runs EXCEPT ![st[c].run].status = "failed"]
    /\ Answered(c)
    /\ asking' = (asking /\ c # Client)
    /\ UNCHANGED <<golden, uploaded, indexed, aged>>

\* ... or the commit of that mark fails too, and the run stays queued.
EnqueueFailsTwice(c) ==
    /\ st[c].pc = "enqueue"
    /\ Event("redis_and_db")
    /\ Raised(c)
    /\ UNCHANGED <<golden, uploaded, indexed, runs, aged, queue>>

-----------------------------------------------------------------------------
(* The worker.                                                              *)

\* An upload queues the file's index job (modelled in full in Indexing).
Upload(f) ==
    /\ f \notin uploaded
    /\ uploaded' = uploaded \cup {f}
    /\ queue' = Append(queue, [kind |-> "index", id |-> f])
    /\ UNCHANGED <<golden, indexed, runs, aged, st, given, asking, hooked>>
    /\ NoEvent

\* worker_loop pops the next job and _run_job dispatches on its kind.
Dequeue(w) ==
    /\ st[w].pc = "idle"
    /\ queue # <<>>
    /\ queue' = Tail(queue)
    /\ st' = [st EXCEPT ![w] = [Idle EXCEPT
                 !.pc = IF Head(queue).kind = "index" THEN "index" ELSE "start",
                 !.job = Head(queue)]]
    /\ UNCHANGED <<golden, uploaded, indexed, runs, aged, given, asking, hooked>>
    /\ NoEvent

\* The index job commits its chunks, or ends without them; then the hook.
IndexFile(w, ok) ==
    /\ st[w].pc = "index"
    /\ indexed' = IF ok THEN indexed \cup {st[w].job.id} ELSE indexed \ {st[w].job.id}
    /\ st' = [st EXCEPT ![w].pc = "hook"]
    /\ UNCHANGED <<golden, uploaded, runs, aged, queue, given, asking, hooked>>
    /\ NoEvent

\* process_run commits status running, whatever the status was.
StartRun(w) ==
    LET r == st[w].job.id
    IN  /\ st[w].pc = "start"
        /\ runs' = [runs EXCEPT ![r].status = "running", ![r].saw = indexed]
        /\ st' = [st EXCEPT ![w].pc = "retrieve"]
        /\ UNCHANGED <<golden, uploaded, indexed, aged, queue, given, asking, hooked>>
        /\ NoEvent

\* Redis or Postgres raises under the job: in the GET after the BLPOP or the
\* running mark of the job, in a statement of _index_file or of process_run.  The
\* loop drops the job or marks it failed; the run keeps the status it has, or gets
\* the one whose commit lost its reply.
JobRaises(w) ==
    LET r == st[w].job.id
    IN  /\ st[w].pc \in {"index", "start", "retrieve"}
        /\ Event(IF st[w].pc = "start" THEN "raises_at_start" ELSE "raises")
        /\ \/ runs' = runs
           \/ st[w].pc = "start" /\ runs' = [runs EXCEPT ![r].status = "running"]
        /\ st' = [st EXCEPT ![w] = Idle]
        /\ UNCHANGED <<golden, uploaded, indexed, aged, queue, given, asking, hooked>>

\* A run that ends is what the client given this run waited for.
End(w, r) ==
    /\ st' = [st EXCEPT ![w].pc = "report"]
    /\ asking' = (asking /\ r \notin given)

\* _fail: nothing is indexed, or retrieval raises.
FailRun(w) ==
    LET r == st[w].job.id
    IN  /\ st[w].pc = "retrieve"
        /\ \/ indexed = {} /\ NoEvent
           \/ Event("retrieval_error")
        /\ runs' = [runs EXCEPT ![r].status = "failed"]
        /\ End(w, r)
        /\ UNCHANGED <<golden, uploaded, indexed, aged, queue, given, hooked>>

\* Every question is retrieved and scored, the verdict is computed against the
\* previous runs, and the run is committed.
FinishRun(w, h) ==
    LET r == st[w].job.id
        n == N[runs[r].ds]
        against == Previous(r)
        recalls == [k \in DOMAIN against |-> Recall(runs[against[k]].hits, n)]
    IN  /\ st[w].pc = "retrieve"
        /\ indexed # {}
        /\ h <= n
        /\ \E flag \in Judge(h, n, recalls) :
              runs' = [runs EXCEPT ![r] = [@ EXCEPT
                          !.status = "succeeded", !.hits = h, !.regression = flag,
                          !.against = [k \in DOMAIN against |->
                                          [ds |-> runs[against[k]].ds,
                                           hits |-> runs[against[k]].hits]]]]
        /\ End(w, r)
        /\ UNCHANGED <<golden, uploaded, indexed, aged, queue, given, hooked>>
        /\ NoEvent

\* _rag_eval_job records the job's success in Redis; a cancellation here sends
\* a finished run back to the queue.
ReportRun(w) ==
    /\ st[w].pc = "report"
    /\ st' = [st EXCEPT ![w] = Idle]
    /\ UNCHANGED <<golden, uploaded, indexed, runs, aged, queue, given, asking, hooked>>
    /\ NoEvent

-----------------------------------------------------------------------------
(* The environment.                                                         *)

\* The run's job is in the list, in the hands of a worker or about to be pushed.
HasJob(r) ==
    \/ \E k \in DOMAIN queue : queue[k] = JobOf(r)
    \/ \E w \in Workers : st[w].job = JobOf(r)
    \/ \E c \in Callers : st[c].pc = "enqueue" /\ st[c].run = r

\* The clock: the oldest fresh run that has not ended passes STALE_RUN_AFTER
\* (the age of an ended run is never looked at).  For a run whose job is alive
\* that takes a backlog of a quarter of an hour.
Age ==
    LET open == {i \in aged + 1 .. Len(runs) : runs[i].status \notin Final}
        oldest == CHOOSE i \in open : \A j \in open : i <= j
    IN  /\ open # {}
        /\ IF HasJob(oldest) THEN Event("backlog") ELSE NoEvent
        /\ aged' = oldest
        /\ UNCHANGED <<golden, uploaded, indexed, runs, queue, st, given, asking, hooked>>

\* SIGTERM cancels the worker's task; the job returns to the front of the list.
\* A hook cancelled inside queue_run leaves its row queued without a job.
Shutdown(w) ==
    /\ st[w].pc # "idle"
    /\ Event(IF st[w].pc = "enqueue" THEN "shutdown_in_push" ELSE "shutdown")
    /\ queue' = <<st[w].job>> \o queue
    /\ st' = [st EXCEPT ![w] = Idle]
    /\ UNCHANGED <<golden, uploaded, indexed, runs, aged, given, asking, hooked>>

\* A process is killed and restarted, or Redis fails as a stopping worker gives
\* its job back: what its coroutine held is gone.
Kill(c) ==
    /\ st[c].pc # "idle"
    /\ Event("kill")
    /\ st' = [st EXCEPT ![c] = Idle]
    /\ UNCHANGED <<golden, uploaded, indexed, runs, aged, queue, given, asking, hooked>>

WorkerStep(w) ==
    \/ Dequeue(w)
    \/ \E ok \in BOOLEAN : IndexFile(w, ok)
    \/ EnqueueAfterIndex(w)
    \/ StartRun(w)
    \/ FailRun(w)
    \/ \E h \in Hits : FinishRun(w, h)
    \/ ReportRun(w)

QueueRun(c) == CreateRun(c) \/ EnqueueRun(c) \/ EnqueueFails(c)

Next ==
    \/ \E ds \in Sets : SetGoldenSet(ds)
    \/ \E f \in Files : Upload(f)
    \/ Ask
    \/ RunGolden
    \/ \E c \in Callers : QueueRun(c)
    \/ \E w \in Workers : WorkerStep(w)
    \/ Age
    \/ \E w \in Workers : Shutdown(w)
    \/ \E c \in Callers : Kill(c) \/ QueueRunRaises(c) \/ EnqueueFailsTwice(c)
    \/ \E w \in Workers : JobRaises(w)

Spec == Init /\ [][Next]_vars

\* Both processes keep running, the client repeats its request while it has no
\* answer, and time passes.
Fairness ==
    /\ WF_vars(RunGolden)
    /\ \A c \in Callers : WF_vars(QueueRun(c))
    /\ \A w \in Workers : WF_vars(WorkerStep(w))
    /\ WF_vars(Age)

FairSpec == Spec /\ Fairness

-----------------------------------------------------------------------------
(* Properties.                                                              *)

LostRun == {"kill", "shutdown_in_push", "db", "redis_and_db", "raises_at_start"}

\* A queued run has its job in the list, in a worker's hands before it started,
\* or in the coroutine about to push it: queue_run marks a run it could not
\* enqueue as failed ("instead of leaving it queued").  What does leave one queued
\* without a job: a process that is killed, or told to stop between the commit and
\* the push; Postgres failing there (db.refresh is outside the try) or, with Redis,
\* at the commit of that mark; and Redis or Postgres failing between the BLPOP and
\* the commit of running (LostRun).
QueuedHasJob ==
    \A r \in DOMAIN runs :
        runs[r].status = "queued" =>
            \/ \E k \in DOMAIN queue : queue[k] = JobOf(r)
            \/ \E w \in Workers : st[w].pc = "start" /\ st[w].job = JobOf(r)
            \/ \E c \in Callers : st[c].pc = "enqueue" /\ st[c].run = r
            \/ faults \cap LostRun # {}

\* One run per burst of uploads is enough: a file whose index job has gone
\* through the hook is covered by a run that started after the file was
\* indexed, or by one that has not started yet.  Holds with two workers, over
\* shutdowns, failing runs, stale runs and a changing golden set; what leaves a
\* run without a job, and a push that failed, lose the run.
IndexedIsGated ==
    \A f \in hooked \cap indexed :
        \/ \E r \in DOMAIN runs : runs[r].status = "queued" \/ f \in runs[r].saw
        \/ faults \cap (LostRun \cup {"redis_down"}) # {}

\* The verdict follows the questions: a run is compared only with runs of its
\* own golden set; hitting as many questions as every run of the window never
\* flags it; two questions fewer than each of them always does, while two
\* questions are more than the floor (fewer than 40 questions).
JudgedFairly ==
    \A r \in DOMAIN runs :
        LET x == runs[r]
            seen == {x.against[k].hits : k \in DOMAIN x.against}
        IN  x.status = "succeeded" =>
                /\ \A k \in DOMAIN x.against : x.against[k].ds = x.ds
                /\ (\A h \in seen : x.hits >= h) => ~x.regression
                /\ (seen # {} /\ N[x.ds] < 40 /\ \A h \in seen : x.hits <= h - 2)
                      => x.regression

\* "A single flipped question never raises the chip" (services/golden.py): at
\* most one question fewer than every run of the window is not flagged.
FlipIsNoise ==
    \A r \in DOMAIN runs :
        LET x == runs[r]
        IN  (\A k \in DOMAIN x.against : x.hits >= x.against[k].hits - 1) => ~x.regression

\* A client that keeps asking for a run gets a finished one, or an error: a run
\* whose job was lost blocks the request only until it is stale.
RequestServed == asking ~> ~asking
=============================================================================
