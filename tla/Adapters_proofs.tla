--------------------------- MODULE Adapters_proofs ---------------------------
(***************************************************************************)
(* Theorems about module Adapters, for any adapters, contents, requests    *)
(* and disturbances: what the endpoint serves is sound and says it passed, *)
(* the audit trail is honest, verdicts are final, files are attended, and  *)
(* a sound adapter passes.                                                 *)
(***************************************************************************)
EXTENDS Adapters, TLAPS

ReqType == [pc : ReqPc, adp : Adapters \cup {None}, at : Nat,
            label : {"promote", "rollback"}]

\* The types of what serving depends on (trail, events and seen do not matter).
STypes ==
    /\ row \in [Adapters -> Rows]
    /\ made \in [Adapters -> Nat]
    /\ clock \in Nat
    /\ content \in [Adapters -> Contents]
    /\ disk \in [Adapters -> {"none", "peft", "partial", "whole"}]
    /\ endpoint \in Adapters \cup {None}
    /\ req \in [Reqs -> ReqType]
    /\ queue \in Seq(Adapters)
    /\ wpc \in WorkPc
    /\ job \in Adapters \cup {None}
    /\ snap \in Rows
    /\ metrics \in Metrics

OnList(s, a) == \E i \in 1..Len(s) : s[i] = a

\* Neither the table nor the worker nor the list knows of a.
Unknown(a) ==
    /\ ~Exists(a)
    /\ job # a
    /\ ~OnList(queue, a)

\* An id is unknown until its upload has committed, and until then at most
\* requests to promote it, still to be refused, name it too.
FreshInv ==
    /\ \A a \in Adapters : made[a] = 0 => Unknown(a) /\ \A r \in Reqs : req[r].adp # a
    /\ \A r \in Reqs : req[r].pc = "commit" =>
          /\ Unknown(req[r].adp)
          /\ \A s \in Reqs : s # r /\ req[s].adp = req[r].adp => req[s].pc = "promote"

PassesGate(a) == Passes(Score[content[a]], Delta[content[a]])

\* A request for a delete whose row is gone.
Removing == {"remove", "unlink", "unlink_peft"}

\* A row that says its metrics passed describes a good adapter; a content that
\* cannot be converted never becomes a GGUF; a GGUF upload has its path set.
RowGood(a) ==
    /\ row[a].status = "passed" => row[a].metrics = "pass"
    /\ row[a].metrics = "pass" =>
          /\ Exists(a) /\ row[a].gguf
          /\ disk[a] = "whole" /\ Flaw[content[a]] = "none" /\ PassesGate(a)
    /\ Exists(a) /\ content[a] \notin Peft => row[a].gguf
    /\ Flaw[content[a]] = "convert" => disk[a] \in {"none", "peft"}

RowInv == \A a \in Adapters : RowGood(a)

\* Requests about to bind an adapter, or to remove its files; without an app
\* there are none, and what its sweep has read still exists.
ReqInv ==
    /\ \A r \in Reqs :
          /\ req[r].pc \notin {"idle", "create"} => req[r].adp \in Adapters
          /\ req[r].pc \in {"bind", "served", "rebind"} /\ Exists(req[r].adp)
                => row[req[r].adp].metrics = "pass"
          /\ req[r].pc \in Removing => ~Exists(req[r].adp)
          /\ app # "up" => req[r].pc = "idle"
    /\ app = "sweep" => \A a \in stuck : a \in Adapters /\ Exists(a)

InSession == {"mark", "convert", "write", "converted", "probe", "score", "decide", "fail"}

\* The job: its session has the columns only it writes, and each stage has
\* excluded the flaws of the stages before.
JobInv ==
    /\ wpc \notin {"down", "idle"} => job \in Adapters
    /\ wpc \in InSession /\ Exists(job) =>
          snap.metrics = row[job].metrics /\ snap.gguf = row[job].gguf
    /\ wpc \in InSession \ {"mark", "fail"} => Flaw[content[job]] # "dataset"
    /\ wpc \in {"write", "converted", "probe", "score", "decide"} =>
          Flaw[content[job]] # "convert"
    /\ wpc \in {"probe", "score", "decide"} /\ Exists(job) => row[job].gguf
    /\ wpc \in {"score", "decide"} =>
          Flaw[content[job]] = "none" /\ (Exists(job) => disk[job] = "whole")
    /\ wpc = "decide" => metrics = IF PassesGate(job) THEN "pass" ELSE "fail"

ServeInv == endpoint # None => row[endpoint].metrics = "pass"

SInv == STypes /\ FreshInv /\ RowInv /\ ReqInv /\ JobInv /\ ServeInv

\* The invariant holds initially.
LEMMA ServeInit == Init => SInv
<1> SUFFICES ASSUME Init PROVE SInv
  OBVIOUS
<1> USE AdaptersAssumption DEF Init
<1>1. STypes
  BY DEF STypes, NoRow, NoRequest, Rows, Status, Metrics, ReqType, ReqPc, WorkPc
<1>2. FreshInv /\ ServeInv /\ JobInv
  BY DEF FreshInv, ServeInv, JobInv, Unknown, OnList, Exists, NoRow, NoRequest, InSession
<1>3. RowInv /\ ReqInv
  BY DEF RowInv, RowGood, ReqInv, Exists, NoRow, NoRequest, Removing
<1> QED BY <1>1, <1>2, <1>3 DEF SInv

-----------------------------------------------------------------------------
(* What the steps do to requests, rows and the list.                        *)

\* Request r goes on at p, about a.
Moves(r, p, a) ==
    /\ req' \in [Reqs -> ReqType]
    /\ req'[r].pc = p /\ req'[r].adp = a
    /\ \A s \in Reqs : s # r => req'[s] = req[s]

\* The three ways a request moves.
LEMMA GoToMoves ==
  ASSUME STypes, NEW r \in Reqs, NEW p \in ReqPc, GoTo(r, p)
  PROVE  Moves(r, p, req[r].adp)
BY DEF STypes, Moves, ReqType, GoTo

LEMMA EndMoves ==
  ASSUME STypes, NEW r \in Reqs, End(r)
  PROVE  Moves(r, "idle", None)
BY DEF STypes, Moves, ReqType, End, NoRequest, ReqPc

LEMMA BeginMoves ==
  ASSUME STypes, NEW r \in Reqs, NEW p \in ReqPc, NEW a \in Adapters \cup {None},
         Begin(r, p, a)
  PROVE  Moves(r, p, a)
<1> DEFINE q == [NoRequest EXCEPT !.pc = p, !.adp = a, !.at = clock + 1]
<1>0. clock + 1 \in Nat
  BY DEF STypes
<1>1. q \in ReqType /\ q.pc = p /\ q.adp = a
  <2> DEFINE t == clock + 1
  <2>1. t \in Nat
    BY <1>0
  <2> HIDE DEF t
  <2>2. [NoRequest EXCEPT !.pc = p, !.adp = a, !.at = t] \in ReqType
    BY <2>1 DEF NoRequest, ReqType
  <2>3. q.pc = p /\ q.adp = a
    OBVIOUS
  <2> QED BY <2>2, <2>3 DEF t
<1>2. req' = [req EXCEPT ![r] = q]
  BY DEF Begin
<1> HIDE DEF q
<1> QED BY <1>1, <1>2 DEF STypes, Moves

\* The row of a becomes x.
Rewrites(a, x) ==
    /\ row' \in [Adapters -> Rows]
    /\ row'[a] = x
    /\ \A b \in Adapters : b # a => row'[b] = row[b]

\* What an upload inserts.
LEMMA UploadedRow ==
  ASSUME STypes, NEW a \in Adapters
  PROVE  /\ Uploaded(a) \in Rows
         /\ Uploaded(a).status = "uploaded" /\ Uploaded(a).metrics = "none"
         /\ content[a] \notin Peft => Uploaded(a).gguf
BY DEF Uploaded, NoRow, Rows, Status, Metrics

\* A change that matters only to readers of a status: existence and metrics
\* stay, the GGUF's path is kept, and no row becomes passed.
Mild ==
    /\ row' \in [Adapters -> Rows]
    /\ \A b \in Adapters :
          /\ Exists(b)' <=> Exists(b)
          /\ row'[b].status = "passed" => row[b].status = "passed"
          /\ row'[b].metrics = row[b].metrics
          /\ row[b].gguf => row'[b].gguf

Tame == Mild /\ \A b \in Adapters : row'[b].gguf = row[b].gguf

\* An upload that gives up, and the sweep, fail rows and do nothing else.
LEMMA RefuseTame ==
  ASSUME STypes, NEW a \in Adapters,
         row' = IF Exists(a)
                THEN [row EXCEPT ![a].status = "failed", ![a].reason = TRUE]
                ELSE row
  PROVE  Tame
<1>1. CASE ~Exists(a)
  BY <1>1 DEF STypes, Tame, Mild, Exists
<1>2. CASE Exists(a)
  <2>1. /\ row' \in [Adapters -> Rows]
        /\ row'[a].status = "failed"
        /\ row'[a].gguf = row[a].gguf /\ row'[a].metrics = row[a].metrics
        /\ \A b \in Adapters : b # a => row'[b] = row[b]
    BY <1>2 DEF STypes, Rows, Status
  <2> QED BY <1>2, <2>1 DEF Tame, Mild, Exists
<1> QED BY <1>1, <1>2

LEMMA SweepTame ==
  ASSUME STypes, ReqInv, SweepCommit
  PROVE  Tame
<1> DEFINE F(a) == [row[a] EXCEPT !.status = "failed", !.reason = TRUE]
<1>1. \A a \in Adapters :
         /\ F(a) \in Rows /\ F(a).status = "failed"
         /\ F(a).gguf = row[a].gguf /\ F(a).metrics = row[a].metrics
  BY DEF STypes, Rows, Status
<1>2. \A a \in stuck : a \in Adapters /\ row[a].status # "absent"
  BY DEF ReqInv, SweepCommit, Exists
<1>3. \/ row' = [a \in Adapters |-> IF a \in stuck THEN F(a) ELSE row[a]]
      \/ row' = row
  BY DEF SweepCommit
<1> HIDE DEF F
<1> QED BY <1>1, <1>2, <1>3 DEF STypes, Tame, Mild, Exists

\* What a commit of the job's session leaves.
LEMMA MergedRow ==
  ASSUME STypes, NEW new \in Rows, NEW old \in Rows
  PROVE  /\ Merge(new, old) \in Rows
         /\ Merge(new, old).status =
               IF new.status # snap.status THEN new.status ELSE old.status
         /\ Merge(new, old).gguf = IF new.gguf # snap.gguf THEN new.gguf ELSE old.gguf
         /\ Merge(new, old).metrics =
               IF new.metrics # snap.metrics THEN new.metrics ELSE old.metrics
BY DEF STypes, Merge, Rows

\* The session's commit: the job is over without a change, or goes on at p with
\* the columns of an existing row that it changed.
Commits(new, p) ==
    /\ row' \in [Adapters -> Rows] /\ snap' \in Rows /\ metrics' \in Metrics
    /\ \A b \in Adapters : b # job => row'[b] = row[b]
    /\ ~Exists(job) => row'[job] = row[job]
    /\ \/ row'[job] = row[job] /\ job' = None /\ wpc' = "idle"
       \/ /\ job' = job /\ wpc' = p
          /\ p # "report" => snap' = new /\ metrics' = metrics
          /\ Exists(job) =>
                /\ row'[job].status =
                      IF new.status # snap.status THEN new.status ELSE row[job].status
                /\ row'[job].gguf = IF new.gguf # snap.gguf THEN new.gguf ELSE row[job].gguf
                /\ row'[job].metrics =
                      IF new.metrics # snap.metrics THEN new.metrics ELSE row[job].metrics

\* Commit does what Commits says, and nothing outside the worker and its row.
LEMMA CommitCommits ==
  ASSUME STypes, job \in Adapters, NEW new \in Rows, NEW p \in WorkPc, Commit(new, p)
  PROVE  /\ Commits(new, p)
         /\ UNCHANGED <<disk, queue, endpoint, trail, reqVars, appVars>>
<1>1. NoRow \in Rows /\ "none" \in Metrics
  BY DEF NoRow, Rows, Status, Metrics
<1>2. UNCHANGED <<disk, queue, endpoint, trail, reqVars, appVars>>
  BY DEF Commit, WorkerFrame
<1>3. CASE /\ new # snap /\ ~Exists(job)
           /\ Leaves("idle")
           /\ UNCHANGED row
  BY <1>1, <1>2, <1>3 DEF STypes, Commits, Leaves
<1>4. CASE /\ new = snap \/ Exists(job)
           /\ row' = [row EXCEPT ![job] = IF new = snap THEN @ ELSE Merge(new, @)]
           /\ Goes(p)
           /\ IF p = "report" THEN snap' = NoRow /\ metrics' = "none"
              ELSE snap' = new /\ UNCHANGED metrics
  <2>1. row[job] \in Rows
    BY DEF STypes
  <2>2. snap' \in Rows /\ metrics' \in Metrics /\ job' = job /\ wpc' = p
        /\ (p # "report" => snap' = new /\ metrics' = metrics)
    BY <1>1, <1>4 DEF STypes, Goes
  <2>3. CASE new = snap
    <3>1. row' = row
      BY <1>4, <2>3 DEF STypes
    <3> QED BY <1>2, <2>2, <2>3, <3>1 DEF STypes, Commits
  <2>4. CASE new # snap
    <3>1. row' = [row EXCEPT ![job] = Merge(new, row[job])] /\ Exists(job)
      BY <1>4, <2>4 DEF STypes
    <3>2. row'[job] = Merge(new, row[job]) /\ row' \in [Adapters -> Rows]
      BY <3>1, <2>1, MergedRow DEF STypes
    <3> DEFINE m == Merge(new, row[job])
    <3>4. /\ m.status = IF new.status # snap.status THEN new.status ELSE row[job].status
          /\ m.gguf = IF new.gguf # snap.gguf THEN new.gguf ELSE row[job].gguf
          /\ m.metrics = IF new.metrics # snap.metrics THEN new.metrics ELSE row[job].metrics
      BY <2>1, MergedRow
    <3>5. row'[job] = m
      BY <3>2
    <3> HIDE DEF m
    <3> QED BY <1>2, <2>2, <3>1, <3>2, <3>4, <3>5 DEF Commits
  <2> QED BY <2>3, <2>4
<1> QED BY <1>2, <1>3, <1>4 DEF Commit

-----------------------------------------------------------------------------
(* Which of these changes keep which part of the invariant.                 *)

\* A request that moves about an adapter it knows, or that exists, leaves the ids
\* of uploads not yet committed unknown.
LEMMA MoveFresh ==
  ASSUME STypes, FreshInv, ReqInv, NEW r \in Reqs, NEW p, NEW a, Moves(r, p, a),
         p # "commit", made' = made,
         \/ a = None
         \/ a = req[r].adp /\ req[r].pc # "promote"
         \/ a \in Adapters /\ Exists(a)
         \/ a \in Adapters /\ made[a] # 0 /\ p = "promote",
         \A b \in Adapters : Unknown(b) /\ b # req[r].adp => Unknown(b)',
         req[r].pc = "promote" => \A b \in Adapters : Unknown(b) => Unknown(b)'
  PROVE  FreshInv'
<1>1. ASSUME NEW b \in Adapters, made[b] = 0
      PROVE  Unknown(b)' /\ \A s \in Reqs : req'[s].adp # b
  <2>1. Unknown(b) /\ \A s \in Reqs : req[s].adp # b
    BY <1>1 DEF FreshInv
  <2>2. a # b
    BY <1>1, <2>1, AdaptersAssumption DEF Unknown
  <2> QED BY <2>1, <2>2 DEF Moves
<1>2. ASSUME NEW s \in Reqs, req'[s].pc = "commit"
      PROVE  /\ Unknown(req[s].adp)'
             /\ \A t \in Reqs : t # s /\ req'[t].adp = req'[s].adp => req'[t].pc = "promote"
  <2>1. s # r /\ req'[s] = req[s] /\ req[s].pc = "commit"
    BY <1>2 DEF Moves
  <2>2. PICK b \in Adapters : b = req[s].adp
    BY <2>1 DEF ReqInv
  <2>3. Unknown(b) /\ \A t \in Reqs : t # s /\ req[t].adp = b => req[t].pc = "promote"
    BY <2>1, <2>2 DEF FreshInv
  <2>4. Unknown(b)'
    BY <2>1, <2>2, <2>3
  <2>5. a = b => p = "promote"
    BY <2>1, <2>2, <2>3, AdaptersAssumption DEF Unknown
  <2>6. ASSUME NEW t \in Reqs, t # s, req'[t].adp = b PROVE req'[t].pc = "promote"
    BY <2>3, <2>5, <2>6 DEF Moves
  <2>7. b = req'[s].adp
    BY <2>1, <2>2
  <2> QED BY <2>4, <2>6, <2>7 DEF Unknown, Exists
<1> QED BY <1>1, <1>2 DEF FreshInv

\* A request that moves keeps the promises of the others, unless it commits an
\* upload, which the others do not know.
LEMMA MoveReq ==
  ASSUME STypes, ReqInv, NEW r \in Reqs, NEW p, NEW a, Moves(r, p, a),
         app = "up", app' = "up",
         p \notin {"idle", "create"} => a \in Adapters,
         p \in {"bind", "served", "rebind"} /\ Exists(a)' => row'[a].metrics = "pass",
         p \in Removing => ~Exists(a)',
         \A b \in Adapters :
            \/ Exists(b)' => Exists(b) /\ row'[b].metrics = row[b].metrics
            \/ \A s \in Reqs : s # r /\ req[s].adp = b => req[s].pc = "promote"
  PROVE  ReqInv'
<1>1. ASSUME NEW s \in Reqs, s # r
      PROVE  /\ req'[s].pc \notin {"idle", "create"} => req'[s].adp \in Adapters
             /\ req'[s].pc \in {"bind", "served", "rebind"} /\ Exists(req[s].adp)'
                   => row'[req'[s].adp].metrics = "pass"
             /\ req'[s].pc \in Removing => ~Exists(req[s].adp)'
  BY <1>1 DEF ReqInv, Moves, Exists, Removing
<1>2. /\ req'[r].pc \notin {"idle", "create"} => req'[r].adp \in Adapters
      /\ req'[r].pc \in {"bind", "served", "rebind"} /\ Exists(req[r].adp)'
            => row'[req'[r].adp].metrics = "pass"
      /\ req'[r].pc \in Removing => ~Exists(req[r].adp)'
  BY DEF Moves, Exists
<1> QED BY <1>1, <1>2 DEF ReqInv

\* Mild changes keep what rows promise ...
LEMMA MildRows ==
  ASSUME STypes, RowInv, Mild, UNCHANGED <<content, disk>>
  PROVE  RowInv'
<1>1. ASSUME NEW b \in Adapters PROVE RowGood(b)'
  <2>1. PassesGate(b)' <=> PassesGate(b)
    BY DEF PassesGate
  <2> QED BY <2>1 DEF RowInv, RowGood, Mild
<1> QED BY <1>1 DEF RowInv

\* ... and what depends on them.
LEMMA MildKeeps ==
  ASSUME STypes, FreshInv, ReqInv, ServeInv, Mild, UNCHANGED <<made, req, app, stuck,
                                                               queue, endpoint>>,
         job' \in {job, None}
  PROVE  FreshInv' /\ ReqInv' /\ ServeInv'
<1>1. \A b \in Adapters : Unknown(b) => Unknown(b)'
  BY AdaptersAssumption DEF Unknown, Mild
<1>2. FreshInv'
  BY <1>1 DEF FreshInv, ReqInv
<1>3. ReqInv'
  BY DEF ReqInv, Mild, Removing
<1>4. ServeInv'
  BY DEF STypes, ServeInv, Mild
<1> QED BY <1>2, <1>3, <1>4

\* Requests that only move.
LEMMA StillRows ==
  ASSUME STypes, RowInv, JobInv, ServeInv,
         UNCHANGED <<row, disk, content, endpoint, wpc, job, snap, metrics>>
  PROVE  RowInv' /\ JobInv' /\ ServeInv'
<1>1. RowInv'
  BY DEF RowInv, RowGood, PassesGate, Exists
<1>2. JobInv'
  BY DEF JobInv, PassesGate, Exists
<1>3. ServeInv'
  BY DEF ServeInv
<1> QED BY <1>1, <1>2, <1>3

\* The worker does nothing but go on.
LEMMA StillKeeps ==
  ASSUME STypes, FreshInv, RowInv, ReqInv, ServeInv, job' \in {job, None},
         UNCHANGED <<row, disk, content, made, req, app, stuck, queue, endpoint>>
  PROVE  FreshInv' /\ RowInv' /\ ReqInv' /\ ServeInv'
<1>1. Mild
  BY DEF STypes, Mild, Exists
<1> QED BY <1>1, MildRows, MildKeeps

\* RPUSH, LPUSH and BLPOP.
LEMMA ListAppend ==
  ASSUME NEW s \in Seq(Adapters), NEW a \in Adapters
  PROVE  /\ Append(s, a) \in Seq(Adapters)
         /\ \A b \in Adapters : OnList(Append(s, a), b) => OnList(s, b) \/ b = a
<1>1. /\ Len(Append(s, a)) = Len(s) + 1
      /\ \A i \in 1..Len(s) : Append(s, a)[i] = s[i]
      /\ Append(s, a)[Len(s) + 1] = a
  OBVIOUS
<1> QED BY <1>1 DEF OnList

LEMMA ListPush ==
  ASSUME NEW s \in Seq(Adapters), NEW a \in Adapters
  PROVE  /\ <<a>> \o s \in Seq(Adapters)
         /\ \A b \in Adapters : OnList(<<a>> \o s, b) => OnList(s, b) \/ b = a
<1>1. /\ Len(<<a>> \o s) = Len(s) + 1
      /\ (<<a>> \o s)[1] = a
      /\ \A i \in 2..Len(s) + 1 : (<<a>> \o s)[i] = s[i - 1]
  OBVIOUS
<1> QED BY <1>1 DEF OnList

LEMMA ListPop ==
  ASSUME NEW s \in Seq(Adapters), s # <<>>
  PROVE  /\ Tail(s) \in Seq(Adapters) /\ Head(s) \in Adapters /\ OnList(s, Head(s))
         /\ \A b \in Adapters : OnList(Tail(s), b) => OnList(s, b)
<1>1. /\ Len(s) >= 1 /\ Len(Tail(s)) = Len(s) - 1
      /\ Head(s) = s[1] /\ Head(s) \in Adapters
      /\ \A i \in 1..Len(Tail(s)) : Tail(s)[i] = s[i + 1]
  OBVIOUS
<1> QED BY <1>1 DEF OnList

-----------------------------------------------------------------------------
(* The step: one case per action, one fact per part of the invariant.       *)

\* An upload that ends after its commit without a job.
Quits(r) == UploadRefreshRaises(r) \/ UploadRefuseFails(r)

\* Steps of requests.
LEMMA RequestKeeps ==
  ASSUME SInv, NEW r \in Reqs, Client(r) \/ RequestStep(r)
         \/ UploadCommitFails(r) \/ UploadEnqueueFails(r)
         \/ Quits(r) \/ DeleteCommitFails(r)
  PROVE  SInv'
<1> USE AdaptersAssumption
<1>0. STypes /\ FreshInv /\ RowInv /\ ReqInv /\ JobInv /\ ServeInv
  BY DEF SInv
<1>1. ASSUME UploadCommit(r) PROVE SInv'
  <2>1. req[r].pc = "commit" /\ req[r].adp \in Adapters
    BY <1>0, <1>1 DEF ReqInv, UploadCommit
  <2>2. Moves(r, "enqueue", req[r].adp)
    BY <1>0, <1>1, GoToMoves DEF UploadCommit, ReqPc
  <2>3. UNCHANGED <<clock, made, content, app, stuck, wpc, job, snap, metrics, disk,
                    endpoint, queue>>
    BY <1>1 DEF UploadCommit, RequestFrame, GoTo, appVars, workVars
  <2>4. Rewrites(req[r].adp, Uploaded(req[r].adp))
    BY <1>0, <1>1, <2>1, UploadedRow DEF STypes, Rewrites, UploadCommit
  <2>5. /\ Uploaded(req[r].adp).status = "uploaded" /\ Uploaded(req[r].adp).metrics = "none"
        /\ content[req[r].adp] \notin Peft => Uploaded(req[r].adp).gguf
    BY <1>0, <2>1, UploadedRow
  <2>6. STypes'
    BY <1>0, <2>2, <2>3, <2>4 DEF STypes, Moves, Rewrites
  <2>7. FreshInv'
    <3>1. \A b \in Adapters : Unknown(b) /\ b # req[r].adp => Unknown(b)'
      BY <2>3, <2>4 DEF Unknown, Exists, Rewrites
    <3> QED BY <1>0, <2>1, <2>2, <2>3, <3>1, MoveFresh
  <2>8. RowInv'
    <3>1. ASSUME NEW b \in Adapters PROVE RowGood(b)'
      <4>1. (PassesGate(b)' <=> PassesGate(b)) /\ RowGood(b)
        BY <1>0, <2>3 DEF PassesGate, RowInv
      <4>2. CASE b = req[r].adp
        BY <2>3, <2>4, <2>5, <4>1, <4>2 DEF Rewrites, RowGood
      <4>3. CASE b # req[r].adp
        BY <2>3, <2>4, <2>5, <4>1 DEF Rewrites, RowGood, Exists
      <4> QED BY <4>2, <4>3
    <3> QED BY <3>1 DEF RowInv
  <2>9. ReqInv'
    <3>1. app = "up" /\ app' = "up"
      BY <1>0, <2>1, <2>3 DEF ReqInv
    <3>2. \A b \in Adapters :
             \/ Exists(b)' => Exists(b) /\ row'[b].metrics = row[b].metrics
             \/ \A s \in Reqs : s # r /\ req[s].adp = b => req[s].pc = "promote"
      BY <1>0, <2>1, <2>4 DEF Exists, Rewrites, FreshInv
    <3> QED BY <1>0, <2>1, <2>2, <3>1, <3>2, MoveReq DEF Removing
  <2>10. JobInv'
    BY <1>0, <2>1, <2>3, <2>4 DEF JobInv, FreshInv, Unknown, PassesGate, Exists, InSession,
       Rewrites
  <2>11. ServeInv'
    <3>1. endpoint # None => endpoint \in Adapters /\ row[endpoint].metrics = "pass"
      BY <1>0 DEF STypes, ServeInv
    <3>2. \A b \in Adapters : row[b].metrics = "pass" => Exists(b)
      BY <1>0 DEF RowInv, RowGood
    <3>3. ~Exists(req[r].adp)
      BY <1>0, <2>1 DEF FreshInv, Unknown
    <3> QED BY <2>3, <2>4, <3>1, <3>2, <3>3 DEF ServeInv, Rewrites
  <2> QED BY <2>6, <2>7, <2>8, <2>9, <2>10, <2>11 DEF SInv
<1>2. ASSUME UploadEnqueue(r) PROVE SInv'
  <2>1. req[r].pc = "enqueue" /\ req[r].adp \in Adapters
    BY <1>0, <1>2 DEF ReqInv, UploadEnqueue
  <2>2. Moves(r, "idle", None)
    BY <1>0, <1>2, EndMoves DEF UploadEnqueue
  <2>3. UNCHANGED <<clock, made, content, app, stuck, wpc, job, snap, metrics, row, disk,
                    endpoint>>
    BY <1>2 DEF UploadEnqueue, RequestFrame, End, appVars, workVars
  <2>4. /\ queue' \in Seq(Adapters)
        /\ \A b \in Adapters : OnList(queue', b) => OnList(queue, b) \/ b = req[r].adp
    BY <1>0, <1>2, <2>1, ListAppend DEF STypes, UploadEnqueue
  <2>5. STypes'
    BY <1>0, <2>1, <2>2, <2>3, <2>4 DEF STypes, Moves
  <2>6. FreshInv'
    <3>1. \A b \in Adapters : Unknown(b) /\ b # req[r].adp => Unknown(b)'
      BY <1>0, <2>1, <2>2, <2>3, <2>4 DEF Unknown, Exists
    <3> QED BY <1>0, <2>1, <2>2, <2>3, <3>1, MoveFresh
  <2>7. ReqInv'
    <3>1. app = "up" /\ app' = "up"
      BY <1>0, <2>1, <2>2, <2>3, <2>4 DEF ReqInv
    <3> QED BY <1>0, <2>2, <2>3, <3>1, MoveReq DEF Exists, Removing
  <2>8. RowInv' /\ JobInv' /\ ServeInv'
    BY <1>0, <2>3, StillRows
  <2> QED BY <2>5, <2>6, <2>7, <2>8 DEF SInv
<1>3. ASSUME UploadRefuse(r) PROVE SInv'
  <2>1. req[r].pc = "refuse" /\ req[r].adp \in Adapters
    BY <1>0, <1>3 DEF ReqInv, UploadRefuse
  <2>2. Moves(r, "idle", None)
    BY <1>0, <1>3, EndMoves DEF UploadRefuse
  <2>3. UNCHANGED <<clock, made, content, app, stuck, wpc, job, snap, metrics, disk,
                    endpoint, queue>>
    BY <1>3 DEF UploadRefuse, RequestFrame, End, appVars, workVars
  <2>4. Tame
    BY <1>0, <1>3, <2>1, RefuseTame DEF UploadRefuse
  <2>5. STypes'
    BY <1>0, <2>1, <2>2, <2>3, <2>4 DEF STypes, Moves, Tame, Mild
  <2>6. FreshInv'
    <3>1. \A b \in Adapters : Unknown(b) /\ b # req[r].adp => Unknown(b)'
      BY <1>0, <2>1, <2>2, <2>3, <2>4 DEF Unknown, Exists, Tame, Mild
    <3> QED BY <1>0, <2>1, <2>2, <2>3, <3>1, MoveFresh
  <2>7. RowInv'
    BY <1>0, <2>3, <2>4, MildRows DEF Tame
  <2>8. ReqInv'
    <3>1. app = "up" /\ app' = "up"
      BY <1>0, <2>1, <2>2, <2>3, <2>4 DEF ReqInv
    <3>2. \A b \in Adapters :
             \/ Exists(b)' => Exists(b) /\ row'[b].metrics = row[b].metrics
             \/ \A s \in Reqs : s # r /\ req[s].adp = b => req[s].pc = "promote"
      BY <1>0, <2>1, <2>2, <2>3, <2>4 DEF Exists, Tame, Mild, FreshInv
    <3> QED BY <1>0, <2>2, <3>1, <3>2, MoveReq DEF Removing
  <2>9. JobInv'
    BY <1>0, <2>3, <2>4 DEF JobInv, PassesGate, InSession, Tame, Mild
  <2>10. ServeInv'
    BY <1>0, <2>3, <2>4 DEF STypes, ServeInv, Tame, Mild
  <2> QED BY <2>5, <2>6, <2>7, <2>8, <2>9, <2>10 DEF SInv
<1>4. ASSUME DeleteCommit(r) \/ DeleteCommitFails(r) PROVE SInv'
  <2>1. req[r].pc = "drop" /\ req[r].adp \in Adapters
    BY <1>0, <1>4 DEF ReqInv, DeleteCommit, DeleteCommitFails
  <2>2. NoRow \in Rows /\ NoRow.status = "absent" /\ NoRow.metrics = "none"
    BY DEF NoRow, Rows, Status, Metrics
  <2>3. UNCHANGED <<clock, made, content, app, stuck, wpc, job, snap, metrics, disk,
                    endpoint, queue>>
    BY <1>4 DEF DeleteCommit, DeleteCommitFails, RequestFrame, GoTo, End, appVars, workVars
  <2>4. \/ Moves(r, "idle", None) /\ row' = row
        \/ /\ Moves(r, "remove", req[r].adp) \/ Moves(r, "idle", None)
           /\ Rewrites(req[r].adp, NoRow) /\ endpoint # req[r].adp
    <3>1. row' = [row EXCEPT ![req[r].adp] = NoRow] => Rewrites(req[r].adp, NoRow)
      BY <1>0, <2>1, <2>2 DEF STypes, Rewrites
    <3>2. CASE DeleteCommit(r)
      BY <1>0, <3>1, <3>2, EndMoves, GoToMoves DEF DeleteCommit, ReqPc
    <3>3. CASE DeleteCommitFails(r)
      BY <1>0, <3>1, <3>3, EndMoves DEF DeleteCommitFails
    <3> QED BY <1>4, <3>2, <3>3
  <2>5. STypes'
    BY <1>0, <2>1, <2>2, <2>3, <2>4 DEF STypes, Moves, Rewrites
  <2>6. FreshInv'
    <3>1. \A b \in Adapters : Unknown(b) /\ b # req[r].adp => Unknown(b)'
      BY <1>0, <2>1, <2>2, <2>3, <2>4 DEF Unknown, Exists, Rewrites
    <3> QED BY <1>0, <2>1, <2>3, <2>4, <3>1, MoveFresh
  <2>7. RowInv'
    BY <1>0, <2>2, <2>3, <2>4 DEF RowInv, RowGood, FreshInv, ReqInv, Unknown, PassesGate,
       Exists, Rewrites
  <2>8. ReqInv'
    <3>1. app = "up" /\ app' = "up"
      BY <1>0, <2>1, <2>2, <2>3, <2>4 DEF ReqInv
    <3> QED BY <1>0, <2>1, <2>2, <2>4, <3>1, MoveReq DEF Exists, Rewrites, Removing
  <2>9. JobInv'
    <3>1. PassesGate(job)' <=> PassesGate(job)
      BY <2>3 DEF PassesGate
    <3>2. job \in Adapters => row'[job] = row[job] \/ row'[job].status = "absent"
      BY <2>1, <2>2, <2>4 DEF Rewrites
    <3> QED BY <1>0, <2>3, <3>1, <3>2 DEF JobInv, InSession, Exists
  <2>10. ServeInv'
    BY <1>0, <2>3, <2>4 DEF STypes, ServeInv, Rewrites
  <2> QED BY <2>5, <2>6, <2>7, <2>8, <2>9, <2>10 DEF SInv
<1>5. ASSUME DeleteFiles(r) PROVE SInv'
  <2>1. req[r].pc \in Removing /\ req[r].adp \in Adapters
    BY <1>0, <1>5 DEF ReqInv, DeleteFiles, Removing
  <2>2. Moves(r, "idle", None)
    BY <1>0, <1>5, EndMoves DEF DeleteFiles
  <2>3. UNCHANGED <<clock, made, content, app, stuck, wpc, job, snap, metrics, row,
                    endpoint, queue>>
    BY <1>5 DEF DeleteFiles, RequestFrame, End, appVars, workVars
  <2>4. disk' = [disk EXCEPT ![req[r].adp] = "none"] \/ disk' = disk
    BY <1>5 DEF DeleteFiles
  <2>5. STypes'
    BY <1>0, <2>1, <2>2, <2>3, <2>4 DEF STypes, Moves
  <2>6. FreshInv'
    <3>1. \A b \in Adapters : Unknown(b) /\ b # req[r].adp => Unknown(b)'
      BY <1>0, <2>1, <2>2, <2>3, <2>4 DEF Unknown, Exists
    <3> QED BY <1>0, <2>1, <2>2, <2>3, <3>1, MoveFresh DEF Removing
  <2>7. RowInv'
    <3>1. ASSUME NEW b \in Adapters PROVE RowGood(b)'
      <4>1. RowGood(b) /\ (PassesGate(b)' <=> PassesGate(b)) /\ (Exists(b)' <=> Exists(b))
        BY <1>0, <2>3 DEF RowInv, PassesGate, Exists
      <4>2. \/ disk'[b] = disk[b]
            \/ ~Exists(b) /\ disk'[b] = "none"
        <5>1. ~Exists(req[r].adp)
          BY <1>0, <2>1 DEF ReqInv
        <5> QED BY <1>0, <2>1, <2>4, <5>1 DEF STypes
      <4> QED BY <2>3, <4>1, <4>2 DEF RowGood
    <3> QED BY <3>1 DEF RowInv
  <2>8. ReqInv'
    <3>1. app = "up" /\ app' = "up"
      BY <1>0, <2>1, <2>2, <2>3, <2>4 DEF ReqInv, Removing
    <3>2. \A b \in Adapters :
             \/ Exists(b)' => Exists(b) /\ row'[b].metrics = row[b].metrics
             \/ \A s \in Reqs : s # r /\ req[s].adp = b => req[s].pc = "promote"
      BY <1>0, <2>1, <2>2, <2>3, <2>4 DEF Exists, FreshInv
    <3> QED BY <1>0, <2>2, <3>1, <3>2, MoveReq DEF Removing
  <2>9. JobInv'
    <3>1. /\ PassesGate(job)' <=> PassesGate(job)
          /\ Exists(job)' <=> Exists(job)
      BY <2>3 DEF PassesGate, Exists
    <3>2. wpc \in {"score", "decide"} /\ Exists(job) => disk'[job] = disk[job]
      <4>1. ~Exists(req[r].adp)
        BY <1>0, <2>1 DEF ReqInv
      <4>2. wpc \in {"score", "decide"} => job \in Adapters
        BY <1>0 DEF JobInv
      <4> QED BY <1>0, <2>1, <2>4, <4>1, <4>2 DEF STypes
    <3> QED BY <1>0, <2>3, <3>1, <3>2 DEF JobInv, InSession
  <2>10. ServeInv'
    BY <1>0, <2>3 DEF ServeInv
  <2> QED BY <2>5, <2>6, <2>7, <2>8, <2>9, <2>10 DEF SInv
<1>6. ASSUME CreateRead(r) PROVE SInv'
  <2>1. req[r].pc = "create"
    BY <1>6 DEF CreateRead
  <2>2. UNCHANGED <<clock, made, content, app, stuck, wpc, job, snap, metrics, row, disk,
                    endpoint, queue>>
    BY <1>6 DEF CreateRead, RequestFrame, End, appVars, workVars
  <2>3. \/ Moves(r, "idle", None)
        \/ \E a \in Adapters : row[a].status = "passed" /\ Moves(r, "bind", a)
    <3>1. CASE End(r)
      BY <1>0, <3>1, EndMoves
    <3>2. ASSUME NEW a \in Passed, req' = [req EXCEPT ![r].pc = "bind", ![r].adp = a]
          PROVE  a \in Adapters /\ row[a].status = "passed" /\ Moves(r, "bind", a)
      <4>1. a \in Adapters /\ row[a].status = "passed" /\ "bind" \in ReqPc
        BY DEF Passed, ReqPc
      <4> QED BY <1>0, <3>2, <4>1 DEF STypes, Moves, ReqType
    <3> QED BY <1>6, <3>1, <3>2 DEF CreateRead
  <2>4. STypes'
    BY <1>0, <2>1, <2>2, <2>3 DEF STypes, Moves
  <2>5. FreshInv'
    <3>1. \A b \in Adapters : Unknown(b) /\ b # req[r].adp => Unknown(b)'
      BY <1>0, <2>1, <2>2, <2>3 DEF Unknown, Exists
    <3> QED BY <1>0, <2>1, <2>2, <2>3, <3>1, MoveFresh DEF RowInv, RowGood
  <2>6. ReqInv'
    <3>1. app = "up" /\ app' = "up"
      BY <1>0, <2>1, <2>2, <2>3 DEF ReqInv
    <3>2. \A b \in Adapters :
             \/ Exists(b)' => Exists(b) /\ row'[b].metrics = row[b].metrics
             \/ \A s \in Reqs : s # r /\ req[s].adp = b => req[s].pc = "promote"
      BY <1>0, <2>1, <2>2, <2>3 DEF Exists, FreshInv
    <3> QED BY <1>0, <2>2, <2>3, <3>1, <3>2, MoveReq DEF RowInv, RowGood, Removing
  <2>7. RowInv' /\ JobInv' /\ ServeInv'
    BY <1>0, <2>2, StillRows
  <2> QED BY <2>4, <2>5, <2>6, <2>7 DEF SInv
<1>7. ASSUME CreateCommit(r) PROVE SInv'
  <2>1. req[r].pc = "bind" /\ req[r].adp \in Adapters
    BY <1>0, <1>7 DEF ReqInv, CreateCommit
  <2>2. Moves(r, "idle", None)
    BY <1>0, <1>7, EndMoves DEF CreateCommit
  <2>3. UNCHANGED <<clock, made, content, app, stuck, wpc, job, snap, metrics, row, disk,
                    queue>>
    BY <1>7 DEF CreateCommit, RequestFrame, End, appVars, workVars
  <2>4. endpoint' = endpoint \/ (endpoint' = req[r].adp /\ Exists(req[r].adp))
    BY <1>7 DEF CreateCommit, Bind
  <2>5. STypes'
    BY <1>0, <2>1, <2>2, <2>3, <2>4 DEF STypes, Moves
  <2>6. FreshInv'
    <3>1. \A b \in Adapters : Unknown(b) /\ b # req[r].adp => Unknown(b)'
      BY <1>0, <2>1, <2>2, <2>3, <2>4 DEF Unknown, Exists
    <3> QED BY <1>0, <2>1, <2>2, <2>3, <3>1, MoveFresh
  <2>7. RowInv'
    BY <1>0, <2>3 DEF RowInv, RowGood, PassesGate, Exists
  <2>8. ReqInv'
    <3>1. app = "up" /\ app' = "up"
      BY <1>0, <2>1, <2>2, <2>3, <2>4 DEF ReqInv
    <3>2. \A b \in Adapters :
             \/ Exists(b)' => Exists(b) /\ row'[b].metrics = row[b].metrics
             \/ \A s \in Reqs : s # r /\ req[s].adp = b => req[s].pc = "promote"
      BY <1>0, <2>1, <2>2, <2>3, <2>4 DEF Exists, FreshInv
    <3> QED BY <1>0, <2>2, <3>1, <3>2, MoveReq DEF Removing
  <2>9. JobInv'
    BY <1>0, <2>3 DEF JobInv, PassesGate, Exists
  <2>10. ServeInv'
    BY <1>0, <2>1, <2>3, <2>4 DEF ServeInv, ReqInv
  <2> QED BY <2>5, <2>6, <2>7, <2>8, <2>9, <2>10 DEF SInv
<1>8. ASSUME PromoteRead(r) PROVE SInv'
  <2>1. req[r].pc = "promote" /\ req[r].adp \in Adapters
    BY <1>0, <1>8 DEF ReqInv, PromoteRead
  <2>2. UNCHANGED <<clock, made, content, app, stuck, wpc, job, snap, metrics, row, disk,
                    endpoint, queue>>
    BY <1>8 DEF PromoteRead, RequestFrame, GoTo, End, appVars, workVars
  <2>3. \/ Moves(r, "idle", None)
        \/ Moves(r, "served", req[r].adp) /\ row[req[r].adp].status = "passed"
    BY <1>0, <1>8, <2>1, EndMoves, GoToMoves DEF PromoteRead, Promotable, ReqPc
  <2>4. STypes'
    BY <1>0, <2>1, <2>2, <2>3 DEF STypes, Moves
  <2>5. FreshInv'
    <3>2. req[r].pc = "promote" => \A b \in Adapters : Unknown(b) => Unknown(b)'
      BY <1>0, <2>1, <2>2, <2>3 DEF Unknown, Exists
    <3> QED BY <1>0, <2>1, <2>2, <2>3, <3>2, MoveFresh DEF RowInv, RowGood
  <2>6. ReqInv'
    <3>1. app = "up" /\ app' = "up"
      BY <1>0, <2>1, <2>2, <2>3 DEF ReqInv
    <3>2. \A b \in Adapters :
             \/ Exists(b)' => Exists(b) /\ row'[b].metrics = row[b].metrics
             \/ \A s \in Reqs : s # r /\ req[s].adp = b => req[s].pc = "promote"
      BY <1>0, <2>1, <2>2, <2>3 DEF Exists, FreshInv
    <3> QED BY <1>0, <2>1, <2>2, <2>3, <3>1, <3>2, MoveReq DEF RowInv, RowGood, Removing
  <2>7. RowInv' /\ JobInv' /\ ServeInv'
    BY <1>0, <2>2, StillRows
  <2> QED BY <2>4, <2>5, <2>6, <2>7 DEF SInv
<1>9. ASSUME PromoteServed(r) PROVE SInv'
  <2>1. req[r].pc = "served" /\ req[r].adp \in Adapters
    BY <1>0, <1>9 DEF ReqInv, PromoteServed
  <2>2. UNCHANGED <<clock, made, content, app, stuck, wpc, job, snap, metrics, row, disk,
                    endpoint, queue>>
    BY <1>9 DEF PromoteServed, RequestFrame, appVars, workVars
  <2>3. Moves(r, "rebind", req[r].adp)
    <3>1. PICK l \in {"promote", "rollback"} :
               req' = [req EXCEPT ![r].pc = "rebind", ![r].label = l]
      BY <1>9 DEF PromoteServed
    <3> DEFINE q == [req[r] EXCEPT !.pc = "rebind", !.label = l]
    <3>2. q \in ReqType /\ q.pc = "rebind" /\ q.adp = req[r].adp
      <4>1. req[r] \in ReqType /\ "rebind" \in ReqPc
        BY <1>0 DEF STypes, ReqPc
      <4> HIDE DEF q
      <4>2. q = [req[r] EXCEPT !.pc = "rebind", !.label = l]
        BY DEF q
      <4>3. q.pc = "rebind" /\ q.adp = req[r].adp
        BY <4>1, <4>2 DEF ReqType
      <4>4. q \in ReqType
        BY <3>1, <4>1, <4>2 DEF ReqType
      <4> QED BY <4>3, <4>4
    <3>3. req' = [req EXCEPT ![r] = q]
      BY <1>0, <3>1 DEF STypes, ReqType
    <3> HIDE DEF q
    <3> QED BY <1>0, <3>2, <3>3 DEF STypes, Moves
  <2>4. STypes'
    BY <1>0, <2>1, <2>2, <2>3 DEF STypes, Moves
  <2>5. FreshInv'
    <3>1. \A b \in Adapters : Unknown(b) /\ b # req[r].adp => Unknown(b)'
      BY <1>0, <2>1, <2>2, <2>3 DEF Unknown, Exists
    <3> QED BY <1>0, <2>1, <2>2, <2>3, <3>1, MoveFresh
  <2>6. ReqInv'
    <3> QED BY <1>0, <2>1, <2>2, <2>3, MoveReq DEF ReqInv, Exists, Removing
  <2>7. RowInv' /\ JobInv' /\ ServeInv'
    BY <1>0, <2>2, StillRows
  <2> QED BY <2>4, <2>5, <2>6, <2>7 DEF SInv
<1>10. ASSUME PromoteCommit(r) PROVE SInv'
  <2>1. req[r].pc = "rebind" /\ req[r].adp \in Adapters
    BY <1>0, <1>10 DEF ReqInv, PromoteCommit
  <2>2. Moves(r, "idle", None)
    BY <1>0, <1>10, EndMoves DEF PromoteCommit
  <2>3. UNCHANGED <<clock, made, content, app, stuck, wpc, job, snap, metrics, row, disk,
                    queue>>
    BY <1>10 DEF PromoteCommit, RequestFrame, End, appVars, workVars
  <2>4. endpoint' = endpoint \/ (endpoint' = req[r].adp /\ Exists(req[r].adp))
    BY <1>10 DEF PromoteCommit, Bind
  <2>5. STypes'
    BY <1>0, <2>1, <2>2, <2>3, <2>4 DEF STypes, Moves
  <2>6. FreshInv'
    <3>1. \A b \in Adapters : Unknown(b) /\ b # req[r].adp => Unknown(b)'
      BY <1>0, <2>1, <2>2, <2>3, <2>4 DEF Unknown, Exists
    <3> QED BY <1>0, <2>1, <2>2, <2>3, <3>1, MoveFresh
  <2>7. RowInv'
    BY <1>0, <2>3 DEF RowInv, RowGood, PassesGate, Exists
  <2>8. ReqInv'
    <3>1. app = "up" /\ app' = "up"
      BY <1>0, <2>1, <2>2, <2>3, <2>4 DEF ReqInv
    <3>2. \A b \in Adapters :
             \/ Exists(b)' => Exists(b) /\ row'[b].metrics = row[b].metrics
             \/ \A s \in Reqs : s # r /\ req[s].adp = b => req[s].pc = "promote"
      BY <1>0, <2>1, <2>2, <2>3, <2>4 DEF Exists, FreshInv
    <3> QED BY <1>0, <2>2, <3>1, <3>2, MoveReq DEF Removing
  <2>9. JobInv'
    BY <1>0, <2>3 DEF JobInv, PassesGate, Exists
  <2>10. ServeInv'
    BY <1>0, <2>1, <2>3, <2>4 DEF ServeInv, ReqInv
  <2> QED BY <2>5, <2>6, <2>7, <2>8, <2>9, <2>10 DEF SInv
<1>11. ASSUME UploadCommitFails(r) PROVE SInv'
  <2>1. req[r].pc = "commit" /\ req[r].adp \in Adapters
    BY <1>0, <1>11 DEF ReqInv, UploadCommitFails
  <2>2. Moves(r, "idle", None)
    BY <1>0, <1>11, EndMoves DEF UploadCommitFails
  <2>3. UNCHANGED <<clock, made, content, app, stuck, wpc, job, snap, metrics, endpoint,
                    queue>>
    BY <1>11 DEF UploadCommitFails, RequestFrame, End, appVars, workVars
  <2>4. row' = row \/ Rewrites(req[r].adp, Uploaded(req[r].adp))
    BY <1>0, <1>11, <2>1, UploadedRow DEF STypes, Rewrites, UploadCommitFails
  <2>5. /\ Uploaded(req[r].adp).status = "uploaded" /\ Uploaded(req[r].adp).metrics = "none"
        /\ content[req[r].adp] \notin Peft => Uploaded(req[r].adp).gguf
    BY <1>0, <2>1, UploadedRow
  <2>6. disk' = [disk EXCEPT ![req[r].adp] = "none"]
    BY <1>11 DEF UploadCommitFails
  <2>7. STypes'
    BY <1>0, <2>2, <2>3, <2>4, <2>6 DEF STypes, Moves, Rewrites
  <2>8. FreshInv'
    <3>1. \A b \in Adapters : Unknown(b) /\ b # req[r].adp => Unknown(b)'
      BY <2>3, <2>4 DEF Unknown, Exists, Rewrites
    <3> QED BY <1>0, <2>1, <2>2, <2>3, <3>1, MoveFresh
  <2>9. RowInv'
    <3>1. ASSUME NEW b \in Adapters PROVE RowGood(b)'
      <4>1. (PassesGate(b)' <=> PassesGate(b)) /\ RowGood(b)
        BY <1>0, <2>3 DEF PassesGate, RowInv
      <4>2. CASE b = req[r].adp
        BY <1>0, <2>1, <2>3, <2>4, <2>5, <2>6, <4>1 DEF Rewrites, RowGood, Exists, FreshInv,
           Unknown
      <4>3. CASE b # req[r].adp
        BY <2>3, <2>4, <2>6, <4>1, <4>3 DEF Rewrites, RowGood, Exists
      <4> QED BY <4>2, <4>3
    <3> QED BY <3>1 DEF RowInv
  <2>10. ReqInv'
    <3>1. app = "up" /\ app' = "up"
      BY <1>0, <2>1, <2>3 DEF ReqInv
    <3>2. \A b \in Adapters :
             \/ Exists(b)' => Exists(b) /\ row'[b].metrics = row[b].metrics
             \/ \A s \in Reqs : s # r /\ req[s].adp = b => req[s].pc = "promote"
      BY <1>0, <2>1, <2>4 DEF Exists, Rewrites, FreshInv
    <3> QED BY <1>0, <2>2, <3>1, <3>2, MoveReq DEF Removing
  <2>11. JobInv'
    BY <1>0, <2>1, <2>3, <2>4, <2>6 DEF JobInv, FreshInv, Unknown, PassesGate, Exists,
       InSession, Rewrites
  <2>12. ServeInv'
    <3>1. endpoint # None => endpoint \in Adapters /\ row[endpoint].metrics = "pass"
      BY <1>0 DEF STypes, ServeInv
    <3>2. \A b \in Adapters : row[b].metrics = "pass" => Exists(b)
      BY <1>0 DEF RowInv, RowGood
    <3>3. ~Exists(req[r].adp)
      BY <1>0, <2>1 DEF FreshInv, Unknown
    <3> QED BY <2>3, <2>4, <3>1, <3>2, <3>3 DEF ServeInv, Rewrites
  <2> QED BY <2>7, <2>8, <2>9, <2>10, <2>11, <2>12 DEF SInv
<1>12. ASSUME UploadEnqueueFails(r) PROVE SInv'
  <2>1. req[r].pc = "enqueue" /\ req[r].adp \in Adapters
    BY <1>0, <1>12 DEF ReqInv, UploadEnqueueFails
  <2>2. Moves(r, "refuse", req[r].adp)
    BY <1>0, <1>12, GoToMoves DEF UploadEnqueueFails, ReqPc
  <2>3. UNCHANGED <<clock, made, content, app, stuck, wpc, job, snap, metrics, row, disk,
                    endpoint>>
    BY <1>12 DEF UploadEnqueueFails, RequestFrame, GoTo, appVars, workVars
  <2>4. /\ queue' \in Seq(Adapters)
        /\ \A b \in Adapters : OnList(queue', b) => OnList(queue, b) \/ b = req[r].adp
    <3>1. queue' = queue \/ queue' = Append(queue, req[r].adp)
      BY <1>12 DEF UploadEnqueueFails
    <3>2. CASE queue' = queue
      BY <1>0, <3>2 DEF STypes
    <3>3. CASE queue' = Append(queue, req[r].adp)
      BY <1>0, <2>1, <3>3, ListAppend DEF STypes
    <3> QED BY <3>1, <3>2, <3>3
  <2>5. STypes'
    BY <1>0, <2>1, <2>2, <2>3, <2>4 DEF STypes, Moves
  <2>6. FreshInv'
    <3>1. \A b \in Adapters : Unknown(b) /\ b # req[r].adp => Unknown(b)'
      BY <1>0, <2>1, <2>2, <2>3, <2>4 DEF Unknown, Exists
    <3> QED BY <1>0, <2>1, <2>2, <2>3, <3>1, MoveFresh
  <2>7. ReqInv'
    <3>1. app = "up" /\ app' = "up"
      BY <1>0, <2>1, <2>2, <2>3, <2>4 DEF ReqInv
    <3>2. \A b \in Adapters :
             \/ Exists(b)' => Exists(b) /\ row'[b].metrics = row[b].metrics
             \/ \A s \in Reqs : s # r /\ req[s].adp = b => req[s].pc = "promote"
      BY <1>0, <2>1, <2>2, <2>3, <2>4 DEF Exists, FreshInv
    <3> QED BY <1>0, <2>1, <2>2, <3>1, <3>2, MoveReq DEF Removing
  <2>8. RowInv' /\ JobInv' /\ ServeInv'
    BY <1>0, <2>3, StillRows
  <2> QED BY <2>5, <2>6, <2>7, <2>8 DEF SInv
<1>13. ASSUME CreateBegin(r) PROVE SInv'
  <2>1. /\ req[r].pc = "idle" /\ app = "up"
        /\ UNCHANGED <<app, stuck, wpc, job, snap, metrics, row, endpoint, queue, disk, made, content>>
    BY <1>13 DEF CreateBegin, appVars, workVars, Begin
  <2>2. Moves(r, "create", None)
    BY <1>0, <1>13, BeginMoves DEF CreateBegin, ReqPc
  <2>3. clock' = clock + 1 /\ clock' \in Nat
    <3>1. clock' = clock + 1
      BY <1>13 DEF CreateBegin, Begin
    <3> QED BY <1>0, <3>1 DEF STypes
  <2>4. STypes'
    BY <1>0, <2>1, <2>2, <2>3 DEF STypes, Moves
  <2>5. FreshInv'
    <3>1. \A b \in Adapters : Unknown(b) /\ b # req[r].adp => Unknown(b)'
      BY <1>0, <2>1, <2>2, <2>3 DEF Unknown, Exists
    <3> QED BY <1>0, <2>1, <2>2, <3>1, MoveFresh
  <2>6. ReqInv'
    <3>2. \A b \in Adapters :
             \/ Exists(b)' => Exists(b) /\ row'[b].metrics = row[b].metrics
             \/ \A s \in Reqs : s # r /\ req[s].adp = b => req[s].pc = "promote"
      BY <1>0, <2>1, <2>2, <2>3 DEF Exists, FreshInv
    <3> QED BY <1>0, <2>1, <2>2, <3>2, MoveReq DEF Removing
  <2>7. RowInv' /\ JobInv' /\ ServeInv'
    BY <1>0, <2>1, StillRows
  <2> QED BY <2>4, <2>5, <2>6, <2>7 DEF SInv
<1>14. ASSUME NEW a \in Adapters, PromoteBegin(r, a) PROVE SInv'
  <2>1. /\ req[r].pc = "idle" /\ app = "up" /\ made[a] # 0
        /\ UNCHANGED <<app, stuck, wpc, job, snap, metrics, row, endpoint, queue, disk, made, content>>
    BY <1>14 DEF PromoteBegin, appVars, workVars, Begin
  <2>2. Moves(r, "promote", a)
    BY <1>0, <1>14, BeginMoves DEF PromoteBegin, ReqPc
  <2>3. clock' = clock + 1 /\ clock' \in Nat
    <3>1. clock' = clock + 1
      BY <1>14 DEF PromoteBegin, Begin
    <3> QED BY <1>0, <3>1 DEF STypes
  <2>4. STypes'
    BY <1>0, <2>1, <2>2, <2>3 DEF STypes, Moves
  <2>5. FreshInv'
    <3>1. \A b \in Adapters : Unknown(b) /\ b # req[r].adp => Unknown(b)'
      BY <1>0, <2>1, <2>2, <2>3 DEF Unknown, Exists
    <3> QED BY <1>0, <2>1, <2>2, <3>1, MoveFresh
  <2>6. ReqInv'
    <3>2. \A b \in Adapters :
             \/ Exists(b)' => Exists(b) /\ row'[b].metrics = row[b].metrics
             \/ \A s \in Reqs : s # r /\ req[s].adp = b => req[s].pc = "promote"
      BY <1>0, <2>1, <2>2, <2>3 DEF Exists, FreshInv
    <3> QED BY <1>0, <2>1, <2>2, <3>2, MoveReq DEF Removing
  <2>7. RowInv' /\ JobInv' /\ ServeInv'
    BY <1>0, <2>1, StillRows
  <2> QED BY <2>4, <2>5, <2>6, <2>7 DEF SInv
<1>15. ASSUME NEW a \in Adapters, DeleteCheck(r, a) PROVE SInv'
  <2>1. /\ req[r].pc = "idle" /\ app = "up" /\ Exists(a)
        /\ UNCHANGED <<app, stuck, wpc, job, snap, metrics, row, endpoint, queue, disk, made, content>>
    BY <1>15 DEF DeleteCheck, appVars, workVars, Begin
  <2>2. Moves(r, "drop", a)
    BY <1>0, <1>15, BeginMoves DEF DeleteCheck, ReqPc
  <2>3. clock' = clock + 1 /\ clock' \in Nat
    <3>1. clock' = clock + 1
      BY <1>15 DEF DeleteCheck, Begin
    <3> QED BY <1>0, <3>1 DEF STypes
  <2>4. STypes'
    BY <1>0, <2>1, <2>2, <2>3 DEF STypes, Moves
  <2>5. FreshInv'
    <3>1. \A b \in Adapters : Unknown(b) /\ b # req[r].adp => Unknown(b)'
      BY <1>0, <2>1, <2>2, <2>3 DEF Unknown, Exists
    <3> QED BY <1>0, <2>1, <2>2, <3>1, MoveFresh
  <2>6. ReqInv'
    <3>2. \A b \in Adapters :
             \/ Exists(b)' => Exists(b) /\ row'[b].metrics = row[b].metrics
             \/ \A s \in Reqs : s # r /\ req[s].adp = b => req[s].pc = "promote"
      BY <1>0, <2>1, <2>2, <2>3 DEF Exists, FreshInv
    <3> QED BY <1>0, <2>1, <2>2, <3>2, MoveReq DEF Removing
  <2>7. RowInv' /\ JobInv' /\ ServeInv'
    BY <1>0, <2>1, StillRows
  <2> QED BY <2>4, <2>5, <2>6, <2>7 DEF SInv
<1>17. ASSUME Quits(r) \/ DeleteList(r) PROVE SInv'
  <2>1. req[r].pc \in {"enqueue", "refuse", "remove"} /\ req[r].adp \in Adapters
    BY <1>0, <1>17 DEF ReqInv, Quits, UploadRefreshRaises, UploadRefuseFails, DeleteList
  <2>2. UNCHANGED <<clock, made, content, app, stuck, wpc, job, snap, metrics, row, disk,
                    endpoint, queue>>
    BY <1>17 DEF Quits, UploadRefreshRaises, UploadRefuseFails, DeleteList, RequestFrame,
       GoTo, End, appVars, workVars
  <2>3. \/ Moves(r, "idle", None)
        \/ \E p \in {"unlink", "unlink_peft"} :
              Moves(r, p, req[r].adp) /\ ~Exists(req[r].adp)
    <3>1. CASE Quits(r)
      BY <1>0, <3>1, EndMoves DEF Quits, UploadRefreshRaises, UploadRefuseFails
    <3>2. CASE DeleteList(r)
      <4>1. PICK p \in {"unlink", "unlink_peft"} : GoTo(r, p)
        BY <3>2 DEF DeleteList
      <4>2. Moves(r, p, req[r].adp)
        BY <1>0, <4>1, GoToMoves DEF ReqPc
      <4> QED BY <1>0, <3>2, <4>1, <4>2 DEF DeleteList, ReqInv, Removing
    <3> QED BY <1>17, <3>1, <3>2
  <2>4. STypes'
    BY <1>0, <2>2, <2>3 DEF STypes, Moves
  <2>5. \A b \in Adapters : Unknown(b) => Unknown(b)'
    BY <2>2 DEF Unknown, Exists
  <2>6. app = "up" /\ app' = "up"
    BY <1>0, <2>1, <2>2 DEF ReqInv
  <2>7. \A b \in Adapters : Exists(b)' => Exists(b) /\ row'[b].metrics = row[b].metrics
    BY <2>2 DEF Exists
  <2>8. FreshInv' /\ ReqInv'
    <3>1. CASE Moves(r, "idle", None)
      <4>1. FreshInv'
        BY <1>0, <2>1, <2>2, <2>5, <3>1, MoveFresh
      <4>2. ReqInv'
        BY <1>0, <2>6, <2>7, <3>1, MoveReq DEF Removing
      <4> QED BY <4>1, <4>2
    <3>2. ASSUME NEW p \in {"unlink", "unlink_peft"}, Moves(r, p, req[r].adp),
                 ~Exists(req[r].adp)
          PROVE  FreshInv' /\ ReqInv'
      <4>1. FreshInv'
        BY <1>0, <2>1, <2>2, <2>5, <3>2, MoveFresh
      <4>2. ReqInv'
        BY <1>0, <2>1, <2>2, <2>6, <2>7, <3>2, MoveReq DEF Exists, Removing
      <4> QED BY <4>1, <4>2
    <3> QED BY <2>3, <3>1, <3>2
  <2>9. RowInv' /\ JobInv' /\ ServeInv'
    BY <1>0, <2>2, StillRows
  <2> QED BY <2>4, <2>8, <2>9 DEF SInv
<1>16. ASSUME NEW a \in Adapters, NEW c \in Contents, Upload(r, a, c) PROVE SInv'
  <2>1. /\ req[r].pc = "idle" /\ app = "up" /\ made[a] = 0
        /\ UNCHANGED <<app, stuck, wpc, job, snap, metrics, row, endpoint, queue>>
    BY <1>16 DEF Upload, appVars, workVars, Begin
  <2>2. Moves(r, "commit", a)
    BY <1>0, <1>16, BeginMoves DEF Upload, ReqPc
  <2>3. clock' = clock + 1 /\ clock' \in Nat
    <3>1. clock' = clock + 1
      BY <1>16 DEF Upload, Begin
    <3> QED BY <1>0, <3>1 DEF STypes
  <2>4. made' = [made EXCEPT ![a] = clock + 1] /\ clock + 1 \in Nat /\ clock + 1 # 0
    BY <1>0, <1>16 DEF Upload, STypes
  <2>5. content' = [content EXCEPT ![a] = c] /\ disk' = [disk EXCEPT ![a] = Stored(c)]
    BY <1>16 DEF Upload
  <2>6. Stored(c) \in {"peft", "whole"} /\ (c \in Peft => Stored(c) = "peft")
    BY DEF Stored
  <2>7. STypes'
    BY <1>0, <2>1, <2>2, <2>3, <2>4, <2>5, <2>6 DEF STypes, Moves
  <2>8. FreshInv'
    <3>1. Unknown(a) /\ \A s \in Reqs : req[s].adp # a
      BY <1>0, <2>1 DEF FreshInv
    <3>2. \A b \in Adapters : Unknown(b) => Unknown(b)'
      BY <2>1 DEF Unknown, Exists
    <3>3. ASSUME NEW b \in Adapters, made'[b] = 0
          PROVE  Unknown(b)' /\ \A s \in Reqs : req'[s].adp # b
      <4>1. b # a /\ made[b] = 0
        BY <1>0, <2>4, <3>3 DEF STypes
      <4> QED BY <1>0, <2>2, <3>2, <4>1 DEF FreshInv, Moves
    <3>4. ASSUME NEW s \in Reqs, req'[s].pc = "commit"
          PROVE  /\ Unknown(req[s].adp)'
                 /\ \A t \in Reqs : t # s /\ req'[t].adp = req'[s].adp => req'[t].pc = "promote"
      <4>1. CASE s = r
        <5>1. req'[s].adp = a /\ Unknown(a)'
          BY <2>2, <3>1, <3>2, <4>1 DEF Moves
        <5> QED BY <2>2, <3>1, <4>1, <5>1 DEF Moves, Unknown, Exists
      <4>2. CASE s # r
        <5>1. PICK b \in Adapters : b = req[s].adp /\ req'[s] = req[s]
          BY <1>0, <2>2, <3>4, <4>2 DEF Moves, ReqInv
        <5>2. Unknown(b)' /\ b # a
          BY <1>0, <3>1, <3>2, <3>4, <5>1 DEF FreshInv
        <5> QED BY <1>0, <2>2, <3>4, <5>1, <5>2 DEF FreshInv, Moves
      <4> QED BY <4>1, <4>2
    <3> QED BY <3>3, <3>4 DEF FreshInv
  <2>9. RowInv'
    <3>1. ASSUME NEW b \in Adapters, b # a PROVE RowGood(b)'
      <4>1. content'[b] = content[b] /\ disk'[b] = disk[b] /\ RowGood(b)
        BY <1>0, <2>5, <3>1 DEF STypes, RowInv
      <4> QED BY <2>1, <4>1 DEF RowGood, PassesGate, Exists
    <3>2. RowGood(a)'
      <4>1. content'[a] = c /\ disk'[a] = Stored(c)
        BY <1>0, <2>5 DEF STypes
      <4>2. row'[a] = row[a] /\ ~Exists(a) /\ RowGood(a)
        BY <1>0, <2>1 DEF FreshInv, Unknown, RowInv
      <4> QED BY <2>6, <4>1, <4>2 DEF RowGood, Exists
    <3> QED BY <3>1, <3>2 DEF RowInv
  <2>10. ReqInv'
    <3>2. \A b \in Adapters :
             \/ Exists(b)' => Exists(b) /\ row'[b].metrics = row[b].metrics
             \/ \A s \in Reqs : s # r /\ req[s].adp = b => req[s].pc = "promote"
      BY <2>1 DEF Exists
    <3> QED BY <1>0, <2>1, <2>2, <3>2, MoveReq DEF Removing
  <2>11. JobInv'
    BY <1>0, <2>1, <2>5 DEF JobInv, FreshInv, Unknown, PassesGate, Exists
  <2>12. ServeInv'
    BY <1>0, <2>1 DEF ServeInv
  <2> QED BY <2>7, <2>8, <2>9, <2>10, <2>11, <2>12 DEF SInv
<1> QED
  BY <1>1, <1>2, <1>3, <1>4, <1>5, <1>6, <1>7, <1>8, <1>9, <1>10, <1>11, <1>12, <1>13,
     <1>14, <1>15, <1>16, <1>17 DEF Client, RequestStep

\* Steps of the app and of the worker.
LEMMA WorkerKeeps ==
  ASSUME SInv, AppStep \/ WorkerStep \/ AppCrash \/ JobDropped \/ JobStageRaises
         \/ JobSessionRaises \/ Sigterm \/ WorkerKilled
  PROVE  SInv'
<1> USE AdaptersAssumption
<1>0. STypes /\ FreshInv /\ RowInv /\ ReqInv /\ JobInv /\ ServeInv
  BY DEF SInv
<1>a. NoRow \in Rows /\ "none" \in Metrics
  BY DEF NoRow, Rows, Status, Metrics
<1>1. ASSUME AppCrash PROVE SInv'
  <2>1. UNCHANGED <<clock, made, content, endpoint, row, disk, queue, wpc, job, snap,
                    metrics>> /\ app' = "down"
    BY <1>1 DEF AppCrash, workVars, Event
  <2>2. req' = [r \in Reqs |-> NoRequest]
    BY <1>1 DEF AppCrash
  <2>3. NoRequest \in ReqType /\ NoRequest.pc = "idle" /\ NoRequest.adp = None
    BY DEF NoRequest, ReqType, ReqPc
  <2>4. STypes'
    BY <1>0, <1>a, <2>1, <2>2, <2>3 DEF STypes, WorkPc, Metrics
  <2>5. FreshInv'
    BY <1>0, <2>1, <2>2, <2>3 DEF FreshInv, Unknown, Exists
  <2>6. RowInv'
    BY <1>0, <2>1 DEF RowInv, RowGood, PassesGate, Exists
  <2>7. ReqInv'
    BY <1>0, <1>a, <2>1, <2>2, <2>3 DEF STypes, ReqInv, Exists, Removing
  <2>8. JobInv'
    BY <1>0, <2>1 DEF JobInv, PassesGate, Exists
  <2>9. ServeInv'
    BY <1>0, <1>a, <2>1, <2>2, <2>3 DEF STypes, ServeInv
  <2> QED BY <2>4, <2>5, <2>6, <2>7, <2>8, <2>9 DEF SInv
<1>2. ASSUME SweepRead PROVE SInv'
  <2>1. UNCHANGED <<clock, made, content, req, endpoint, row, disk, queue, wpc, job,
                    snap, metrics>>
    BY <1>2 DEF SweepRead, workVars, reqVars
  <2>2. /\ app = "down"
        /\ app' = "sweep" /\ stuck' = {a \in Adapters : row[a].status = "processing"}
    BY <1>2 DEF SweepRead
  <2>3. STypes'
    BY <1>0, <1>a, <2>1, <2>2 DEF STypes, WorkPc, Metrics
  <2>4. FreshInv'
    BY <1>0, <2>1 DEF FreshInv, Unknown, Exists
  <2>5. RowInv'
    BY <1>0, <2>1 DEF RowInv, RowGood, PassesGate, Exists
  <2>6. ReqInv'
    BY <1>0, <1>a, <2>1, <2>2 DEF STypes, ReqInv, Exists
  <2>7. JobInv'
    BY <1>0, <2>1 DEF JobInv, PassesGate, Exists
  <2>8. ServeInv'
    BY <1>0, <1>a, <2>1, <2>2 DEF STypes, ServeInv
  <2> QED BY <2>3, <2>4, <2>5, <2>6, <2>7, <2>8 DEF SInv
<1>3. ASSUME SweepCommit PROVE SInv'
  <2>1. UNCHANGED <<clock, made, content, req, endpoint, disk, queue, wpc, job, snap,
                    metrics>>
    BY <1>3 DEF SweepCommit, workVars, reqVars
  <2>2. app = "sweep" /\ app' = "up" /\ stuck' = {}
    BY <1>3 DEF SweepCommit
  <2>3. Tame
    BY <1>0, <1>3, SweepTame
  <2>4. STypes'
    BY <1>0, <2>1, <2>3 DEF STypes, Tame, Mild
  <2>5. FreshInv'
    <3>1. \A b \in Adapters : Unknown(b) => Unknown(b)'
      BY <2>1, <2>3 DEF Unknown, Tame, Mild
    <3> QED BY <1>0, <2>1, <3>1 DEF FreshInv, ReqInv
  <2>6. RowInv'
    BY <1>0, <2>1, <2>3, MildRows DEF Tame
  <2>7. ReqInv'
    BY <1>0, <2>1, <2>2 DEF ReqInv, Removing
  <2>8. JobInv'
    BY <1>0, <2>1, <2>3 DEF JobInv, PassesGate, InSession, Tame, Mild
  <2>9. ServeInv'
    BY <1>0, <2>1, <2>3 DEF STypes, ServeInv, Tame, Mild
  <2> QED BY <2>4, <2>5, <2>6, <2>7, <2>8, <2>9 DEF SInv
<1>4. ASSUME WorkerUp PROVE SInv'
  <2>1. UNCHANGED <<clock, made, content, req, endpoint, app, stuck, row, disk, queue,
                    snap, metrics, job>>
    BY <1>4 DEF WorkerUp, WorkerFrame, Goes, appVars, reqVars
  <2>2. wpc = "down" /\ wpc' = "idle"
    BY <1>4 DEF WorkerUp, Goes
  <2>3. STypes'
    BY <1>0, <1>a, <2>1, <2>2 DEF STypes, WorkPc, Metrics
  <2>4. FreshInv' /\ RowInv' /\ ReqInv' /\ ServeInv'
    BY <1>0, <2>1, <2>2, StillKeeps
  <2>5. JobInv'
    BY <2>2 DEF JobInv, InSession
  <2> QED BY <2>3, <2>4, <2>5 DEF SInv
<1>5. ASSUME JobTake PROVE SInv'
  <2>1. UNCHANGED <<clock, made, content, req, endpoint, app, stuck, row, disk, snap,
                    metrics>>
    BY <1>5 DEF JobTake, WorkerFrame, appVars, reqVars
  <2>2. wpc = "idle" /\ wpc' = "read" /\ job' \in Adapters /\ OnList(queue, job')
    BY <1>0, <1>5, ListPop DEF JobTake, STypes
  <2>3. /\ queue' \in Seq(Adapters)
        /\ \A b \in Adapters : OnList(queue', b) => OnList(queue, b)
    BY <1>0, <1>5, ListPop DEF JobTake, STypes
  <2>4. STypes'
    BY <1>0, <1>a, <2>1, <2>2, <2>3 DEF STypes, WorkPc, Metrics
  <2>5. FreshInv'
    BY <1>0, <2>1, <2>2, <2>3 DEF FreshInv, ReqInv, Unknown, Exists
  <2>6. RowInv'
    BY <1>0, <2>1 DEF RowInv, RowGood, PassesGate, Exists
  <2>7. ReqInv'
    BY <1>0, <1>a, <2>1, <2>2, <2>3 DEF STypes, ReqInv, Exists
  <2>8. JobInv'
    BY <2>2 DEF JobInv, InSession
  <2>9. ServeInv'
    BY <1>0, <1>a, <2>1, <2>2, <2>3 DEF STypes, ServeInv
  <2> QED BY <2>4, <2>5, <2>6, <2>7, <2>8, <2>9 DEF SInv
<1>6. ASSUME JobDropped \/ JobSessionRaises \/ JobReport \/ WorkerKilled PROVE SInv'
  <2>1. UNCHANGED <<clock, made, content, req, endpoint, app, stuck, row, disk, queue>>
    BY <1>6 DEF JobDropped, JobSessionRaises, JobReport, WorkerKilled, WorkerFrame, appVars,
       reqVars
  <2>2. wpc' \in {"idle", "down"} /\ job' = None /\ snap' = NoRow /\ metrics' = "none"
    BY <1>6 DEF JobDropped, JobSessionRaises, JobReport, WorkerKilled, Leaves
  <2>3. STypes'
    BY <1>0, <1>a, <2>1, <2>2 DEF STypes, WorkPc, Metrics
  <2>4. FreshInv' /\ RowInv' /\ ReqInv' /\ ServeInv'
    BY <1>0, <2>1, <2>2, StillKeeps
  <2>5. JobInv'
    BY <2>2 DEF JobInv, InSession
  <2> QED BY <2>3, <2>4, <2>5 DEF SInv
<1>7. ASSUME JobRead PROVE SInv'
  <2>1. UNCHANGED <<clock, made, content, req, endpoint, app, stuck, row, disk, queue,
                    metrics, job>>
    BY <1>7 DEF JobRead, WorkerFrame, Goes, appVars, reqVars
  <2>2. wpc = "read" /\ job \in Adapters
    BY <1>0, <1>7 DEF JobRead, JobInv
  <2>3. \/ wpc' = "mark" /\ snap' = row[job]
        \/ wpc' = "report" /\ snap' = snap
    BY <1>7 DEF JobRead, Goes
  <2>4. STypes'
    <3>1. snap' \in Rows
      BY <1>0, <2>2, <2>3 DEF STypes
    <3> QED BY <1>0, <2>1, <2>3, <3>1 DEF STypes, WorkPc
  <2>5. FreshInv' /\ RowInv' /\ ReqInv' /\ ServeInv'
    BY <1>0, <2>1, <2>2, StillKeeps
  <2>6. JobInv'
    BY <2>1, <2>2, <2>3 DEF JobInv, InSession
  <2> QED BY <2>4, <2>5, <2>6 DEF SInv
<1>8. ASSUME JobMark PROVE SInv'
  <2> DEFINE new == [snap EXCEPT !.status = "processing", !.reason = FALSE]
             p == FirstStage(content[job])
  <2>1. wpc = "mark" /\ job \in Adapters
    BY <1>0, <1>8 DEF JobMark, JobInv
  <2>2. /\ new \in Rows
        /\ new.status = "processing" /\ new.gguf = snap.gguf /\ new.metrics = snap.metrics
    BY <1>0, <1>8 DEF STypes, Rows, Status, Metrics
  <2>3. /\ p \in WorkPc /\ p \in {"fail", "convert", "probe"}
        /\ p # "fail" => Flaw[content[job]] # "dataset"
        /\ p = "probe" => content[job] \notin Peft /\ Flaw[content[job]] # "convert"
    BY <1>0, <1>8, <2>1 DEF FirstStage, WorkPc, STypes
  <2>4. Commit(new, p)
    BY <1>8 DEF JobMark
  <2> HIDE DEF new, p
  <2>5. Commits(new, p)
    BY <1>0, <2>1, <2>2, <2>3, <2>4, CommitCommits
  <2>6. UNCHANGED <<clock, made, content, req, app, stuck, disk, queue, endpoint>>
    BY <1>0, <2>1, <2>2, <2>3, <2>4, CommitCommits DEF reqVars, appVars
  <2>7. Mild
    <3>1. ASSUME NEW b \in Adapters
          PROVE  /\ Exists(b)' <=> Exists(b)
                 /\ row'[b].status = "passed" => row[b].status = "passed"
                 /\ row'[b].metrics = row[b].metrics
                 /\ row[b].gguf => row'[b].gguf
      <4>1. CASE b # job
        BY <2>5, <4>1 DEF Commits, Exists
      <4>2. CASE b = job
        BY <2>2, <2>5 DEF Commits, Exists
      <4> QED BY <4>1, <4>2
    <3> QED BY <2>5, <3>1 DEF Mild, Commits
  <2>8. job' \in {job, None}
    BY <2>5 DEF Commits
  <2>9. STypes'
    BY <1>0, <2>3, <2>5, <2>6 DEF STypes, WorkPc, Commits
  <2>10. FreshInv'
    BY <1>0, <2>6, <2>7, <2>8, MildKeeps
  <2>11. RowInv'
    BY <1>0, <2>6, <2>7, MildRows
  <2>12. ReqInv'
    BY <1>0, <2>6, <2>7, <2>8, MildKeeps
  <2>13. JobInv'
    BY <1>0, <2>1, <2>2, <2>3, <2>5, <2>6 DEF JobInv, RowInv, RowGood, Exists, InSession,
       Commits
  <2>14. ServeInv'
    BY <1>0, <2>6, <2>7, <2>8, MildKeeps
  <2> QED BY <2>9, <2>10, <2>11, <2>12, <2>13, <2>14 DEF SInv
<1>9. ASSUME JobConvert PROVE SInv'
  <2>1. UNCHANGED <<clock, made, content, req, endpoint, app, stuck, row, queue, snap,
                    job, metrics>>
    BY <1>9 DEF JobConvert, WorkerFrame, Goes, appVars, reqVars, JobGoes
  <2>2. wpc = "convert" /\ job \in Adapters
    BY <1>0, <1>9 DEF JobConvert, JobInv
  <2>3. \/ disk[job] \in {"partial", "whole"} /\ wpc' = "converted" /\ disk' = disk
        \/ wpc' = "fail" /\ disk' = disk
        \/ /\ disk[job] = "peft" /\ Flaw[content[job]] # "convert"
           /\ wpc' = "write" /\ disk' = [disk EXCEPT ![job] = "partial"]
    BY <1>9 DEF JobConvert, JobGoes, Goes
  <2>4. STypes'
    BY <1>0, <1>a, <2>1, <2>2, <2>3 DEF STypes, WorkPc, Metrics
  <2>5. FreshInv'
    BY <1>0, <2>1 DEF FreshInv, Unknown, Exists
  <2>6. RowInv'
    <3>1. ASSUME NEW b \in Adapters PROVE RowGood(b)'
      <4>1. RowGood(b) /\ (PassesGate(b)' <=> PassesGate(b)) /\ (Exists(b)' <=> Exists(b))
        BY <1>0, <2>1 DEF RowInv, PassesGate, Exists
      <4>2. \/ disk'[b] = disk[b]
            \/ b = job /\ disk[b] = "peft" /\ Flaw[content[b]] # "convert"
        BY <1>0, <2>2, <2>3 DEF STypes
      <4> QED BY <2>1, <4>1, <4>2 DEF RowGood
    <3> QED BY <3>1 DEF RowInv
  <2>7. ReqInv'
    BY <1>0, <1>a, <2>1, <2>2, <2>3 DEF STypes, ReqInv, Exists
  <2>8. JobInv'
    BY <1>0, <2>1, <2>2, <2>3 DEF JobInv, RowInv, RowGood, Exists, InSession
  <2>9. ServeInv'
    BY <1>0, <1>a, <2>1, <2>2, <2>3 DEF STypes, ServeInv
  <2> QED BY <2>4, <2>5, <2>6, <2>7, <2>8, <2>9 DEF SInv
<1>10. ASSUME ConvertEnd PROVE SInv'
  <2>1. UNCHANGED <<clock, made, content, req, endpoint, app, stuck, row, queue, snap,
                    job, metrics>>
    BY <1>10 DEF ConvertEnd, WorkerFrame, Goes, appVars, reqVars, JobGoes
  <2>2. wpc = "write" /\ job \in Adapters
    BY <1>0, <1>10 DEF ConvertEnd, JobInv
  <2>3. \/ wpc' = "fail" /\ disk' = disk
        \/ wpc' = "converted" /\ disk' = [disk EXCEPT ![job] = "whole"]
    BY <1>10 DEF ConvertEnd, JobGoes, Goes
  <2>4. STypes'
    BY <1>0, <1>a, <2>1, <2>2, <2>3 DEF STypes, WorkPc, Metrics
  <2>5. FreshInv'
    BY <1>0, <2>1 DEF FreshInv, Unknown, Exists
  <2>6. RowInv'
    <3>1. ASSUME NEW b \in Adapters PROVE RowGood(b)'
      <4>1. RowGood(b) /\ (PassesGate(b)' <=> PassesGate(b)) /\ (Exists(b)' <=> Exists(b))
        BY <1>0, <2>1 DEF RowInv, PassesGate, Exists
      <4>2. \/ disk'[b] = disk[b]
            \/ b = job /\ disk'[b] = "whole" /\ Flaw[content[b]] # "convert"
        BY <1>0, <2>2, <2>3 DEF STypes, JobInv
      <4> QED BY <2>1, <4>1, <4>2 DEF RowGood
    <3> QED BY <3>1 DEF RowInv
  <2>7. ReqInv'
    BY <1>0, <1>a, <2>1, <2>2, <2>3 DEF STypes, ReqInv, Exists
  <2>8. JobInv'
    BY <1>0, <2>1, <2>2, <2>3 DEF JobInv, Exists, InSession
  <2>9. ServeInv'
    BY <1>0, <1>a, <2>1, <2>2, <2>3 DEF STypes, ServeInv
  <2> QED BY <2>4, <2>5, <2>6, <2>7, <2>8, <2>9 DEF SInv
<1>11. ASSUME JobConverted PROVE SInv'
  <2> DEFINE new == [snap EXCEPT !.gguf = TRUE]
             p == "probe"
  <2>1. wpc = "converted" /\ job \in Adapters
    BY <1>0, <1>11 DEF JobConverted, JobInv
  <2>2. /\ new \in Rows
        /\ new.status = snap.status /\ new.gguf = TRUE /\ new.metrics = snap.metrics
    BY <1>0, <1>11 DEF STypes, Rows, Status, Metrics
  <2>3. p \in WorkPc /\ p = "probe"
    BY <1>0, <1>11, <2>1 DEF WorkPc, STypes
  <2>4. Commit(new, p)
    BY <1>11 DEF JobConverted
  <2> HIDE DEF new, p
  <2>5. Commits(new, p)
    BY <1>0, <2>1, <2>2, <2>3, <2>4, CommitCommits
  <2>6. UNCHANGED <<clock, made, content, req, app, stuck, disk, queue, endpoint>>
    BY <1>0, <2>1, <2>2, <2>3, <2>4, CommitCommits DEF reqVars, appVars
  <2>7. Mild
    <3>1. ASSUME NEW b \in Adapters
          PROVE  /\ Exists(b)' <=> Exists(b)
                 /\ row'[b].status = "passed" => row[b].status = "passed"
                 /\ row'[b].metrics = row[b].metrics
                 /\ row[b].gguf => row'[b].gguf
      <4>1. CASE b # job
        BY <2>5, <4>1 DEF Commits, Exists
      <4>2. CASE b = job
        BY <2>2, <2>5 DEF Commits, Exists
      <4> QED BY <4>1, <4>2
    <3> QED BY <2>5, <3>1 DEF Mild, Commits
  <2>8. job' \in {job, None}
    BY <2>5 DEF Commits
  <2>9. STypes'
    BY <1>0, <2>3, <2>5, <2>6 DEF STypes, WorkPc, Commits
  <2>10. FreshInv'
    BY <1>0, <2>6, <2>7, <2>8, MildKeeps
  <2>11. RowInv'
    BY <1>0, <2>6, <2>7, MildRows
  <2>12. ReqInv'
    BY <1>0, <2>6, <2>7, <2>8, MildKeeps
  <2>13. JobInv'
    BY <1>0, <2>1, <2>2, <2>3, <2>5, <2>6 DEF JobInv, Exists, InSession, Commits
  <2>14. ServeInv'
    BY <1>0, <2>6, <2>7, <2>8, MildKeeps
  <2> QED BY <2>9, <2>10, <2>11, <2>12, <2>13, <2>14 DEF SInv
<1>12. ASSUME JobProbe PROVE SInv'
  <2>1. UNCHANGED <<clock, made, content, req, endpoint, app, stuck, row, queue, snap,
                    job, metrics, disk>>
    BY <1>12 DEF JobProbe, WorkerFrame, Goes, appVars, reqVars, JobGoes
  <2>2. wpc = "probe" /\ job \in Adapters
    BY <1>0, <1>12 DEF JobProbe, JobInv
  <2>3. \/ wpc' = "fail"
        \/ wpc' = "score" /\ disk[job] = "whole" /\ Flaw[content[job]] # "probe"
    BY <1>12 DEF JobProbe, JobGoes, Goes
  <2>4. STypes'
    BY <1>0, <1>a, <2>1, <2>2, <2>3 DEF STypes, WorkPc, Metrics
  <2>5. FreshInv' /\ RowInv' /\ ReqInv' /\ ServeInv'
    BY <1>0, <2>1, <2>2, StillKeeps
  <2>6. JobInv'
    BY <1>0, <2>1, <2>2, <2>3 DEF STypes, JobInv, Exists, InSession
  <2> QED BY <2>4, <2>5, <2>6 DEF SInv
<1>13. ASSUME JobScore PROVE SInv'
  <2>1. UNCHANGED <<clock, made, content, req, endpoint, app, stuck, row, queue, snap,
                    job, disk>>
    BY <1>13 DEF JobScore, WorkerFrame, Goes, appVars, reqVars, JobGoes
  <2>2. wpc = "score" /\ job \in Adapters
    BY <1>0, <1>13 DEF JobScore, JobInv
  <2>3. \/ wpc' = "fail" /\ metrics' = metrics
        \/ wpc' = "decide" /\ metrics' = IF PassesGate(job) THEN "pass" ELSE "fail"
    BY <1>13 DEF JobScore, JobGoes, PassesGate, Goes
  <2>4. STypes'
    BY <1>0, <1>a, <2>1, <2>2, <2>3 DEF STypes, WorkPc, Metrics
  <2>5. FreshInv' /\ RowInv' /\ ReqInv' /\ ServeInv'
    BY <1>0, <2>1, <2>2, StillKeeps
  <2>6. JobInv'
    BY <1>0, <2>1, <2>2, <2>3 DEF JobInv, PassesGate, Exists, InSession
  <2> QED BY <2>4, <2>5, <2>6 DEF SInv
<1>14. ASSUME JobDecide PROVE SInv'
  <2> DEFINE new == IF metrics = "pass"
                    THEN [snap EXCEPT !.metrics = metrics, !.status = "passed"]
                    ELSE [snap EXCEPT !.metrics = metrics, !.status = "failed", !.reason = TRUE]
             p == "report"
  <2>1. wpc = "decide" /\ job \in Adapters
    BY <1>0, <1>14 DEF JobDecide, JobInv
  <2>2. /\ new \in Rows /\ new.metrics = metrics /\ new.gguf = snap.gguf
        /\ new.status = IF metrics = "pass" THEN "passed" ELSE "failed"
    BY <1>0, <1>14 DEF STypes, Rows, Status, Metrics
  <2>3. p \in WorkPc /\ p = "report"
    BY <1>0, <1>14, <2>1 DEF WorkPc, STypes
  <2>4. Commit(new, p)
    BY <1>14 DEF JobDecide
  <2> HIDE DEF new, p
  <2>5. Commits(new, p)
    BY <1>0, <2>1, <2>2, <2>3, <2>4, CommitCommits
  <2>6. UNCHANGED <<clock, made, content, req, app, stuck, disk, queue, endpoint>>
    BY <1>0, <2>1, <2>2, <2>3, <2>4, CommitCommits DEF reqVars, appVars
  <2>7. /\ metrics = IF PassesGate(job) THEN "pass" ELSE "fail"
        /\ row[job].metrics = "pass" => metrics = "pass"
    BY <1>0, <2>1 DEF JobInv, RowInv, RowGood
  <2>8. ASSUME Exists(job)
        PROVE  /\ row'[job].status # "absent" /\ row'[job].metrics \in {row[job].metrics, metrics}
               /\ row[job].metrics = "pass" => row'[job].metrics = "pass"
               /\ row'[job].status = "passed" => row'[job].metrics = "pass"
               /\ row'[job].gguf
    <3>1. row[job].gguf /\ snap.gguf = row[job].gguf /\ snap.metrics = row[job].metrics
      BY <1>0, <2>1, <2>8 DEF JobInv, InSession
    <3>2. row[job].status = "passed" => row[job].metrics = "pass"
      BY <1>0, <2>1 DEF RowInv, RowGood
    <3>3. CASE row'[job] = row[job]
      BY <2>8, <3>1, <3>2, <3>3 DEF Exists
    <3>4. CASE row'[job] # row[job]
      <4>1. row'[job].gguf = row[job].gguf
        BY <2>2, <2>5, <2>8, <3>4 DEF Commits
      <4>2. row'[job].metrics = metrics
        BY <2>2, <2>5, <2>8, <3>1, <3>4 DEF Commits
      <4>3. /\ row'[job].status # "absent"
            /\ row'[job].status = "passed" => metrics = "pass" \/ row[job].status = "passed"
        BY <2>2, <2>5, <2>8, <3>4 DEF Commits, Exists
      <4> QED BY <2>7, <3>1, <3>2, <4>1, <4>2, <4>3
    <3> QED BY <3>3, <3>4
  <2>9. STypes'
    BY <1>0, <2>3, <2>5, <2>6 DEF STypes, WorkPc, Commits
  <2>10. FreshInv'
    <3>1. \A b \in Adapters : Exists(b)' => Exists(b)
      BY <1>0, <2>1, <2>5 DEF Commits, Exists
    <3>2. \A b \in Adapters : Unknown(b) => Unknown(b)'
      BY <2>5, <2>6, <3>1, AdaptersAssumption DEF Unknown, Commits
    <3> QED BY <1>0, <2>6, <3>2 DEF FreshInv, ReqInv
  <2>11. RowInv'
    <3>1. ASSUME NEW b \in Adapters PROVE RowGood(b)'
      <4>1. (PassesGate(b)' <=> PassesGate(b)) /\ RowGood(b) /\ disk' = disk /\ content' = content
        BY <1>0, <2>6 DEF PassesGate, RowInv
      <4>2. CASE row'[b] = row[b]
        BY <4>1, <4>2 DEF RowGood, Exists
      <4>3. CASE b = job /\ Exists(job)
        <5>1. disk[job] = "whole" /\ Flaw[content[job]] = "none"
          BY <1>0, <2>1, <4>3 DEF JobInv
        <5>2. row'[job].metrics = "pass" => PassesGate(job)
          BY <2>7, <2>8, <4>1, <4>3 DEF RowGood
        <5> QED BY <2>8, <4>1, <4>3, <5>1, <5>2 DEF RowGood, Exists
      <4> QED BY <2>1, <2>5, <4>2, <4>3 DEF Commits
    <3> QED BY <3>1 DEF RowInv
  <2>12. ReqInv'
    <3>1. \A b \in Adapters : /\ Exists(b)' <=> Exists(b)
                              /\ row[b].metrics = "pass" /\ Exists(b) => row'[b].metrics = "pass"
      BY <1>0, <2>1, <2>5, <2>8 DEF Commits, Exists
    <3> QED BY <1>0, <2>6, <3>1 DEF ReqInv, Exists, Removing
  <2>13. JobInv'
    BY <2>1, <2>3, <2>5 DEF JobInv, InSession, Commits
  <2>14. ServeInv'
    BY <1>0, <2>2, <2>5, <2>6, <2>7 DEF STypes, ServeInv, Commits
  <2> QED BY <2>9, <2>10, <2>11, <2>12, <2>13, <2>14 DEF SInv
<1>15. ASSUME JobFail PROVE SInv'
  <2> DEFINE new == [snap EXCEPT !.status = "failed", !.reason = TRUE]
             p == "report"
  <2>1. wpc = "fail" /\ job \in Adapters
    BY <1>0, <1>15 DEF JobFail, JobInv
  <2>2. /\ new \in Rows
        /\ new.status = "failed" /\ new.gguf = snap.gguf /\ new.metrics = snap.metrics
    BY <1>0, <1>15 DEF STypes, Rows, Status, Metrics
  <2>3. p \in WorkPc /\ p = "report"
    BY <1>0, <1>15, <2>1 DEF WorkPc, STypes
  <2>4. Commit(new, p)
    BY <1>15 DEF JobFail
  <2> HIDE DEF new, p
  <2>5. Commits(new, p)
    BY <1>0, <2>1, <2>2, <2>3, <2>4, CommitCommits
  <2>6. UNCHANGED <<clock, made, content, req, app, stuck, disk, queue, endpoint>>
    BY <1>0, <2>1, <2>2, <2>3, <2>4, CommitCommits DEF reqVars, appVars
  <2>7. Mild
    <3>1. ASSUME NEW b \in Adapters
          PROVE  /\ Exists(b)' <=> Exists(b)
                 /\ row'[b].status = "passed" => row[b].status = "passed"
                 /\ row'[b].metrics = row[b].metrics
                 /\ row[b].gguf => row'[b].gguf
      <4>1. CASE b # job
        BY <2>5, <4>1 DEF Commits, Exists
      <4>2. CASE b = job
        BY <2>2, <2>5 DEF Commits, Exists
      <4> QED BY <4>1, <4>2
    <3> QED BY <2>5, <3>1 DEF Mild, Commits
  <2>8. job' \in {job, None}
    BY <2>5 DEF Commits
  <2>9. STypes'
    BY <1>0, <2>3, <2>5, <2>6 DEF STypes, WorkPc, Commits
  <2>10. FreshInv'
    BY <1>0, <2>6, <2>7, <2>8, MildKeeps
  <2>11. RowInv'
    BY <1>0, <2>6, <2>7, MildRows
  <2>12. ReqInv'
    BY <1>0, <2>6, <2>7, <2>8, MildKeeps
  <2>13. JobInv'
    BY <2>1, <2>3, <2>5 DEF JobInv, InSession, Commits
  <2>14. ServeInv'
    BY <1>0, <2>6, <2>7, <2>8, MildKeeps
  <2> QED BY <2>9, <2>10, <2>11, <2>12, <2>13, <2>14 DEF SInv
<1>16. ASSUME JobStageRaises PROVE SInv'
  <2>1. UNCHANGED <<clock, made, content, req, endpoint, app, stuck, row, disk, queue,
                    snap, metrics, job>>
    BY <1>16 DEF JobStageRaises, WorkerFrame, Goes, appVars, reqVars
  <2>2. wpc \in {"convert", "probe", "score"} /\ wpc' = "fail"
    BY <1>16 DEF JobStageRaises, Goes
  <2>3. STypes'
    BY <1>0, <1>a, <2>1, <2>2 DEF STypes, WorkPc, Metrics
  <2>4. FreshInv' /\ RowInv' /\ ReqInv' /\ ServeInv'
    BY <1>0, <2>1, <2>2, StillKeeps
  <2>5. JobInv'
    BY <1>0, <2>1, <2>2 DEF JobInv, Exists, InSession
  <2> QED BY <2>3, <2>4, <2>5 DEF SInv
<1>17. ASSUME Sigterm PROVE SInv'
  <2>1. UNCHANGED <<clock, made, content, req, endpoint, app, stuck, row, disk>>
    BY <1>17 DEF Sigterm, WorkerFrame, appVars, reqVars
  <2>2. wpc' = "down" /\ job' = None /\ snap' = NoRow /\ metrics' = "none"
    BY <1>17 DEF Sigterm, Leaves
  <2>3. /\ queue' \in Seq(Adapters)
        /\ \A b \in Adapters : OnList(queue', b) => OnList(queue, b) \/ b = job
    BY <1>0, <1>17, ListPush DEF Sigterm, STypes
  <2>4. STypes'
    BY <1>0, <1>a, <2>1, <2>2, <2>3 DEF STypes, WorkPc, Metrics
  <2>5. FreshInv'
    BY <1>0, <2>1, <2>2, <2>3 DEF FreshInv, ReqInv, Unknown, Exists
  <2>6. RowInv'
    BY <1>0, <2>1 DEF RowInv, RowGood, PassesGate, Exists
  <2>7. ReqInv'
    BY <1>0, <1>a, <2>1, <2>2, <2>3 DEF STypes, ReqInv, Exists
  <2>8. JobInv'
    BY <2>2 DEF JobInv, InSession
  <2>9. ServeInv'
    BY <1>0, <1>a, <2>1, <2>2, <2>3 DEF STypes, ServeInv
  <2> QED BY <2>4, <2>5, <2>6, <2>7, <2>8, <2>9 DEF SInv
<1> QED
  BY <1>1, <1>2, <1>3, <1>4, <1>5, <1>6, <1>7, <1>8, <1>9, <1>10, <1>11, <1>12, <1>13,
     <1>14, <1>15, <1>16, <1>17 DEF AppStep, WorkerStep

\* Every step keeps the invariant.
LEMMA ServeStep == SInv /\ [Next]_vars => SInv'
<1>1. ASSUME SInv, UNCHANGED vars PROVE SInv'
  <2> USE <1>1 DEF SInv, vars, reqVars, appVars, workVars, Exists
  <2>1. STypes'
    BY DEF STypes
  <2>2. FreshInv' /\ ReqInv' /\ ServeInv'
    BY DEF FreshInv, Unknown, ReqInv, ServeInv
  <2>3. RowInv'
    BY DEF RowInv, RowGood, PassesGate
  <2>4. JobInv'
    BY DEF JobInv, PassesGate
  <2> QED BY <2>1, <2>2, <2>3, <2>4
<1> QED BY <1>1, RequestKeeps, WorkerKeeps DEF Next, Disturbance, Quits

\* A score that passes the gate is no worse than that of the base, but for what
\* the two roundings may give it.
LEMMA GateBounds ==
  ASSUME NEW c \in Contents, Passes(Score[c], Delta[c])
  PROVE  Score[c] >= Base[c] - 2 * Eps
BY AdaptersAssumption DEF Passes

\* For any adapters, contents, requests and disturbances, the endpoint serves an
\* adapter that exists, is whole on disk, loads, passed the gate and is no worse
\* than its base (the foreign key, delete_adapter's order, process_adapter).
THEOREM EndpointSound == Spec => []ServesSound
<1>1. SInv => ServesSound
  <2> SUFFICES ASSUME SInv, endpoint # None PROVE ServesSound
    BY DEF ServesSound
  <2>1. endpoint \in Adapters /\ row[endpoint].metrics = "pass"
    BY DEF SInv, STypes, ServeInv
  <2>2. /\ Exists(endpoint) /\ row[endpoint].gguf /\ disk[endpoint] = "whole"
        /\ Flaw[content[endpoint]] = "none" /\ PassesGate(endpoint)
    BY <2>1 DEF SInv, RowInv, RowGood
  <2>3. content[endpoint] \in Contents
    BY <2>1 DEF SInv, STypes
  <2>4. Score[content[endpoint]] >= Base[content[endpoint]] - 2 * Eps
    BY <2>2, <2>3, GateBounds DEF PassesGate
  <2> QED BY <2>1, <2>2, <2>4 DEF ServesSound
<1> QED BY <1>1, ServeInit, ServeStep, PTL DEF Spec

-----------------------------------------------------------------------------
(* Who moves requests, makes rows and writes the trail.                     *)

\* The steps of the worker, the failures of its job and its stops.
WorkerMoves ==
    \/ WorkerStep \/ JobDropped \/ JobStageRaises \/ JobSessionRaises
    \/ Sigterm \/ WorkerKilled

RequestMoves(r) ==
    \/ Client(r) \/ RequestStep(r) \/ UploadCommitFails(r) \/ UploadEnqueueFails(r)
    \/ Quits(r) \/ DeleteCommitFails(r)

LEMMA Movers ==
  ASSUME [Next]_vars
  PROVE  \/ \E r \in Reqs : RequestMoves(r)
         \/ SweepRead \/ SweepCommit \/ AppCrash
         \/ WorkerMoves
         \/ UNCHANGED vars
BY DEF Next, AppStep, Disturbance, RequestMoves, Quits, WorkerMoves

\* The worker touches no request, no endpoint and nothing of the app's.
LEMMA WorkerQuiet ==
  ASSUME WorkerMoves
  PROVE  UNCHANGED <<endpoint, trail, clock, req, made, content, app, stuck>>
<1>1. WorkerFrame => UNCHANGED <<endpoint, trail, clock, req, made, content, app, stuck>>
  BY DEF WorkerFrame, reqVars, appVars
<1>2. ASSUME NEW new, NEW p, Commit(new, p) PROVE WorkerFrame
  BY <1>2 DEF Commit
<1>3. ASSUME NEW p, JobGoes(p) PROVE WorkerFrame
  BY <1>3 DEF JobGoes
<1>4. WorkerStep => WorkerFrame
  BY <1>2, <1>3 DEF WorkerStep, WorkerUp, JobTake, JobRead, JobMark, JobConvert, ConvertEnd,
     JobConverted, JobProbe, JobScore, JobDecide, JobFail, JobReport
<1>5. JobDropped \/ JobStageRaises \/ JobSessionRaises \/ Sigterm \/ WorkerKilled => WorkerFrame
  BY DEF JobDropped, JobStageRaises, JobSessionRaises, Sigterm, WorkerKilled
<1> QED BY <1>1, <1>4, <1>5 DEF WorkerMoves

\* The moves of one request.
Started(s) ==
    /\ req[s].pc = "idle" /\ req'[s].pc \in {"commit", "create", "promote", "drop"}
    /\ clock' = clock + 1 /\ clock < MaxRequests /\ req'[s].at = clock'
Advanced(s, p, q) ==
    /\ req[s].pc = p /\ req'[s].pc = q
    /\ req'[s].adp = req[s].adp /\ req'[s].at = req[s].at
    /\ clock' = clock
Answered(s) == req'[s] = NoRequest /\ clock' = clock
Bound(s) == req[s].pc = "create" /\ req'[s].pc = "bind" /\ req'[s].at = req[s].at /\ clock' = clock

Moved(s) ==
    \/ Started(s) \/ Answered(s) \/ Bound(s)
    \/ Advanced(s, "commit", "enqueue") \/ Advanced(s, "enqueue", "refuse")
    \/ Advanced(s, "drop", "remove") \/ Advanced(s, "promote", "served")
    \/ Advanced(s, "remove", "unlink") \/ Advanced(s, "remove", "unlink_peft")
    \/ Advanced(s, "served", "rebind") /\ PromoteServed(s)

LEMMA GoToAdvances ==
  ASSUME STypes, NEW r \in Reqs, NEW p \in ReqPc, GoTo(r, p)
  PROVE  Advanced(r, req[r].pc, p) /\ \A s \in Reqs : s # r => req'[s] = req[s]
BY DEF STypes, Advanced, ReqType, GoTo, RequestFrame

LEMMA EndAnswers ==
  ASSUME STypes, NEW r \in Reqs, End(r)
  PROVE  Answered(r) /\ \A s \in Reqs : s # r => req'[s] = req[s]
BY DEF STypes, Answered, ReqType, End, RequestFrame

LEMMA BeginStarts ==
  ASSUME STypes, NEW r \in Reqs, NEW p \in {"commit", "create", "promote", "drop"},
         NEW a \in Adapters \cup {None}, Begin(r, p, a)
  PROVE  Started(r) /\ \A s \in Reqs : s # r => req'[s] = req[s]
<1> DEFINE q == [NoRequest EXCEPT !.pc = p, !.adp = a, !.at = clock + 1]
<1>1. q.pc = p /\ q.at = clock + 1
  BY DEF NoRequest
<1>2. req' = [req EXCEPT ![r] = q] /\ clock' = clock + 1 /\ req[r].pc = "idle" /\ clock < MaxRequests
  BY DEF Begin
<1> HIDE DEF q
<1> QED BY <1>1, <1>2 DEF STypes, Started

\* One request moves at a time.
LEMMA RequestMoved ==
  ASSUME SInv, NEW r \in Reqs, RequestMoves(r)
  PROVE  Moved(r) /\ \A s \in Reqs : s # r => req'[s] = req[s]
<1>0. STypes
  BY DEF SInv
<1> DEFINE Goal == Moved(r) /\ \A s \in Reqs : s # r => req'[s] = req[s]
<1>1. ASSUME Client(r) PROVE Goal
  BY <1>0, <1>1, BeginStarts DEF Client, CreateBegin, PromoteBegin, DeleteCheck, Upload, Moved
<1>2. ASSUME UploadCommit(r) PROVE Goal
  BY <1>0, <1>2, GoToAdvances DEF UploadCommit, Moved, ReqPc
<1>3. ASSUME UploadEnqueue(r) \/ UploadRefuse(r) \/ DeleteFiles(r) \/ UploadCommitFails(r)
             \/ CreateCommit(r) \/ PromoteCommit(r) \/ Quits(r) \/ DeleteCommitFails(r)
      PROVE  Goal
  BY <1>0, <1>3, EndAnswers DEF UploadEnqueue, UploadRefuse, DeleteFiles, UploadCommitFails,
     CreateCommit, PromoteCommit, Quits, UploadRefreshRaises, UploadRefuseFails,
     DeleteCommitFails, Moved
<1>4. ASSUME DeleteCommit(r) \/ UploadEnqueueFails(r) \/ PromoteRead(r) \/ DeleteList(r)
      PROVE  Goal
  BY <1>0, <1>4, EndAnswers, GoToAdvances DEF DeleteCommit, UploadEnqueueFails, PromoteRead,
     DeleteList, Moved, ReqPc
<1>5. ASSUME CreateRead(r) PROVE Goal
  <2>1. CASE End(r)
    BY <1>0, <2>1, EndAnswers DEF Moved
  <2>2. ASSUME NEW a, req' = [req EXCEPT ![r].pc = "bind", ![r].adp = a], RequestFrame
        PROVE  Goal
    BY <1>0, <1>5, <2>2 DEF STypes, ReqType, RequestFrame, Bound, Moved, CreateRead
  <2> QED BY <1>5, <2>1, <2>2 DEF CreateRead
<1>6. ASSUME PromoteServed(r) PROVE Goal
  <2>1. PICK l : req' = [req EXCEPT ![r].pc = "rebind", ![r].label = l]
    BY <1>6 DEF PromoteServed
  <2>2. clock' = clock /\ req[r].pc = "served"
    BY <1>6 DEF PromoteServed, RequestFrame
  <2>3. Advanced(r, "served", "rebind") /\ \A s \in Reqs : s # r => req'[s] = req[s]
    BY <1>0, <2>1, <2>2 DEF STypes, ReqType, Advanced
  <2> QED BY <1>6, <2>3 DEF Moved
<1> QED BY <1>1, <1>2, <1>3, <1>4, <1>5, <1>6 DEF RequestMoves, RequestStep

\* Every request moves, or stays, or is dropped by the app's crash.
LEMMA ReqWriters ==
  ASSUME SInv, [Next]_vars, NEW s \in Reqs
  PROVE  (req'[s] = req[s] /\ clock' \in {clock, clock + 1}) \/ Moved(s)
<1>1. ASSUME NEW r \in Reqs, RequestMoves(r)
      PROVE  (req'[s] = req[s] /\ clock' \in {clock, clock + 1}) \/ Moved(s)
  BY <1>1, RequestMoved DEF Moved, Started, Answered, Bound, Advanced
<1>2. ASSUME SweepRead \/ SweepCommit \/ WorkerMoves \/ UNCHANGED vars
      PROVE  req'[s] = req[s] /\ clock' = clock
  BY <1>2, WorkerQuiet DEF SweepRead, SweepCommit, vars, reqVars
<1>3. ASSUME AppCrash PROVE Answered(s)
  BY <1>3 DEF AppCrash, Answered
<1> QED BY <1>1, <1>2, <1>3, Movers DEF Moved

\* A row appears only with the commit of its upload.
LEMMA Births ==
  ASSUME SInv, [Next]_vars, NEW b \in Adapters, ~Exists(b), Exists(b)'
  PROVE  \E r \in Reqs : /\ req[r].pc = "commit" /\ req[r].adp = b
                         /\ UploadCommit(r) \/ UploadCommitFails(r)
<1>0. STypes /\ ReqInv /\ JobInv
  BY DEF SInv
<1>1. ASSUME UNCHANGED row PROVE FALSE
  BY <1>1 DEF Exists
<1>2. ASSUME NEW r \in Reqs, RequestMoves(r)
      PROVE  req[r].pc = "commit" /\ req[r].adp = b /\ (UploadCommit(r) \/ UploadCommitFails(r))
  <2>1. CASE Client(r)
    BY <1>1, <2>1 DEF Client, CreateBegin, PromoteBegin, DeleteCheck, Upload, Begin
  <2>2. CASE UploadCommit(r) \/ UploadCommitFails(r)
    <3>1. req[r].pc = "commit" /\ req[r].adp \in Adapters
      BY <1>0, <2>2 DEF ReqInv, UploadCommit, UploadCommitFails
    <3>2. row' = [row EXCEPT ![req[r].adp] = Uploaded(req[r].adp)] \/ row' = row
      BY <2>2 DEF UploadCommit, UploadCommitFails
    <3>3. req[r].adp = b
      BY <1>0, <3>1, <3>2 DEF STypes, Exists
    <3> QED BY <2>2, <3>1, <3>3
  <2>3. CASE UploadRefuse(r)
    <3>1. req[r].adp \in Adapters
      BY <1>0, <2>3 DEF ReqInv, UploadRefuse
    <3>2. Tame
      BY <1>0, <2>3, <3>1, RefuseTame DEF UploadRefuse
    <3> QED BY <3>2 DEF Tame, Mild
  <2>4. CASE DeleteCommit(r) \/ DeleteCommitFails(r)
    <3>1. CASE UNCHANGED row
      BY <1>1, <3>1
    <3>2. CASE row' = [row EXCEPT ![req[r].adp] = NoRow]
      BY <1>0, <3>2 DEF STypes, Exists, NoRow
    <3> QED BY <2>4, <3>1, <3>2 DEF DeleteCommit, DeleteCommitFails
  <2>5. CASE UploadEnqueue(r) \/ DeleteFiles(r) \/ CreateRead(r) \/ CreateCommit(r)
             \/ PromoteRead(r) \/ PromoteServed(r) \/ PromoteCommit(r) \/ UploadEnqueueFails(r)
             \/ Quits(r) \/ DeleteList(r)
    BY <1>1, <2>5 DEF UploadEnqueue, DeleteFiles, CreateRead, CreateCommit, PromoteRead,
       PromoteServed, PromoteCommit, UploadEnqueueFails, Quits, UploadRefreshRaises,
       UploadRefuseFails, DeleteList
  <2> QED BY <1>2, <2>1, <2>2, <2>3, <2>4, <2>5 DEF RequestMoves, RequestStep
<1>3. ASSUME SweepRead \/ AppCrash \/ UNCHANGED vars PROVE FALSE
  BY <1>1, <1>3 DEF SweepRead, AppCrash, vars
<1>4. ASSUME SweepCommit PROVE FALSE
  BY <1>0, <1>4, SweepTame DEF Tame, Mild
<1>5. ASSUME NEW new, NEW p, Commit(new, p), job \in Adapters PROVE FALSE
  <2>1. CASE ~Exists(job) /\ new # snap
    BY <1>1, <1>5, <2>1 DEF Commit
  <2>2. CASE new = snap \/ Exists(job)
    <3>1. row' = [row EXCEPT ![job] = IF new = snap THEN row[job] ELSE Merge(new, row[job])]
      BY <1>0, <1>5, <2>2 DEF Commit, STypes
    <3>2. b = job => new = snap
      BY <2>2
    <3> QED BY <1>0, <3>1, <3>2 DEF STypes, Exists
  <2> QED BY <2>1, <2>2
<1>6. ASSUME NEW p, JobGoes(p) PROVE FALSE
  BY <1>1, <1>6 DEF JobGoes
<1>7. ASSUME WorkerMoves PROVE FALSE
  <2>1. wpc \notin {"down", "idle"} => job \in Adapters
    BY <1>0 DEF JobInv
  <2>2. CASE JobMark \/ JobConverted \/ JobDecide \/ JobFail
    BY <1>5, <2>1, <2>2 DEF JobMark, JobConverted, JobDecide, JobFail
  <2>3. CASE JobConvert \/ ConvertEnd \/ JobProbe \/ JobScore
    BY <1>6, <2>3 DEF JobConvert, ConvertEnd, JobProbe, JobScore
  <2>4. CASE WorkerUp \/ JobTake \/ JobRead \/ JobReport
    BY <1>1, <2>4 DEF WorkerUp, JobTake, JobRead, JobReport
  <2>5. CASE JobDropped \/ JobStageRaises \/ JobSessionRaises \/ Sigterm \/ WorkerKilled
    BY <1>1, <2>5 DEF JobDropped, JobStageRaises, JobSessionRaises, Sigterm, WorkerKilled
  <2> QED BY <1>7, <2>2, <2>3, <2>4, <2>5 DEF WorkerMoves, WorkerStep
<1> QED BY <1>2, <1>3, <1>4, <1>7, Movers

\* Until then nobody but its upload and promotions to be refused knows of it.
LEMMA BirthsUnknown ==
  ASSUME SInv, [Next]_vars, NEW b \in Adapters, ~Exists(b), Exists(b)'
  PROVE  /\ Unknown(b)
         /\ \A s \in Reqs : req[s].adp = b => req[s].pc \in {"commit", "promote"}
BY Births DEF SInv, FreshInv

\* The trail and the endpoint are written by the commits of four requests.
LEMMA TrailWriters ==
  ASSUME SInv, [Next]_vars
  PROVE  \/ UNCHANGED <<trail, endpoint>>
         \/ \E r \in Reqs :
               /\ DeleteCommit(r) \/ DeleteCommitFails(r)
               /\ endpoint' = endpoint /\ trail' = Forget(req[r].adp)
               /\ req[r].adp \in Adapters /\ endpoint # req[r].adp
               /\ row'[req[r].adp] = NoRow /\ req'[r].pc \in {"remove", "idle"}
         \/ \E r \in Reqs :
               /\ CreateCommit(r) /\ endpoint = None /\ req[r].adp \in Adapters
               /\ Bind(r, req[r].adp, "promote")
         \/ \E r \in Reqs :
               /\ PromoteCommit(r) /\ Exists(req[r].adp) /\ req[r].adp \in Adapters
               /\ Bind(r, req[r].adp, req[r].label)
<1>0. STypes /\ ReqInv
  BY DEF SInv
<1>1. ASSUME NEW r \in Reqs, DeleteCommit(r) \/ DeleteCommitFails(r),
             ~UNCHANGED <<trail, endpoint>>
      PROVE  /\ endpoint' = endpoint /\ trail' = Forget(req[r].adp)
             /\ req[r].adp \in Adapters /\ endpoint # req[r].adp
             /\ row'[req[r].adp] = NoRow /\ req'[r].pc \in {"remove", "idle"}
  <2>1. req[r].adp \in Adapters
    BY <1>0, <1>1 DEF ReqInv, DeleteCommit, DeleteCommitFails
  <2>2. /\ endpoint' = endpoint /\ trail' = Forget(req[r].adp) /\ endpoint # req[r].adp
        /\ row' = [row EXCEPT ![req[r].adp] = NoRow] /\ (GoTo(r, "remove") \/ End(r))
    BY <1>1 DEF DeleteCommit, DeleteCommitFails
  <2>3. row'[req[r].adp] = NoRow
    BY <1>0, <2>1, <2>2 DEF STypes
  <2> QED BY <1>0, <2>1, <2>2, <2>3, GoToMoves, EndMoves DEF ReqPc, Moves
<1>2. ASSUME NEW r \in Reqs, CreateCommit(r), ~UNCHANGED <<trail, endpoint>>
      PROVE  endpoint = None /\ Bind(r, req[r].adp, "promote") /\ req[r].adp \in Adapters
  BY <1>0, <1>2 DEF CreateCommit, ReqInv
<1>3. ASSUME NEW r \in Reqs, PromoteCommit(r), ~UNCHANGED <<trail, endpoint>>
      PROVE  Exists(req[r].adp) /\ Bind(r, req[r].adp, req[r].label) /\ req[r].adp \in Adapters
  BY <1>0, <1>3 DEF PromoteCommit, ReqInv
<1>4. ASSUME NEW r \in Reqs, Client(r) PROVE UNCHANGED <<trail, endpoint>>
  BY <1>4 DEF Client, CreateBegin, PromoteBegin, DeleteCheck, Upload, Begin
<1>5. ASSUME NEW r \in Reqs, UploadCommit(r) \/ UploadCommitFails(r) \/ UploadEnqueue(r)
             \/ UploadRefuse(r) \/ UploadEnqueueFails(r) \/ DeleteFiles(r) \/ CreateRead(r)
             \/ PromoteRead(r) \/ PromoteServed(r) \/ Quits(r) \/ DeleteList(r)
      PROVE  UNCHANGED <<trail, endpoint>>
  BY <1>5 DEF UploadCommit, UploadCommitFails, UploadEnqueue, UploadRefuse,
     UploadEnqueueFails, DeleteFiles, CreateRead, PromoteRead, PromoteServed, Quits,
     UploadRefreshRaises, UploadRefuseFails, DeleteList
<1>6. ASSUME SweepRead \/ SweepCommit \/ AppCrash \/ WorkerMoves \/ UNCHANGED vars
      PROVE  UNCHANGED <<trail, endpoint>>
  BY <1>6, WorkerQuiet DEF SweepRead, SweepCommit, AppCrash, vars
<1> QED BY <1>1, <1>2, <1>3, <1>4, <1>5, <1>6, Movers DEF RequestMoves, RequestStep

-----------------------------------------------------------------------------
(* The audit trail.                                                         *)

\* Moments are those of the requests so far, and the trail has rows.
ClockInv ==
    /\ clock <= MaxRequests
    /\ \A a \in Adapters : made[a] <= clock
    /\ \A r \in Reqs : req[r].at <= clock
    /\ trail \in Seq(EventRows)

\* A request about to commit a promotion has missed at most what was committed
\* after it began; the one about to commit a rollback has seen its adapter on the
\* trail, where it stays as long as the adapter does; and without an endpoint
\* nothing has been bound.
LabelInv ==
    /\ endpoint = None => trail = <<>>
    /\ \A r \in Reqs : req[r].pc = "rebind" =>
          /\ req[r].label = "promote" =>
                \A i \in DOMAIN trail :
                    trail[i].adapter = req[r].adp => trail[i].done >= req[r].at
          /\ req[r].label = "rollback" /\ Exists(req[r].adp) => ServedBefore(req[r].adp)

AuditInv == ClockInv /\ LabelInv /\ AuditLabels

LEMMA AuditInit == Init => AuditInv
<1> SUFFICES ASSUME Init PROVE AuditInv
  OBVIOUS
<1> USE AdaptersAssumption DEF Init
<1>1. ClockInv
  BY DEF ClockInv, NoRequest
<1>2. LabelInv /\ AuditLabels
  BY DEF LabelInv, AuditLabels, NoRequest
<1> QED BY <1>1, <1>2 DEF AuditInv

\* made changes for the id of an upload only, with the clock.
LEMMA MadeWriters ==
  ASSUME SInv, [Next]_vars
  PROVE  \/ made' = made /\ content' = content
         \/ \E r \in Reqs, a \in Adapters, c \in Contents : Upload(r, a, c)
<1>1. ASSUME NEW r \in Reqs, \/ RequestStep(r) \/ UploadCommitFails(r) \/ UploadEnqueueFails(r)
                               \/ Quits(r) \/ DeleteCommitFails(r)
      PROVE  made' = made /\ content' = content
  BY <1>1 DEF RequestStep, UploadCommit, UploadEnqueue, UploadRefuse, DeleteCommit,
     DeleteList, DeleteFiles, CreateRead, CreateCommit, PromoteRead, PromoteServed,
     PromoteCommit, UploadCommitFails, UploadEnqueueFails, Quits, UploadRefreshRaises,
     UploadRefuseFails, DeleteCommitFails, GoTo, End, RequestFrame
<1>2. ASSUME SweepRead \/ SweepCommit \/ AppCrash \/ WorkerMoves \/ UNCHANGED vars
      PROVE  made' = made /\ content' = content
  BY <1>2, WorkerQuiet DEF SweepRead, SweepCommit, AppCrash, vars, reqVars
<1>3. ASSUME NEW r \in Reqs, Client(r)
      PROVE  \/ made' = made /\ content' = content
             \/ \E a \in Adapters, c \in Contents : Upload(r, a, c)
  BY <1>3 DEF Client, CreateBegin, PromoteBegin, DeleteCheck
<1> QED BY <1>1, <1>2, <1>3, Movers DEF RequestMoves

LEMMA ClockKept ==
  ASSUME SInv, ClockInv, [Next]_vars
  PROVE  ClockInv' /\ clock' >= clock
<1>0. STypes /\ STypes'
  BY ServeStep DEF SInv
<1>1. clock' \in {clock, clock + 1} /\ (clock' # clock => clock < MaxRequests)
  <2>1. ASSUME NEW r \in Reqs, RequestMoves(r)
        PROVE  clock' \in {clock, clock + 1} /\ (clock' # clock => clock < MaxRequests)
    BY <2>1, RequestMoved DEF Moved, Started, Answered, Bound, Advanced
  <2>2. ASSUME SweepRead \/ SweepCommit \/ AppCrash \/ WorkerMoves \/ UNCHANGED vars
        PROVE  clock' = clock
    BY <2>2, WorkerQuiet DEF SweepRead, SweepCommit, AppCrash, vars, reqVars
  <2> QED BY <2>1, <2>2, Movers
<1>2. clock' >= clock /\ clock' <= MaxRequests
  BY <1>0, <1>1, AdaptersAssumption DEF STypes, ClockInv
<1>3. ASSUME NEW s \in Reqs PROVE req'[s].at <= clock'
  <2>1. req[s].at \in Nat /\ req[s].at <= clock /\ clock \in Nat /\ clock' \in Nat
    BY <1>0 DEF STypes, ReqType, ClockInv
  <2>2. NoRequest.at = 0
    BY DEF NoRequest
  <2> QED BY <1>2, <2>1, <2>2, ReqWriters DEF Moved, Started, Answered, Bound, Advanced
<1>4. ASSUME NEW a \in Adapters PROVE made'[a] <= clock'
  <2>1. made[a] <= clock /\ made[a] \in Nat
    BY <1>0 DEF ClockInv, STypes
  <2>2. ASSUME NEW r \in Reqs, NEW b \in Adapters, NEW c \in Contents, Upload(r, b, c)
        PROVE  made'[a] <= clock'
    BY <1>0, <2>1, <2>2 DEF Upload, Begin, STypes
  <2> QED BY <1>0, <1>2, <2>1, <2>2, MadeWriters DEF STypes
<1>5. trail' \in Seq(EventRows)
  <2>1. ASSUME NEW a \in Adapters PROVE Forget(a) \in Seq(EventRows)
    <3> DEFINE f(i) == IF trail[i].adapter = a THEN [trail[i] EXCEPT !.adapter = None] ELSE trail[i]
    <3>1. /\ DOMAIN trail = 1..Len(trail) /\ Len(trail) \in Nat
          /\ \A i \in 1..Len(trail) : trail[i] \in EventRows
      BY DEF ClockInv
    <3>2. \A i \in 1..Len(trail) : f(i) \in EventRows
      BY <3>1 DEF EventRows
    <3>3. Forget(a) = [i \in 1..Len(trail) |-> f(i)]
      BY <3>1 DEF Forget
    <3> HIDE DEF f
    <3> QED BY <3>1, <3>2, <3>3
  <2>2. ASSUME NEW r \in Reqs, NEW a \in Adapters, NEW l \in {"promote", "rollback"},
               Bind(r, a, l)
        PROVE  trail' \in Seq(EventRows)
    <3>1. req[r].at \in Moment /\ clock \in Moment
      <4>1. req[r] \in ReqType /\ clock \in Nat
        BY <1>0 DEF STypes
      <4>2. req[r].at \in Nat
        BY <4>1 DEF ReqType
      <4> QED BY <4>1, <4>2, AdaptersAssumption DEF ClockInv, Moment
    <3> QED BY <2>2, <3>1 DEF Bind, ClockInv, EventRows
  <2>3. \A r \in Reqs : req[r].label \in {"promote", "rollback"}
    BY <1>0 DEF STypes, ReqType
  <2> QED BY <2>1, <2>2, <2>3, TrailWriters DEF ClockInv
<1> QED BY <1>2, <1>3, <1>4, <1>5 DEF ClockInv

\* What the three kinds of writes do to the labels of the trail.
LEMMA ForgetAudits ==
  ASSUME trail \in Seq(EventRows), AuditLabels, NEW a \in Adapters, trail' = Forget(a)
  PROVE  AuditLabels'
<1>1. /\ DOMAIN trail' = DOMAIN trail /\ DOMAIN trail = 1..Len(trail) /\ Len(trail) \in Nat
      /\ \A i \in DOMAIN trail :
            /\ trail'[i].action = trail[i].action
            /\ trail'[i].at = trail[i].at /\ trail'[i].done = trail[i].done
            /\ trail'[i].adapter = IF trail[i].adapter = a THEN None ELSE trail[i].adapter
  BY DEF Forget, EventRows
<1>2. SUFFICES ASSUME NEW j \in DOMAIN trail, trail'[j].adapter # None
               PROVE  /\ trail'[j].action = "rollback" =>
                            {i \in 1..(j - 1) : trail'[i].adapter = trail'[j].adapter} # {}
                      /\ trail'[j].action = "promote" =>
                            \A i \in {i \in 1..(j - 1) : trail'[i].adapter = trail'[j].adapter} :
                                trail'[i].done >= trail'[j].at
  BY <1>1 DEF AuditLabels
<1>3. trail[j].adapter # None /\ trail[j].adapter = trail'[j].adapter /\ trail[j].adapter # a
  BY <1>1, <1>2
<1>4. \A i \in 1..(j - 1) :
         i \in DOMAIN trail /\ (trail'[i].adapter = trail'[j].adapter <=> trail[i].adapter = trail[j].adapter)
  BY <1>1, <1>2, <1>3
<1>5. {i \in 1..(j - 1) : trail'[i].adapter = trail'[j].adapter}
         = {i \in 1..(j - 1) : trail[i].adapter = trail[j].adapter}
  BY <1>4
<1> QED BY <1>1, <1>3, <1>4, <1>5 DEF AuditLabels

LEMMA BindAudits ==
  ASSUME SInv, trail \in Seq(EventRows), AuditLabels,
         NEW r \in Reqs, NEW a \in Adapters, NEW l \in {"promote", "rollback"}, Bind(r, a, l),
         l = "rollback" => ServedBefore(a),
         l = "promote" => \A i \in DOMAIN trail : trail[i].adapter = a => trail[i].done >= req[r].at
  PROVE  AuditLabels'
<1> DEFINE e == [adapter |-> a, action |-> l, at |-> req[r].at, done |-> clock]
           n == Len(trail) + 1
<1>1. /\ trail' = Append(trail, e)
      /\ DOMAIN trail = 1..Len(trail) /\ Len(trail) \in Nat
      /\ e.adapter = a /\ e.action = l /\ e.at = req[r].at
  BY DEF Bind
<1> HIDE DEF e
<1>2. /\ DOMAIN trail' = 1..n
      /\ \A i \in 1..Len(trail) : trail'[i] = trail[i]
      /\ trail'[n] = e
  BY <1>1
<1>3. SUFFICES ASSUME NEW j \in 1..n, trail'[j].adapter # None
               PROVE  /\ trail'[j].action = "rollback" =>
                            {i \in 1..(j - 1) : trail'[i].adapter = trail'[j].adapter} # {}
                      /\ trail'[j].action = "promote" =>
                            \A i \in {i \in 1..(j - 1) : trail'[i].adapter = trail'[j].adapter} :
                                trail'[i].done >= trail'[j].at
  BY <1>2 DEF AuditLabels
<1>4. CASE j # n
  <2>1. j \in DOMAIN trail /\ trail'[j] = trail[j] /\ \A i \in 1..(j - 1) : trail'[i] = trail[i]
    BY <1>1, <1>2, <1>4
  <2>2. {i \in 1..(j - 1) : trail'[i].adapter = trail'[j].adapter}
           = {i \in 1..(j - 1) : trail[i].adapter = trail[j].adapter}
    BY <2>1
  <2> QED BY <1>3, <2>1, <2>2 DEF AuditLabels
<1>5. CASE j = n
  <2>1. /\ trail'[j] = e /\ 1..(j - 1) = DOMAIN trail
        /\ \A i \in DOMAIN trail : trail'[i] = trail[i]
    BY <1>1, <1>2, <1>5
  <2>2. ASSUME l = "rollback"
        PROVE  {i \in 1..(j - 1) : trail'[i].adapter = trail'[j].adapter} # {}
    <3>1. PICK i \in DOMAIN trail : trail[i].adapter = a
      BY <2>2 DEF ServedBefore
    <3> QED BY <1>1, <2>1, <3>1
  <2> QED BY <1>1, <2>1, <2>2
<1> QED BY <1>4, <1>5

\* No step gives a request about to commit a label it should not have.
LEMMA LabelKept ==
  ASSUME SInv, AuditInv, [Next]_vars
  PROVE  LabelInv' /\ AuditLabels'
<1> USE AdaptersAssumption
<1>0. /\ STypes /\ STypes' /\ ReqInv /\ ClockInv /\ LabelInv /\ AuditLabels
      /\ clock' >= clock /\ trail' \in Seq(EventRows)
  BY ServeStep, ClockKept DEF SInv, AuditInv, ClockInv
<1>1. DOMAIN trail = 1..Len(trail) /\ Len(trail) \in Nat
  BY <1>0 DEF ClockInv
\* Whoever is at rebind after the step was there before, or has just read the trail.
<1>2. ASSUME NEW s \in Reqs, req'[s].pc = "rebind", req'[s] # req[s]
      PROVE  /\ PromoteServed(s) /\ req'[s].adp = req[s].adp /\ req[s].adp \in Adapters
             /\ req'[s].label = IF ServedBefore(req[s].adp) THEN "rollback" ELSE "promote"
             /\ UNCHANGED <<trail, endpoint, row>>
  <2>1. PromoteServed(s) /\ Advanced(s, "served", "rebind")
    BY <1>2, ReqWriters DEF Moved, Started, Answered, Bound, Advanced, NoRequest
  <2>2. req'[s].label = IF ServedBefore(req[s].adp) THEN "rollback" ELSE "promote"
    BY <1>0, <2>1 DEF PromoteServed, STypes, ReqType
  <2>3. req[s].adp \in Adapters
    BY <1>0, <2>1 DEF ReqInv, PromoteServed
  <2> QED BY <2>1, <2>2, <2>3 DEF PromoteServed, Advanced
<1>3. ASSUME NEW s \in Reqs, req'[s].pc = "rebind", req'[s] = req[s]
      PROVE  /\ req[s].pc = "rebind" /\ req[s].adp \in Adapters
             /\ Exists(req[s].adp)' => Exists(req[s].adp)
  <2>1. req[s].pc = "rebind" /\ req[s].adp \in Adapters
    BY <1>0, <1>3 DEF ReqInv
  <2>2. PICK b \in Adapters : b = req[s].adp
    BY <2>1
  <2>3. Exists(b)' => Exists(b)
    BY <2>1, <2>2, BirthsUnknown
  <2> QED BY <1>3, <2>1, <2>2, <2>3 DEF Exists
<1>4. CASE UNCHANGED <<trail, endpoint>>
  <2>1. AuditLabels'
    BY <1>0, <1>4 DEF AuditLabels
  <2>2. ASSUME NEW s \in Reqs, req'[s].pc = "rebind"
        PROVE  /\ req'[s].label = "promote" =>
                    \A i \in DOMAIN trail' :
                        trail'[i].adapter = req'[s].adp => trail'[i].done >= req'[s].at
               /\ req'[s].label = "rollback" /\ Exists(req[s].adp)' => ServedBefore(req[s].adp)'
    <3>1. CASE req'[s] = req[s]
      BY <1>0, <1>3, <1>4, <2>2, <3>1 DEF LabelInv, ServedBefore
    <3>2. CASE req'[s] # req[s]
      BY <1>2, <1>4, <2>2, <3>2 DEF ServedBefore
    <3> QED BY <3>1, <3>2
  <2>3. endpoint' = None => trail' = <<>>
    BY <1>0, <1>4 DEF LabelInv
  <2> QED BY <2>1, <2>2, <2>3 DEF LabelInv
<1>5. ASSUME NEW r \in Reqs, NEW a \in Adapters, a = req[r].adp,
             endpoint' = endpoint, trail' = Forget(a),
             row'[a] = NoRow
      PROVE  LabelInv' /\ AuditLabels'
  <2>1. AuditLabels'
    BY <1>0, <1>5, ForgetAudits DEF ClockInv
  <2>2. /\ DOMAIN trail' = DOMAIN trail
        /\ \A i \in DOMAIN trail :
              /\ trail'[i].done = trail[i].done
              /\ trail'[i].adapter = IF trail[i].adapter = a THEN None ELSE trail[i].adapter
    BY <1>0, <1>5 DEF Forget, ClockInv, EventRows
  <2>3. ASSUME NEW s \in Reqs, req'[s].pc = "rebind"
        PROVE  /\ req'[s].label = "promote" =>
                    \A i \in DOMAIN trail' :
                        trail'[i].adapter = req'[s].adp => trail'[i].done >= req'[s].at
               /\ req'[s].label = "rollback" /\ Exists(req[s].adp)' => ServedBefore(req[s].adp)'
    <3>1. CASE req'[s] # req[s]
      BY <1>2, <2>3, <3>1 DEF ServedBefore
    <3>2. CASE req'[s] = req[s]
      <4>1. /\ req[s].pc = "rebind" /\ req[s].adp \in Adapters
            /\ Exists(req[s].adp)' => Exists(req[s].adp)
        BY <1>3, <2>3, <3>2
      <4>2. PICK b \in Adapters : b = req[s].adp
        BY <4>1
      <4>3. /\ req[s].label = "promote" =>
                  \A i \in DOMAIN trail : trail[i].adapter = b => trail[i].done >= req[s].at
            /\ req[s].label = "rollback" /\ Exists(b) => ServedBefore(b)
        BY <1>0, <4>1, <4>2 DEF LabelInv
      <4>4. b = a => ~Exists(b)'
        BY <1>5 DEF Exists, NoRow
      <4>5. b # a /\ ServedBefore(b) => ServedBefore(b)'
        BY <2>2 DEF ServedBefore
      <4>6. \A i \in DOMAIN trail : trail'[i].adapter = b => trail[i].adapter = b
        BY <2>2
      <4>7. b = req'[s].adp
        BY <3>2, <4>2
      <4>8. req'[s].label = "rollback" /\ Exists(req[s].adp)' => ServedBefore(req[s].adp)'
        BY <3>2, <4>1, <4>2, <4>3, <4>4, <4>5, <4>7 DEF ServedBefore, Exists
      <4>9. req'[s].label = "promote" =>
                    \A i \in DOMAIN trail' :
                        trail'[i].adapter = req'[s].adp => trail'[i].done >= req'[s].at
        BY <2>2, <3>2, <4>2, <4>3, <4>6
      <4> QED BY <4>8, <4>9
    <3> QED BY <3>1, <3>2
  <2>4. endpoint' = None => trail' = <<>>
    BY <1>0, <1>1, <1>5, <2>2 DEF LabelInv
  <2> QED BY <2>1, <2>3, <2>4 DEF LabelInv
<1>6. ASSUME NEW r \in Reqs, NEW a \in Adapters, NEW l \in {"promote", "rollback"}, a = req[r].adp,
             Bind(r, a, l), CreateCommit(r) \/ PromoteCommit(r),
             l = "rollback" => ServedBefore(a),
             l = "promote" => \A i \in DOMAIN trail : trail[i].adapter = a => trail[i].done >= req[r].at
      PROVE  LabelInv' /\ AuditLabels'
  <2>1. AuditLabels'
    BY <1>0, <1>6, BindAudits DEF ClockInv
  <2>2. /\ DOMAIN trail' = 1..(Len(trail) + 1)
        /\ \A i \in DOMAIN trail : trail'[i] = trail[i]
        /\ trail'[Len(trail) + 1].done = clock
    BY <1>0, <1>1, <1>6 DEF Bind
  <2>3. endpoint' = a /\ a # None
    BY <1>6 DEF Bind
  <2>4. ASSUME NEW s \in Reqs, req'[s].pc = "rebind"
        PROVE  /\ req'[s].label = "promote" =>
                    \A i \in DOMAIN trail' :
                        trail'[i].adapter = req'[s].adp => trail'[i].done >= req'[s].at
               /\ req'[s].label = "rollback" /\ Exists(req[s].adp)' => ServedBefore(req[s].adp)'
    <3>1. req'[s] = req[s]
      <4>1. SUFFICES ASSUME req'[s] # req[s] PROVE FALSE
        OBVIOUS
      <4>2. UNCHANGED <<trail>>
        BY <1>2, <2>4, <4>1
      <4> QED BY <1>1, <2>2, <4>2
    <3>2. req[s].pc = "rebind" /\ (Exists(req[s].adp)' => Exists(req[s].adp))
      BY <1>3, <2>4, <3>1
    <3>3. req[s].at <= clock /\ req[s].at \in Nat /\ clock \in Nat
      BY <1>0 DEF ClockInv, STypes, ReqType
    <3>4. ServedBefore(req[s].adp) => ServedBefore(req[s].adp)'
      BY <1>1, <2>2, <3>1 DEF ServedBefore
    <3>5. /\ req[s].label = "promote" =>
                \A i \in DOMAIN trail : trail[i].adapter = req[s].adp => trail[i].done >= req[s].at
          /\ req[s].label = "rollback" /\ Exists(req[s].adp) => ServedBefore(req[s].adp)
      BY <1>0, <3>2 DEF LabelInv
    <3>6. \A i \in DOMAIN trail' : i \in DOMAIN trail \/ i = Len(trail) + 1
      BY <1>1, <2>2
    <3>7. ASSUME req'[s].label = "promote", NEW i \in DOMAIN trail', trail'[i].adapter = req'[s].adp
          PROVE  trail'[i].done >= req'[s].at
      BY <2>2, <3>1, <3>3, <3>5, <3>6, <3>7
    <3> QED BY <3>1, <3>2, <3>4, <3>5, <3>7
  <2> QED BY <2>1, <2>3, <2>4 DEF LabelInv
<1>7. ASSUME NEW r \in Reqs, CreateCommit(r), endpoint = None, req[r].adp \in Adapters,
             Bind(r, req[r].adp, "promote")
      PROVE  LabelInv' /\ AuditLabels'
  <2>1. trail = <<>>
    BY <1>0, <1>7 DEF LabelInv
  <2> QED BY <1>6, <1>7, <2>1
<1>8. ASSUME NEW r \in Reqs, PromoteCommit(r), Exists(req[r].adp), req[r].adp \in Adapters,
             Bind(r, req[r].adp, req[r].label)
      PROVE  LabelInv' /\ AuditLabels'
  <2>1. req[r].pc = "rebind" /\ req[r].label \in {"promote", "rollback"}
    BY <1>0, <1>8 DEF PromoteCommit, STypes, ReqType
  <2> QED BY <1>0, <1>6, <1>8, <2>1 DEF LabelInv
<1> QED BY <1>4, <1>5, <1>7, <1>8, TrailWriters

\* The trail tells rollbacks from promotions, for any number of requests, in any
\* order (promote_adapter, create_endpoint, ON DELETE SET NULL).
THEOREM TrailHonest == Spec => []AuditLabels
<1>1. SInv /\ AuditInv /\ [Next]_vars => SInv' /\ AuditInv'
  BY ServeStep, ClockKept, LabelKept DEF AuditInv
<1>2. AuditInv => AuditLabels
  BY DEF AuditInv
<1> QED BY <1>1, <1>2, ServeInit, AuditInit, PTL DEF Spec

\* What only TypeOK is about.
PlainInv ==
    /\ app \in {"down", "sweep", "up"}
    /\ stuck \in SUBSET Adapters
    /\ events \in 0..MaxEvents

\* Events are counted up to the bound, and their kinds are never forgotten.
LEMMA EventWriters ==
  ASSUME [Next]_vars
  PROVE  \/ UNCHANGED envVars
         \/ \E e \in Events : Event(e)
         \/ events' = events /\ seen' = seen \cup {"delete_converting"}
<1>0. NoEvent => UNCHANGED envVars
  BY DEF NoEvent
<1>1. ASSUME NEW r \in Reqs, RequestMoves(r)
      PROVE  \/ NoEvent \/ \E e \in Events : Event(e)
             \/ events' = events /\ seen' = seen \cup {"delete_converting"}
  <2>1. CASE Client(r)
    BY <2>1 DEF Client, CreateBegin, PromoteBegin, DeleteCheck, Upload, Begin
  <2>2. CASE RequestStep(r)
    BY <2>2 DEF RequestStep, UploadCommit, UploadEnqueue, UploadRefuse, DeleteCommit,
       DeleteList, DeleteFiles, CreateRead, CreateCommit, PromoteRead, PromoteServed,
       PromoteCommit
  <2>3. CASE \/ UploadCommitFails(r) \/ UploadEnqueueFails(r)
             \/ Quits(r) \/ DeleteCommitFails(r)
    <3>1. NoEvent \/ \E e : Event(e)
      BY <2>3 DEF UploadCommitFails, UploadEnqueueFails, Quits, UploadRefreshRaises,
         UploadRefuseFails, DeleteCommitFails
    <3> QED BY <3>1 DEF Event
  <2> QED BY <1>1, <2>1, <2>2, <2>3 DEF RequestMoves
<1>2. ASSUME SweepRead \/ SweepCommit \/ AppCrash
      PROVE  NoEvent \/ \E e \in Events : Event(e)
  <2>1. NoEvent \/ \E e : Event(e)
    BY <1>2 DEF SweepRead, SweepCommit, AppCrash
  <2> QED BY <2>1 DEF Event
<1>3. ASSUME WorkerStep PROVE NoEvent
  <2>1. \A new, p : Commit(new, p) => NoEvent
    BY DEF Commit
  <2>2. \A p : JobGoes(p) => NoEvent
    BY DEF JobGoes
  <2> QED BY <1>3, <2>1, <2>2 DEF WorkerStep, WorkerUp, JobTake, JobRead, JobMark, JobConvert,
     ConvertEnd, JobConverted, JobProbe, JobScore, JobDecide, JobFail, JobReport
<1>4. ASSUME JobDropped \/ JobStageRaises \/ JobSessionRaises \/ Sigterm \/ WorkerKilled
      PROVE  \E e \in Events : Event(e)
  <2>1. \E e : Event(e)
    BY <1>4 DEF JobDropped, JobStageRaises, JobSessionRaises, Sigterm, WorkerKilled
  <2> QED BY <2>1 DEF Event
<1> QED BY <1>0, <1>1, <1>2, <1>3, <1>4, Movers DEF WorkerMoves, vars

\* The app starts, sweeps, serves and dies; only its start reads the table.
LEMMA AppWriters ==
  ASSUME SInv, [Next]_vars
  PROVE  \/ UNCHANGED <<app, stuck>>
         \/ SweepRead
         \/ SweepCommit
         \/ AppCrash
<1>1. ASSUME NEW r \in Reqs, RequestMoves(r) PROVE UNCHANGED <<app, stuck>>
  <2>1. CASE Client(r)
    BY <2>1 DEF Client, CreateBegin, PromoteBegin, DeleteCheck, Upload, Begin, appVars
  <2>2. CASE \/ RequestStep(r) \/ UploadCommitFails(r) \/ UploadEnqueueFails(r)
             \/ Quits(r) \/ DeleteCommitFails(r)
    BY <2>2 DEF RequestStep, UploadCommit, UploadEnqueue, UploadRefuse, DeleteCommit,
       DeleteList, DeleteFiles, CreateRead, CreateCommit, PromoteRead, PromoteServed,
       PromoteCommit, UploadCommitFails, UploadEnqueueFails, Quits, UploadRefreshRaises,
       UploadRefuseFails, DeleteCommitFails, GoTo, End, RequestFrame, appVars
  <2> QED BY <1>1, <2>1, <2>2 DEF RequestMoves
<1>2. ASSUME WorkerMoves \/ UNCHANGED vars PROVE UNCHANGED <<app, stuck>>
  BY <1>2, WorkerQuiet DEF vars, appVars
<1> QED BY <1>1, <1>2, Movers

\* Every variable keeps its type; moments and events stay within their bounds.
THEOREM AdaptersTypes == Spec => []TypeOK
<1>1. Init => PlainInv
  BY AdaptersAssumption DEF Init, PlainInv
<1>2. ASSUME SInv, PlainInv, [Next]_vars PROVE PlainInv'
  <2>1. events' \in 0..MaxEvents
    BY <1>2, EventWriters, AdaptersAssumption DEF PlainInv, envVars, Event
  <2>2. app' \in {"down", "sweep", "up"} /\ stuck' \in SUBSET Adapters
    BY <1>2, AppWriters DEF PlainInv, SweepRead, SweepCommit, AppCrash
  <2> QED BY <2>1, <2>2 DEF PlainInv
<1>3. ASSUME SInv, ClockInv, PlainInv PROVE TypeOK
  <2>1. STypes
    BY <1>3 DEF SInv
  <2>2. clock \in Moment /\ made \in [Adapters -> Moment]
    BY <1>3, <2>1, AdaptersAssumption DEF STypes, ClockInv, Moment
  <2>3. req \in [Reqs -> Requests]
    <3>1. \A r \in Reqs : req[r] \in ReqType /\ req[r].at \in Moment
      BY <1>3, <2>1, AdaptersAssumption DEF STypes, ClockInv, Moment, ReqType
    <3>2. \A r \in Reqs : req[r] \in Requests
      BY <3>1 DEF ReqType, Requests
    <3> QED BY <2>1, <3>2 DEF STypes
  <2> QED BY <1>3, <2>1, <2>2, <2>3 DEF TypeOK, STypes, ClockInv, PlainInv
<1>4. SInv /\ ClockInv /\ PlainInv /\ [Next]_vars => SInv' /\ ClockInv' /\ PlainInv'
  BY <1>2, ServeStep, ClockKept
<1>5. Init => ClockInv
  BY AuditInit DEF AuditInv
<1> QED BY <1>1, <1>3, <1>4, <1>5, ServeInit, PTL DEF Spec

-----------------------------------------------------------------------------
(* Who writes rows, files, the list and the worker's session.               *)

\* A request leaves the worker alone, and changes a row by one of four commits.
LEMMA RequestRows ==
  ASSUME SInv, NEW r \in Reqs, RequestMoves(r)
  PROVE  /\ UNCHANGED <<wpc, job, snap, metrics, app, stuck>>
         /\ \/ UNCHANGED row
            \/ /\ UploadCommit(r) \/ UploadCommitFails(r)
               /\ req[r].adp \in Adapters /\ Unknown(req[r].adp)
               /\ Rewrites(req[r].adp, Uploaded(req[r].adp))
            \/ /\ UploadRefuse(r) /\ req[r].adp \in Adapters /\ Exists(req[r].adp)
               /\ Rewrites(req[r].adp,
                           [row[req[r].adp] EXCEPT !.status = "failed", !.reason = TRUE])
            \/ /\ \/ DeleteCommit(r) /\ Moves(r, "remove", req[r].adp)
                  \/ DeleteCommitFails(r) /\ "delete_reply_lost" \in seen'
               /\ req[r].adp \in Adapters /\ Rewrites(req[r].adp, NoRow)
<1>0. STypes /\ ReqInv /\ FreshInv
  BY DEF SInv
<1> DEFINE Quiet == UNCHANGED <<wpc, job, snap, metrics, app, stuck>>
<1>1. ASSUME Client(r) PROVE Quiet /\ UNCHANGED row
  BY <1>1 DEF Client, CreateBegin, PromoteBegin, DeleteCheck, Upload, Begin, workVars, appVars
<1>2. RequestFrame => Quiet
  BY DEF RequestFrame, workVars, appVars
<1>3. ASSUME UploadCommit(r) \/ UploadCommitFails(r)
      PROVE  /\ Quiet /\ req[r].adp \in Adapters /\ Unknown(req[r].adp)
             /\ UNCHANGED row \/ Rewrites(req[r].adp, Uploaded(req[r].adp))
  <2>1. req[r].pc = "commit" /\ req[r].adp \in Adapters
    BY <1>0, <1>3 DEF ReqInv, UploadCommit, UploadCommitFails
  <2>2. row' = [row EXCEPT ![req[r].adp] = Uploaded(req[r].adp)] \/ UNCHANGED row
    BY <1>3 DEF UploadCommit, UploadCommitFails
  <2>3. Quiet
    BY <1>2, <1>3 DEF UploadCommit, UploadCommitFails, GoTo, End
  <2>4. Unknown(req[r].adp)
    BY <1>0, <2>1 DEF FreshInv
  <2> QED BY <1>0, <2>1, <2>2, <2>3, <2>4, UploadedRow DEF STypes, Rewrites
<1>4. ASSUME UploadRefuse(r)
      PROVE  /\ Quiet /\ req[r].adp \in Adapters
             /\ \/ UNCHANGED row
                \/ /\ Exists(req[r].adp)
                   /\ Rewrites(req[r].adp,
                         [row[req[r].adp] EXCEPT !.status = "failed", !.reason = TRUE])
  <2>1. req[r].adp \in Adapters
    BY <1>0, <1>4 DEF ReqInv, UploadRefuse
  <2>2. Quiet
    BY <1>2, <1>4 DEF UploadRefuse, End
  <2>3. PICK a \in Adapters : a = req[r].adp
    BY <2>1
  <2> DEFINE x == [row[a] EXCEPT !.status = "failed", !.reason = TRUE]
  <2>4. x \in Rows
    BY <1>0 DEF STypes, Rows, Status
  <2>5. ASSUME Exists(a) PROVE row' = [row EXCEPT ![a] = x]
    BY <1>0, <1>4, <2>3, <2>5 DEF UploadRefuse, STypes
  <2>6. ~Exists(a) => UNCHANGED row
    BY <1>4, <2>3 DEF UploadRefuse
  <2>7. Exists(a) => Rewrites(a, x)
    <3> HIDE DEF x
    <3> QED BY <1>0, <2>4, <2>5 DEF STypes, Rewrites
  <2> QED BY <2>2, <2>3, <2>6, <2>7
<1>5. ASSUME DeleteCommit(r) \/ DeleteCommitFails(r)
      PROVE  /\ Quiet /\ req[r].adp \in Adapters
             /\ \/ UNCHANGED row
                \/ /\ Rewrites(req[r].adp, NoRow)
                   /\ \/ DeleteCommit(r) /\ Moves(r, "remove", req[r].adp)
                      \/ DeleteCommitFails(r) /\ "delete_reply_lost" \in seen'
  <2>1. req[r].adp \in Adapters
    BY <1>0, <1>5 DEF ReqInv, DeleteCommit, DeleteCommitFails
  <2>2. Quiet
    BY <1>2, <1>5 DEF DeleteCommit, DeleteCommitFails, GoTo, End
  <2>3. \/ UNCHANGED row
        \/ /\ row' = [row EXCEPT ![req[r].adp] = NoRow]
           /\ \/ DeleteCommit(r) /\ GoTo(r, "remove")
              \/ DeleteCommitFails(r) /\ "delete_reply_lost" \in seen'
    BY <1>5 DEF DeleteCommit, DeleteCommitFails, Event
  <2>4. NoRow \in Rows
    BY DEF NoRow, Rows, Status, Metrics
  <2>5. row' = [row EXCEPT ![req[r].adp] = NoRow] => Rewrites(req[r].adp, NoRow)
    BY <1>0, <2>1, <2>4 DEF STypes, Rewrites
  <2> QED BY <1>0, <2>1, <2>2, <2>3, <2>5, GoToMoves DEF ReqPc
<1>6. ASSUME UploadEnqueue(r) \/ DeleteFiles(r) \/ CreateRead(r) \/ CreateCommit(r)
             \/ PromoteRead(r) \/ PromoteServed(r) \/ PromoteCommit(r) \/ UploadEnqueueFails(r)
             \/ Quits(r) \/ DeleteList(r)
      PROVE  Quiet /\ UNCHANGED row
  BY <1>2, <1>6 DEF UploadEnqueue, DeleteFiles, CreateRead, CreateCommit, PromoteRead,
     PromoteServed, PromoteCommit, UploadEnqueueFails, Quits, UploadRefreshRaises,
     UploadRefuseFails, DeleteList, GoTo, End
<1> QED BY <1>1, <1>3, <1>4, <1>5, <1>6 DEF RequestMoves, RequestStep

\* A request changes the list by enqueueing the upload's job.
LEMMA RequestList ==
  ASSUME NEW r \in Reqs, RequestMoves(r)
  PROVE  \/ queue' = queue
         \/ UploadEnqueue(r) /\ queue' = Append(queue, req[r].adp)
         \/ /\ UploadEnqueueFails(r) /\ queue' = Append(queue, req[r].adp)
            /\ "redis_reply_lost" \in seen'
<1>1. ASSUME Client(r) PROVE queue' = queue
  BY <1>1 DEF Client, CreateBegin, PromoteBegin, DeleteCheck, Upload, Begin
<1>2. ASSUME UploadCommit(r) \/ UploadRefuse(r) \/ DeleteCommit(r) \/ DeleteFiles(r)
             \/ CreateRead(r) \/ CreateCommit(r) \/ PromoteRead(r) \/ PromoteServed(r)
             \/ PromoteCommit(r) \/ UploadCommitFails(r) \/ Quits(r) \/ DeleteList(r)
             \/ DeleteCommitFails(r)
      PROVE  queue' = queue
  BY <1>2 DEF UploadCommit, UploadRefuse, DeleteCommit, DeleteFiles, CreateRead,
     CreateCommit, PromoteRead, PromoteServed, PromoteCommit, UploadCommitFails, Quits,
     UploadRefreshRaises, UploadRefuseFails, DeleteList, DeleteCommitFails
<1>3. ASSUME UploadEnqueue(r) PROVE queue' = Append(queue, req[r].adp)
  BY <1>3 DEF UploadEnqueue
<1>4. ASSUME UploadEnqueueFails(r)
      PROVE  queue' = queue \/ (queue' = Append(queue, req[r].adp) /\ "redis_reply_lost" \in seen')
  BY <1>4 DEF UploadEnqueueFails, Event
<1> QED BY <1>1, <1>2, <1>3, <1>4 DEF RequestMoves, RequestStep

\* The row and the session after a commit of the job.
LEMMA CommitRow ==
  ASSUME STypes, job \in Adapters, NEW new \in Rows, NEW p \in WorkPc, Commit(new, p)
  PROVE  /\ \A b \in Adapters : b # job => row'[b] = row[b]
         /\ ~Exists(job) => row'[job] = row[job]
         /\ Exists(job) =>
               /\ wpc' = p /\ job' = job
               /\ p # "report" => snap' = new
               /\ row'[job].status =
                     IF new.status # snap.status THEN new.status ELSE row[job].status
               /\ row'[job].reason =
                     IF new.reason # snap.reason THEN new.reason ELSE row[job].reason
               /\ row'[job].metrics =
                     IF new.metrics # snap.metrics THEN new.metrics ELSE row[job].metrics
         /\ \/ job' = None /\ wpc' = "idle"
            \/ job' = job /\ wpc' = p
         /\ UNCHANGED <<disk, queue>>
<1>1. Commits(new, p) /\ UNCHANGED <<disk, queue>>
  BY CommitCommits
<1>2. ASSUME Exists(job)
      PROVE  /\ wpc' = p /\ job' = job
             /\ p # "report" => snap' = new
             /\ row' = [row EXCEPT ![job] = IF new = snap THEN row[job] ELSE Merge(new, row[job])]
  BY <1>2 DEF Commit, Goes, STypes
<1>3. ASSUME Exists(job)
      PROVE  /\ row'[job].status =
                     IF new.status # snap.status THEN new.status ELSE row[job].status
             /\ row'[job].reason =
                     IF new.reason # snap.reason THEN new.reason ELSE row[job].reason
             /\ row'[job].metrics =
                     IF new.metrics # snap.metrics THEN new.metrics ELSE row[job].metrics
  <2>1. row'[job] = IF new = snap THEN row[job] ELSE Merge(new, row[job])
    BY <1>2, <1>3 DEF STypes
  <2>2. row[job] \in Rows
    BY DEF STypes
  <2>3. Merge(new, row[job]).reason = IF new.reason # snap.reason THEN new.reason ELSE row[job].reason
    BY <2>2 DEF STypes, Merge, Rows
  <2> QED BY <2>1, <2>2, <2>3, MergedRow
<1> QED BY <1>1, <1>2, <1>3 DEF Commits

\* What the worker writes: its job's row and files, and the list when it takes a
\* job or is told to stop.
LEMMA WorkerWrites ==
  ASSUME SInv, WorkerMoves
  PROVE  /\ \A b \in Adapters : b # job => row'[b] = row[b] /\ disk'[b] = disk[b]
         /\ \/ queue' = queue /\ job' \in {job, None}
            \/ JobTake
            \/ Sigterm
<1>0. STypes /\ JobInv
  BY DEF SInv
<1>1. wpc \notin {"down", "idle"} => job \in Adapters
  BY <1>0 DEF JobInv
<1>2. CASE JobMark \/ JobConverted \/ JobDecide \/ JobFail
  <2>1. ASSUME NEW new, NEW p, Commit(new, p)
        PROVE  /\ \A b \in Adapters : b # job => row'[b] = row[b]
               /\ UNCHANGED <<disk, queue>> /\ job' \in {job, None}
    <3>1. UNCHANGED row \/ row' = [row EXCEPT ![job] = IF new = snap THEN @ ELSE Merge(new, @)]
      BY <2>1 DEF Commit
    <3> QED BY <1>0, <2>1, <3>1 DEF Commit, Leaves, Goes, STypes
  <2> QED BY <1>2, <2>1 DEF JobMark, JobConverted, JobDecide, JobFail
<1>3. CASE JobConvert \/ ConvertEnd
  <2>1. UNCHANGED <<row, queue, job>>
    BY <1>3 DEF JobConvert, ConvertEnd, JobGoes, Goes
  <2>2. UNCHANGED disk \/ \E x : disk' = [disk EXCEPT ![job] = x]
    BY <1>3 DEF JobConvert, ConvertEnd
  <2> QED BY <1>0, <2>1, <2>2 DEF STypes
<1>4. CASE JobProbe \/ JobScore
  BY <1>4 DEF JobProbe, JobScore, JobGoes, Goes
<1>5. CASE WorkerUp \/ JobRead \/ JobReport
  BY <1>5 DEF WorkerUp, JobRead, JobReport, Goes, Leaves
<1>6. CASE JobTake
  BY <1>6 DEF JobTake
<1>7. CASE JobDropped \/ JobStageRaises \/ JobSessionRaises \/ WorkerKilled
  BY <1>7 DEF JobDropped, JobStageRaises, JobSessionRaises, WorkerKilled, Leaves, Goes
<1>8. CASE Sigterm
  BY <1>8 DEF Sigterm
<1> QED BY <1>2, <1>3, <1>4, <1>5, <1>6, <1>7, <1>8 DEF WorkerMoves, WorkerStep

\* Kinds of events are never forgotten.
LEMMA SeenGrows ==
  ASSUME [Next]_vars
  PROVE  seen \subseteq seen'
BY EventWriters DEF envVars, Event

-----------------------------------------------------------------------------
(* One start of the app, one job per adapter.                               *)

NoCrash == seen \cap {"app_crash", "crash_unqueued"} = {}

\* Until the app has crashed, it has started once, on an empty table.
BootInv == NoCrash => stuck = {} /\ (app # "up" => clock = 0)

\* Request r has a row whose job is not enqueued yet, or not for certain.
Pushing(r) == req[r].pc \in {"enqueue", "refuse"}

Distinct(s) == \A i, j \in 1..Len(s) : s[i] = s[j] => i = j

\* While Calm, the job of an adapter is in one place: with the request that will
\* enqueue it, once in the list, or in the worker's hands.
OnceInv ==
    Calm =>
        /\ \A r \in Reqs : Pushing(r) =>
              /\ job # req[r].adp /\ ~OnList(queue, req[r].adp)
              /\ Exists(req[r].adp) => row[req[r].adp].status = "uploaded"
        /\ \A r, s \in Reqs : Pushing(r) /\ Pushing(s) /\ req[r].adp = req[s].adp => r = s
        /\ ~OnList(queue, job)
        /\ Distinct(queue)

\* While Calm, the worker's session knows the status of its row, which is not
\* final yet; a reason goes with a failure and passing metrics with a pass.
FinalInv ==
    Calm =>
        /\ wpc \in InSession /\ Exists(job) =>
              row[job].status \in {"uploaded", "processing"} /\ snap.status = row[job].status
        /\ \A a \in Adapters : row[a].status # "failed" => ~row[a].reason
        /\ \A a \in Adapters : row[a].metrics = "pass" => row[a].status = "passed"

LEMMA CalmInit == Init => BootInv /\ OnceInv /\ FinalInv
BY AdaptersAssumption DEF Init, BootInv, OnceInv, FinalInv, NoRequest, Pushing, OnList,
   Distinct, NoRow, InSession, Exists

LEMMA BootKept ==
  ASSUME SInv, ClockInv, BootInv, [Next]_vars
  PROVE  BootInv'
<1> SUFFICES ASSUME NoCrash' PROVE stuck' = {} /\ (app' # "up" => clock' = 0)
  BY DEF BootInv
<1>0. NoCrash /\ stuck = {} /\ (app # "up" => clock = 0)
  BY SeenGrows DEF NoCrash, BootInv
<1>1. CASE UNCHANGED <<app, stuck>>
  <2>1. ASSUME app # "up" PROVE clock' = clock
    <3>1. ASSUME NEW r \in Reqs, RequestMoves(r) PROVE FALSE
      <4>1. req[r].pc = "idle"
        BY <2>1 DEF SInv, ReqInv
      <4>2. Client(r) => app = "up"
        BY DEF Client, CreateBegin, PromoteBegin, DeleteCheck, Upload, Begin
      <4>3. RequestStep(r) \/ UploadCommitFails(r) \/ UploadEnqueueFails(r)
            \/ Quits(r) \/ DeleteCommitFails(r) => req[r].pc # "idle"
        BY DEF RequestStep, UploadCommit, UploadEnqueue, UploadRefuse, DeleteCommit,
           DeleteList, DeleteFiles, CreateRead, CreateCommit, PromoteRead, PromoteServed,
           PromoteCommit, UploadCommitFails, UploadEnqueueFails, Quits, UploadRefreshRaises,
           UploadRefuseFails, DeleteCommitFails
      <4> QED BY <2>1, <3>1, <4>1, <4>2, <4>3 DEF RequestMoves
    <3> QED BY <3>1, Movers, WorkerQuiet DEF SweepRead, SweepCommit, AppCrash, vars, reqVars
  <2> QED BY <1>0, <1>1, <2>1
<1>2. CASE SweepRead
  <2>1. clock = 0 /\ clock' = clock
    BY <1>0, <1>2 DEF SweepRead, reqVars
  <2>2. \A a \in Adapters : made[a] = 0
    BY <2>1 DEF SInv, STypes, ClockInv
  <2>3. \A a \in Adapters : row[a].status = "absent"
    BY <2>2 DEF SInv, FreshInv, Unknown, Exists
  <2> QED BY <1>2, <2>1, <2>3 DEF SweepRead
<1>3. CASE SweepCommit
  BY <1>3 DEF SweepCommit
<1>4. CASE AppCrash
  BY <1>4 DEF AppCrash, Event, NoCrash
<1> QED BY <1>1, <1>2, <1>3, <1>4, AppWriters

\* Lists without repetition.
LEMMA DistinctAppend ==
  ASSUME NEW s \in Seq(Adapters), NEW a \in Adapters, Distinct(s), ~OnList(s, a)
  PROVE  Distinct(Append(s, a))
<1>1. /\ Len(Append(s, a)) = Len(s) + 1 /\ Len(s) \in Nat
      /\ \A i \in 1..Len(s) : Append(s, a)[i] = s[i]
      /\ Append(s, a)[Len(s) + 1] = a
  OBVIOUS
<1>2. \A i \in 1..Len(s) + 1 : i \in 1..Len(s) \/ i = Len(s) + 1
  BY <1>1
<1> QED BY <1>1, <1>2 DEF Distinct, OnList

LEMMA DistinctPush ==
  ASSUME NEW s \in Seq(Adapters), NEW a \in Adapters, Distinct(s), ~OnList(s, a)
  PROVE  Distinct(<<a>> \o s)
<1>1. /\ Len(<<a>> \o s) = Len(s) + 1 /\ Len(s) \in Nat
      /\ (<<a>> \o s)[1] = a
      /\ \A i \in 2..Len(s) + 1 : (<<a>> \o s)[i] = s[i - 1]
  OBVIOUS
<1>2. \A i \in 1..Len(s) + 1 : i = 1 \/ (i \in 2..Len(s) + 1 /\ i - 1 \in 1..Len(s))
  BY <1>1
<1> QED BY <1>1, <1>2 DEF Distinct, OnList

LEMMA DistinctPop ==
  ASSUME NEW s \in Seq(Adapters), s # <<>>, Distinct(s)
  PROVE  Distinct(Tail(s)) /\ ~OnList(Tail(s), Head(s))
<1>1. /\ Len(s) >= 1 /\ Len(s) \in Nat /\ Len(Tail(s)) = Len(s) - 1
      /\ Head(s) = s[1]
      /\ \A i \in 1..Len(Tail(s)) : Tail(s)[i] = s[i + 1]
  OBVIOUS
<1>2. \A i \in 1..Len(Tail(s)) : i + 1 \in 1..Len(s) /\ i + 1 # 1
  BY <1>1
<1> QED BY <1>1, <1>2 DEF Distinct, OnList

\* A step that moves no job and gives no request one to enqueue.
LEMMA OnceFrame ==
  ASSUME STypes, OnceInv, Calm, queue' = queue, job' \in {job, None},
         \A s \in Reqs : Pushing(s)' =>
            /\ Pushing(s) /\ req'[s].adp = req[s].adp /\ req[s].adp \in Adapters
            /\ row'[req[s].adp].status \in {row[req[s].adp].status, "absent"}
  PROVE  OnceInv'
<1>1. ~OnList(queue, None)
  <2>1. \A i \in 1..Len(queue) : queue[i] \in Adapters
    BY DEF STypes
  <2> QED BY <2>1, AdaptersAssumption DEF OnList
<1>2. ASSUME NEW s \in Reqs, Pushing(s)'
      PROVE  /\ job' # req'[s].adp /\ ~OnList(queue', req'[s].adp)
             /\ Exists(req[s].adp)' => row'[req'[s].adp].status = "uploaded"
  <2>1. /\ Pushing(s) /\ req'[s].adp = req[s].adp /\ req[s].adp \in Adapters
        /\ row'[req[s].adp].status \in {row[req[s].adp].status, "absent"}
    BY <1>2
  <2>2. /\ job # req[s].adp /\ ~OnList(queue, req[s].adp)
        /\ Exists(req[s].adp) => row[req[s].adp].status = "uploaded"
    BY <2>1 DEF OnceInv
  <2> QED BY <2>1, <2>2, AdaptersAssumption DEF Exists
<1>3. \A r, s \in Reqs : Pushing(r)' /\ Pushing(s)' /\ req'[r].adp = req'[s].adp => r = s
  BY DEF OnceInv
<1>4. ~OnList(queue', job') /\ Distinct(queue')
  BY <1>1 DEF OnceInv
<1> QED BY <1>2, <1>3, <1>4 DEF OnceInv

LEMMA OnceKept ==
  ASSUME SInv, BootInv, OnceInv, [Next]_vars
  PROVE  OnceInv'
<1> SUFFICES ASSUME Calm' PROVE OnceInv'
  BY DEF OnceInv
<1> USE AdaptersAssumption
<1>0. /\ Calm /\ NoCrash /\ stuck = {} /\ STypes /\ STypes' /\ ReqInv /\ FreshInv /\ JobInv
  BY SeenGrows, ServeStep DEF SInv, Calm, NoCrash, BootInv
<1>a. \A i \in 1..Len(queue) : queue[i] \in Adapters
  BY <1>0 DEF STypes
<1>b. \A r \in Reqs : Pushing(r) =>
         /\ req[r].adp \in Adapters /\ job # req[r].adp /\ ~OnList(queue, req[r].adp)
         /\ Exists(req[r].adp) => row[req[r].adp].status = "uploaded"
  BY <1>0 DEF OnceInv, ReqInv, Pushing
<1>c. /\ \A r, s \in Reqs : Pushing(r) /\ Pushing(s) /\ req[r].adp = req[s].adp => r = s
      /\ ~OnList(queue, job) /\ Distinct(queue)
  BY <1>0 DEF OnceInv
<1>1. ASSUME NEW r \in Reqs, RequestMoves(r) PROVE OnceInv'
  <2>1. Moved(r) /\ \A s \in Reqs : s # r => req'[s] = req[s]
    BY <1>1, RequestMoved
  <2>2. job' = job /\ wpc' = wpc
    BY <1>1, RequestRows
  <2>3. CASE UploadCommit(r)
    <3>1. PICK a \in Adapters : a = req[r].adp /\ req[r].pc = "commit"
      BY <1>0, <2>3 DEF ReqInv, UploadCommit
    <3>2. /\ Unknown(a)
          /\ \A s \in Reqs : s # r /\ req[s].adp = a => req[s].pc = "promote"
      BY <1>0, <3>1 DEF FreshInv
    <3>3. Moves(r, "enqueue", a) /\ queue' = queue
      BY <1>0, <2>3, <3>1, GoToMoves DEF UploadCommit, ReqPc
    <3>4. Rewrites(a, Uploaded(a)) /\ Uploaded(a).status = "uploaded"
      BY <1>0, <2>3, <3>1, UploadedRow DEF STypes, Rewrites, UploadCommit
    <3>5. ASSUME NEW s \in Reqs, s # r, Pushing(s)'
          PROVE  /\ req'[s] = req[s] /\ Pushing(s) /\ req[s].adp # a /\ req[s].adp \in Adapters
                 /\ row'[req[s].adp] = row[req[s].adp]
      BY <1>b, <3>2, <3>3, <3>4, <3>5 DEF Moves, Rewrites, Pushing
    <3>6. ASSUME NEW s \in Reqs, Pushing(s)'
          PROVE  /\ job' # req'[s].adp /\ ~OnList(queue', req'[s].adp)
                 /\ Exists(req[s].adp)' => row'[req'[s].adp].status = "uploaded"
      <4>1. CASE s = r
        BY <2>2, <3>2, <3>3, <3>4, <4>1 DEF Moves, Rewrites, Unknown
      <4>2. CASE s # r
        BY <1>b, <2>2, <3>3, <3>5, <3>6, <4>2 DEF Exists
      <4> QED BY <4>1, <4>2
    <3>7. \A s, t \in Reqs : Pushing(s)' /\ Pushing(t)' /\ req'[s].adp = req'[t].adp => s = t
      BY <1>c, <3>3, <3>5 DEF Moves
    <3> QED BY <1>c, <2>2, <3>3, <3>6, <3>7 DEF OnceInv
  <2>4. CASE UploadEnqueue(r)
    <3>1. PICK a \in Adapters : a = req[r].adp /\ Pushing(r)
      BY <1>0, <2>4 DEF ReqInv, UploadEnqueue, Pushing
    <3>2. /\ queue' = Append(queue, a) /\ row' = row
          /\ req'[r].pc = "idle"
      BY <1>0, <2>4, <3>1, EndMoves DEF UploadEnqueue, Moves
    <3>3. job # a /\ ~OnList(queue, a) /\ queue \in Seq(Adapters)
      BY <1>0, <1>b, <3>1 DEF STypes
    <3>4. Distinct(queue')
      BY <1>c, <3>2, <3>3, DistinctAppend
    <3>5. \A b \in Adapters : OnList(queue', b) => OnList(queue, b) \/ b = a
      BY <3>2, <3>3, ListAppend
    <3>6. ~OnList(queue', job)
      <4>1. CASE job \in Adapters
        BY <1>c, <3>3, <3>5, <4>1
      <4>2. CASE job = None
        <5>1. \A i \in 1..Len(queue') : queue'[i] \in Adapters
          BY <1>0 DEF STypes
        <5> QED BY <4>2, <5>1 DEF OnList
      <4> QED BY <1>0, <4>1, <4>2 DEF STypes
    <3>7. ASSUME NEW s \in Reqs, Pushing(s)'
          PROVE  req'[s] = req[s] /\ Pushing(s) /\ req[s].adp # a /\ req[s].adp \in Adapters
      BY <1>b, <1>c, <2>1, <3>1, <3>2, <3>7 DEF Pushing
    <3>8. ASSUME NEW s \in Reqs, Pushing(s)'
          PROVE  /\ job' # req'[s].adp /\ ~OnList(queue', req'[s].adp)
                 /\ Exists(req[s].adp)' => row'[req'[s].adp].status = "uploaded"
      BY <1>b, <2>2, <3>2, <3>5, <3>7, <3>8 DEF Exists
    <3>9. \A s, t \in Reqs : Pushing(s)' /\ Pushing(t)' /\ req'[s].adp = req'[t].adp => s = t
      BY <1>c, <3>7
    <3> QED BY <2>2, <3>4, <3>6, <3>8, <3>9 DEF OnceInv
  <2>5. CASE ~UploadCommit(r) /\ ~UploadEnqueue(r)
    <3>1. queue' = queue
      <4>1. ~UploadEnqueueFails(r) \/ ~("redis_reply_lost" \in seen')
        BY DEF Calm
      <4> QED BY <1>1, <2>5, <4>1, RequestList
    <3>2. Pushing(r)' => Pushing(r) /\ req'[r].adp = req[r].adp
      <4>1. ~Advanced(r, "commit", "enqueue")
        <5>1. SUFFICES ASSUME Advanced(r, "commit", "enqueue") PROVE FALSE
          OBVIOUS
        <5>2. req[r].pc = "commit" /\ req'[r].pc = "enqueue"
          BY <5>1 DEF Advanced
        <5>3. UploadCommitFails(r)
          BY <1>1, <2>5, <5>2 DEF RequestMoves, RequestStep, Client, CreateBegin, PromoteBegin,
             DeleteCheck, Upload, Begin, UploadRefuse, DeleteCommit, DeleteList, DeleteFiles,
             CreateRead, CreateCommit, PromoteRead, PromoteServed, PromoteCommit,
             UploadEnqueueFails, Quits, UploadRefreshRaises, UploadRefuseFails, DeleteCommitFails
        <5>4. req'[r].pc = "idle"
          BY <1>0, <5>3, EndMoves DEF UploadCommitFails, Moves
        <5> QED BY <5>2, <5>4
      <4> QED BY <2>1, <4>1 DEF Moved, Started, Answered, Bound, Advanced, Pushing, NoRequest
    <3>3. ASSUME NEW s \in Reqs, Pushing(s)'
          PROVE  /\ Pushing(s) /\ req'[s].adp = req[s].adp /\ req[s].adp \in Adapters
                 /\ row'[req[s].adp].status \in {row[req[s].adp].status, "absent"}
      <4>1. Pushing(s) /\ req'[s].adp = req[s].adp /\ req[s].adp \in Adapters
        BY <1>b, <2>1, <3>2, <3>3 DEF Pushing
      <4>2. PICK b \in Adapters : b = req[s].adp
        BY <4>1
      <4>3. CASE UNCHANGED row
        BY <4>1, <4>3
      <4>4. CASE UploadCommitFails(r)
        <5>1. req[r].adp # b
          BY <1>0, <1>1, <3>2, <3>3, <4>1, <4>2, <4>4 DEF UploadCommitFails, FreshInv, Pushing
        <5>2. \/ UNCHANGED row
              \/ \A c \in Adapters : c # req[r].adp => row'[c] = row[c]
          BY <1>1, <4>4, RequestRows DEF Rewrites, NoRow
        <5> QED BY <4>1, <4>2, <5>1, <5>2
      <4>5. CASE UploadRefuse(r)
        <5>1. req'[r].pc = "idle" /\ Pushing(r)
          BY <1>0, <4>5, EndMoves DEF UploadRefuse, Moves, Pushing
        <5>2. r # s
          BY <3>3, <5>1 DEF Pushing
        <5>3. req[r].adp # b
          BY <1>c, <4>1, <4>2, <5>1, <5>2
        <5>4. row' = row \/ (\A c \in Adapters : c # req[r].adp => row'[c] = row[c])
          BY <1>1, <1>0, <4>5, RequestRows DEF Rewrites
        <5> QED BY <4>1, <4>2, <5>3, <5>4
      <4>6. CASE Rewrites(req[r].adp, NoRow)
        BY <4>1, <4>2, <4>6 DEF Rewrites, NoRow
      <4> QED BY <1>1, <2>5, <4>1, <4>3, <4>4, <4>5, <4>6, RequestRows
    <3> QED BY <1>0, <2>2, <3>1, <3>3, OnceFrame
  <2> QED BY <2>3, <2>4, <2>5
<1>2. ASSUME SweepRead \/ SweepCommit \/ UNCHANGED vars PROVE OnceInv'
  <2>1. UNCHANGED <<queue, job, req>>
    BY <1>2 DEF SweepRead, SweepCommit, vars, reqVars, workVars
  <2>2. row' = row
    BY <1>0, <1>2 DEF SweepRead, SweepCommit, vars, STypes
  <2> QED BY <1>0, <1>b, <2>1, <2>2, OnceFrame DEF Pushing
<1>3. ASSUME AppCrash PROVE FALSE
  BY <1>3 DEF AppCrash, Event, Calm
<1>4. ASSUME WorkerMoves PROVE OnceInv'
  <2>1. req' = req
    BY <1>4, WorkerQuiet
  <2>2. \A s \in Reqs : Pushing(s) => row'[req[s].adp] = row[req[s].adp]
    BY <1>4, <1>b, WorkerWrites
  <2>3. \A s, t \in Reqs : Pushing(s)' /\ Pushing(t)' /\ req'[s].adp = req'[t].adp => s = t
    BY <1>c, <2>1 DEF Pushing
  <2>4. CASE queue' = queue /\ job' \in {job, None}
    <3>1. \A s \in Reqs : Pushing(s)' =>
            /\ Pushing(s) /\ req'[s].adp = req[s].adp /\ req[s].adp \in Adapters
            /\ row'[req[s].adp].status \in {row[req[s].adp].status, "absent"}
      BY <1>b, <2>1, <2>2 DEF Pushing
    <3> QED BY <1>0, <2>4, <3>1, OnceFrame
  <2>5. CASE JobTake
    <3>1. queue # <<>> /\ queue' = Tail(queue) /\ job' = Head(queue) /\ queue \in Seq(Adapters)
      BY <1>0, <2>5 DEF JobTake, STypes
    <3>2. /\ Head(queue) \in Adapters /\ OnList(queue, Head(queue))
          /\ \A b \in Adapters : OnList(Tail(queue), b) => OnList(queue, b)
      BY <3>1, ListPop
    <3>3. Distinct(queue') /\ ~OnList(queue', job')
      BY <1>c, <3>1, DistinctPop
    <3>4. ASSUME NEW s \in Reqs, Pushing(s)'
          PROVE  /\ job' # req'[s].adp /\ ~OnList(queue', req'[s].adp)
                 /\ Exists(req[s].adp)' => row'[req'[s].adp].status = "uploaded"
      <4>1. Pushing(s) /\ req[s].adp \in Adapters
        BY <1>b, <2>1, <3>4 DEF Pushing
      <4> QED BY <1>b, <2>1, <2>2, <3>1, <3>2, <4>1 DEF Exists
    <3> QED BY <2>3, <3>3, <3>4 DEF OnceInv
  <2>6. CASE Sigterm
    <3>1. job' = None /\ queue \in Seq(Adapters) /\ row' = row
      BY <1>0, <2>6 DEF Sigterm, Leaves, STypes
    <3>2. CASE job = None
      <4>1. queue' = queue
        BY <2>6, <3>2 DEF Sigterm
      <4> QED BY <2>4, <3>1, <4>1
    <3>3. CASE job \in Adapters
      <4>1. queue' = <<job>> \o queue
        BY <2>6, <3>3 DEF Sigterm
      <4>2. \A b \in Adapters : OnList(queue', b) => OnList(queue, b) \/ b = job
        BY <3>1, <3>3, <4>1, ListPush
      <4>3. Distinct(queue')
        BY <1>c, <3>1, <3>3, <4>1, DistinctPush
      <4>4. ~OnList(queue', job')
        <5>1. \A i \in 1..Len(queue') : queue'[i] \in Adapters
          BY <1>0 DEF STypes
        <5> QED BY <3>1, <5>1 DEF OnList
      <4>5. ASSUME NEW s \in Reqs, Pushing(s)'
            PROVE  /\ job' # req'[s].adp /\ ~OnList(queue', req'[s].adp)
                   /\ Exists(req[s].adp)' => row'[req'[s].adp].status = "uploaded"
        <5>1. Pushing(s) /\ req[s].adp \in Adapters
          BY <1>b, <2>1, <4>5 DEF Pushing
        <5> QED BY <1>b, <2>1, <3>1, <4>2, <5>1 DEF Exists
      <4> QED BY <2>3, <4>3, <4>4, <4>5 DEF OnceInv
    <3> QED BY <1>0, <3>2, <3>3 DEF STypes
  <2> QED BY <1>4, <2>4, <2>5, <2>6, WorkerWrites
<1> QED BY <1>1, <1>2, <1>3, <1>4, Movers

\* Nothing is wrong with one row after a step.
RowSettled(b) ==
    /\ row[b].status # "failed" => ~row[b].reason
    /\ row[b].metrics = "pass" => row[b].status = "passed"

\* A step that keeps a final status, as long as nobody has a stale view.
KeepsFinal(b) ==
    row[b].status \in {"passed", "failed"} => row'[b].status \in {row[b].status, "absent"}

SessionTrue ==
    wpc \in InSession /\ Exists(job) =>
        row[job].status \in {"uploaded", "processing"} /\ snap.status = row[job].status

LEMMA FinalKept ==
  ASSUME SInv, BootInv, OnceInv, FinalInv, [Next]_vars, Calm'
  PROVE  /\ FinalInv'
         /\ \A b \in Adapters : KeepsFinal(b)
<1> USE AdaptersAssumption
<1>0. /\ Calm /\ stuck = {} /\ STypes /\ STypes' /\ ReqInv /\ FreshInv /\ JobInv
  BY SeenGrows, ServeStep DEF SInv, Calm, NoCrash, BootInv
<1>a. SessionTrue /\ \A b \in Adapters : RowSettled(b)
  BY <1>0 DEF FinalInv, SessionTrue, RowSettled
<1>b. SUFFICES SessionTrue' /\ \A b \in Adapters : RowSettled(b)' /\ KeepsFinal(b)
  BY DEF FinalInv, SessionTrue, RowSettled
<1> DEFINE Goal == SessionTrue' /\ \A b \in Adapters : RowSettled(b)' /\ KeepsFinal(b)
<1>c. ASSUME UNCHANGED row PROVE \A b \in Adapters : RowSettled(b)' /\ KeepsFinal(b)
  BY <1>a, <1>c DEF RowSettled, KeepsFinal
<1>1. ASSUME NEW r \in Reqs, RequestMoves(r) PROVE Goal
  <2>1. UNCHANGED <<wpc, job, snap>>
    BY <1>1, RequestRows
  <2>2. CASE UNCHANGED row
    BY <1>a, <1>c, <2>1, <2>2 DEF SessionTrue, Exists
  <2>3. ASSUME NEW a \in Adapters, Unknown(a), Rewrites(a, Uploaded(a)) PROVE Goal
    <3>1. /\ Uploaded(a).status = "uploaded" /\ Uploaded(a).metrics = "none"
          /\ ~Uploaded(a).reason
      BY DEF Uploaded, NoRow
    <3>2. SessionTrue'
      BY <1>a, <2>1, <2>3, <1>0 DEF SessionTrue, Exists, Rewrites, Unknown, STypes, JobInv, InSession
    <3>3. ASSUME NEW b \in Adapters PROVE RowSettled(b)' /\ KeepsFinal(b)
      <4>1. CASE b = a
        BY <2>3, <3>1, <4>1 DEF Rewrites, RowSettled, KeepsFinal, Unknown, Exists
      <4>2. CASE b # a
        BY <1>a, <2>3, <4>2 DEF Rewrites, RowSettled, KeepsFinal
      <4> QED BY <4>1, <4>2
    <3> QED BY <3>2, <3>3
  <2>4. ASSUME NEW a \in Adapters, a = req[r].adp, UploadRefuse(r), Exists(a),
               Rewrites(a, [row[a] EXCEPT !.status = "failed", !.reason = TRUE])
        PROVE  Goal
    <3>1. row'[a].status = "failed" /\ row'[a].reason = TRUE /\ row'[a].metrics = row[a].metrics
      BY <1>0, <2>4 DEF Rewrites, STypes, Rows
    <3>2. row[a].status = "uploaded" /\ job # a
      BY <1>0, <2>4 DEF OnceInv, Pushing, UploadRefuse
    <3>3. SessionTrue'
      BY <1>a, <2>1, <2>4, <3>2, <1>0 DEF SessionTrue, Exists, Rewrites, STypes, JobInv, InSession
    <3>4. ASSUME NEW b \in Adapters PROVE RowSettled(b)' /\ KeepsFinal(b)
      <4>1. CASE b = a
        BY <1>a, <3>1, <3>2, <4>1 DEF RowSettled, KeepsFinal
      <4>2. CASE b # a
        BY <1>a, <2>4, <4>2 DEF Rewrites, RowSettled, KeepsFinal
      <4> QED BY <4>1, <4>2
    <3> QED BY <3>3, <3>4
  <2>5. ASSUME NEW a \in Adapters, Rewrites(a, NoRow) PROVE Goal
    <3>1. SessionTrue'
      <4>1. ASSUME wpc' \in InSession, Exists(job)'
            PROVE  job # a /\ job \in Adapters /\ row'[job] = row[job] /\ Exists(job)
        BY <1>0, <2>1, <2>5, <4>1 DEF JobInv, InSession, Exists, Rewrites, NoRow
      <4> QED BY <1>a, <2>1, <4>1 DEF SessionTrue, Exists
    <3>2. ASSUME NEW b \in Adapters PROVE RowSettled(b)' /\ KeepsFinal(b)
      <4>1. CASE b = a
        BY <2>5, <4>1 DEF Rewrites, RowSettled, KeepsFinal, NoRow
      <4>2. CASE b # a
        BY <1>a, <2>5, <4>2 DEF Rewrites, RowSettled, KeepsFinal
      <4> QED BY <4>1, <4>2
    <3> QED BY <3>1, <3>2
  <2> QED BY <1>1, <2>2, <2>3, <2>4, <2>5, RequestRows
<1>2. ASSUME SweepRead \/ SweepCommit \/ UNCHANGED vars PROVE Goal
  <2>1. UNCHANGED <<wpc, job, snap>>
    BY <1>2 DEF SweepRead, SweepCommit, vars, workVars
  <2>2. row' = row
    BY <1>0, <1>2 DEF SweepRead, SweepCommit, vars, STypes
  <2> QED BY <1>a, <1>c, <2>1, <2>2 DEF SessionTrue, Exists
<1>3. ASSUME AppCrash PROVE FALSE
  BY <1>3 DEF AppCrash, Event, Calm
<1>4. ASSUME wpc \in InSession, NEW new \in Rows, NEW p \in WorkPc, Commit(new, p),
             Exists(job) =>
                /\ p = "report" \/ new.status \in {"uploaded", "processing"}
                /\ new.status # "failed" => ~new.reason \/ new.reason = snap.reason
                /\ new.metrics = "pass" => new.metrics = snap.metrics \/ new.status = "passed"
      PROVE  Goal
  <2>1. job \in Adapters /\ row[job] \in Rows
    BY <1>0, <1>4 DEF JobInv, InSession, STypes
  <2>2. /\ \A b \in Adapters : b # job => row'[b] = row[b]
        /\ ~Exists(job) => row'[job] = row[job]
        /\ Exists(job) =>
             /\ wpc' = p /\ job' = job
             /\ p # "report" => snap' = new
             /\ row'[job].status =
                   IF new.status # snap.status THEN new.status ELSE row[job].status
             /\ row'[job].reason =
                   IF new.reason # snap.reason THEN new.reason ELSE row[job].reason
             /\ row'[job].metrics =
                   IF new.metrics # snap.metrics THEN new.metrics ELSE row[job].metrics
        /\ \/ job' = None /\ wpc' = "idle"
           \/ job' = job /\ wpc' = p
    BY <1>0, <1>4, <2>1, CommitRow
  <2>3. CASE ~Exists(job)
    <3>1. row' = row
      BY <1>0, <2>1, <2>2, <2>3 DEF STypes
    <3>2. SessionTrue'
      BY <2>2, <2>3, <3>1 DEF SessionTrue, Exists, InSession
    <3> QED BY <1>c, <3>1, <3>2
  <2>4. CASE Exists(job)
    <3>1. /\ row[job].status \in {"uploaded", "processing"} /\ snap.status = row[job].status
          /\ ~row[job].reason /\ row[job].metrics # "pass" /\ snap.metrics = row[job].metrics
      BY <1>0, <1>4, <1>a, <2>1, <2>4 DEF SessionTrue, RowSettled, JobInv
    <3>2. row'[job].status = new.status /\ row'[job].metrics = new.metrics
      BY <2>2, <2>4, <3>1
    <3>3. SessionTrue'
      BY <1>4, <2>2, <2>4, <3>2 DEF SessionTrue, Exists, InSession
    <3>4. RowSettled(job)'
      <4>1. PICK j \in Adapters : j = job
        BY <2>1
      <4>2. new.status # "failed" => ~row'[j].reason
        BY <1>4, <2>2, <2>4, <3>1, <4>1
      <4>3. row'[j].metrics = "pass" => row'[j].status = "passed"
        BY <1>4, <2>4, <3>1, <3>2, <4>1
      <4>4. job' = j /\ row'[j].status = new.status
        BY <2>2, <2>4, <3>2, <4>1
      <4> QED BY <4>2, <4>3, <4>4 DEF RowSettled
    <3>5. ASSUME NEW b \in Adapters PROVE RowSettled(b)' /\ KeepsFinal(b)
      <4>1. CASE b = job
        BY <2>2, <2>4, <3>1, <3>4, <4>1 DEF KeepsFinal, RowSettled
      <4>2. CASE b # job
        BY <1>a, <2>2, <4>2 DEF RowSettled, KeepsFinal
      <4> QED BY <4>1, <4>2
    <3> QED BY <3>3, <3>5
  <2> QED BY <2>3, <2>4
<1>5. ASSUME WorkerMoves PROVE Goal
  <2>0. snap \in Rows /\ metrics \in Metrics
    BY <1>0 DEF STypes
  <2>a. wpc \in InSession /\ Exists(job) => snap.metrics # "pass" /\ job \in Adapters
    BY <1>0, <1>a DEF SessionTrue, RowSettled, JobInv, InSession
  <2>1. CASE JobMark
    <3> DEFINE x == [snap EXCEPT !.status = "processing", !.reason = FALSE]
    <3>1. x \in Rows /\ x.status = "processing" /\ x.reason = FALSE /\ x.metrics = snap.metrics
      BY <2>0 DEF Rows, Status
    <3>2. FirstStage(content[job]) \in WorkPc /\ wpc \in InSession
      BY <2>1 DEF FirstStage, WorkPc, JobMark, InSession
    <3>3. Commit(x, FirstStage(content[job]))
      BY <2>1 DEF JobMark
    <3> HIDE DEF x
    <3> QED BY <1>4, <3>1, <3>2, <3>3
  <2>2. CASE JobConverted
    <3> DEFINE x == [snap EXCEPT !.gguf = TRUE]
    <3>1. /\ x \in Rows /\ x.status = snap.status /\ x.reason = snap.reason
          /\ x.metrics = snap.metrics
      BY <2>0 DEF Rows
    <3>2. "probe" \in WorkPc /\ wpc \in InSession /\ Commit(x, "probe")
      BY <2>2 DEF WorkPc, JobConverted, InSession
    <3> HIDE DEF x
    <3>3. Exists(job) => snap.status \in {"uploaded", "processing"}
      BY <1>a, <3>2 DEF SessionTrue
    <3> QED BY <1>4, <3>1, <3>2, <3>3
  <2>3. CASE JobFail
    <3> DEFINE x == [snap EXCEPT !.status = "failed", !.reason = TRUE]
    <3>1. x \in Rows /\ x.status = "failed" /\ x.metrics = snap.metrics
      BY <2>0 DEF Rows, Status
    <3>2. "report" \in WorkPc /\ wpc \in InSession /\ Commit(x, "report")
      BY <2>3 DEF WorkPc, JobFail, InSession
    <3> HIDE DEF x
    <3> QED BY <1>4, <3>1, <3>2
  <2>4. CASE JobConvert \/ ConvertEnd \/ JobProbe \/ JobScore
    <3>1. UNCHANGED <<row, job, snap>> /\ wpc \in InSession
      BY <2>4 DEF JobConvert, ConvertEnd, JobProbe, JobScore, JobGoes, Goes, InSession
    <3> QED BY <1>a, <1>c, <3>1 DEF SessionTrue, Exists
  <2>5. CASE JobRead
    <3>1. row' = row /\ job' = job
      BY <2>5 DEF JobRead, Goes
    <3>2. CASE ToProcess(job)
      <4>1. snap' = row[job]
        BY <2>5, <3>2 DEF JobRead
      <4> QED BY <1>c, <3>1, <3>2, <4>1 DEF ToProcess, SessionTrue
    <3>3. CASE ~ToProcess(job)
      <4>1. wpc' = "report"
        BY <2>5, <3>3 DEF JobRead, Goes
      <4> QED BY <1>c, <3>1, <4>1 DEF SessionTrue, InSession
    <3> QED BY <3>2, <3>3
  <2>6. CASE WorkerUp \/ JobTake \/ JobReport \/ JobDropped \/ JobSessionRaises \/ Sigterm
             \/ WorkerKilled
    <3>1. row' = row /\ wpc' \in {"idle", "read", "down"}
      BY <2>6 DEF WorkerUp, JobTake, JobReport, JobDropped, JobSessionRaises, Sigterm,
         WorkerKilled, Leaves, Goes
    <3> QED BY <1>c, <3>1 DEF SessionTrue, InSession
  <2>7. CASE JobStageRaises
    <3>1. UNCHANGED <<row, job, snap>> /\ wpc \in InSession
      BY <2>7 DEF JobStageRaises, Goes, InSession
    <3> QED BY <1>a, <1>c, <3>1 DEF SessionTrue, Exists
  <2>8. CASE JobDecide
    <3>1. "report" \in WorkPc /\ wpc \in InSession
      BY <2>8 DEF WorkPc, JobDecide, InSession
    <3>2. CASE metrics = "pass"
      <4> DEFINE x == [snap EXCEPT !.metrics = metrics, !.status = "passed"]
      <4>1. x \in Rows /\ x.status = "passed" /\ x.reason = snap.reason /\ x.metrics = "pass"
        BY <2>0, <3>2 DEF Rows, Status, Metrics
      <4>2. Commit(x, "report")
        BY <2>8, <3>2 DEF JobDecide
      <4> HIDE DEF x
      <4> QED BY <1>4, <3>1, <4>1, <4>2
    <3>3. CASE metrics # "pass"
      <4> DEFINE x == [snap EXCEPT !.metrics = metrics, !.status = "failed", !.reason = TRUE]
      <4>1. x \in Rows /\ x.status = "failed" /\ x.metrics # "pass"
        BY <2>0, <3>3 DEF Rows, Status, Metrics
      <4>2. Commit(x, "report")
        BY <2>8, <3>3 DEF JobDecide
      <4> HIDE DEF x
      <4> QED BY <1>4, <3>1, <4>1, <4>2
    <3> QED BY <3>2, <3>3
  <2> QED BY <1>5, <2>1, <2>2, <2>3, <2>4, <2>5, <2>6, <2>7, <2>8 DEF WorkerMoves, WorkerStep
<1> QED BY <1>1, <1>2, <1>3, <1>4, <1>5, Movers

\* What is known of a Calm run.
CalmInv == SInv /\ ClockInv /\ BootInv /\ OnceInv /\ FinalInv

LEMMA CalmKept ==
  ASSUME CalmInv, [Next]_vars
  PROVE  CalmInv'
<1>1. Calm' => FinalInv'
  BY FinalKept DEF CalmInv
<1>2. ~Calm' => FinalInv'
  BY DEF FinalInv
<1> QED BY <1>1, <1>2, ServeStep, ClockKept, BootKept, OnceKept DEF CalmInv

LEMMA CalmStarts == Init => CalmInv
BY ServeInit, AuditInit, CalmInit DEF CalmInv, AuditInv

\* What is served says it passed, and can be exported if its base has a tag, unless
\* the app restarted beside a job or an upload gave up on a job that was enqueued.
THEOREM ServedSaysPassed == Spec => []ServesPassed
<1>1. CalmInv => ServesPassed
  <2> SUFFICES ASSUME CalmInv, Calm, endpoint # None
               PROVE  /\ row[endpoint].status = "passed" /\ ~row[endpoint].reason
                      /\ BaseModel \in OllamaMap => Exportable(endpoint)
    BY DEF ServesPassed
  <2>1. endpoint \in Adapters /\ row[endpoint].metrics = "pass"
    BY DEF CalmInv, SInv, STypes, ServeInv
  <2>2. row[endpoint].gguf /\ disk[endpoint] = "whole"
    BY <2>1 DEF CalmInv, SInv, RowInv, RowGood
  <2>3. row[endpoint].status = "passed"
    BY <2>1 DEF CalmInv, FinalInv
  <2>4. ~row[endpoint].reason
    BY <2>1, <2>3 DEF CalmInv, FinalInv
  <2> QED BY <2>2, <2>3, <2>4 DEF Exportable
<1>2. CalmInv /\ [Next]_vars => CalmInv'
  BY CalmKept
<1> QED BY <1>1, <1>2, CalmStarts, PTL DEF Spec

\* Passed and failed are final in a Calm run: neither a requeued job nor a
\* refused upload rewrites them (process_adapter, upload_adapter).
THEOREM VerdictsFinal == Spec => FinalIsFinal
<1> DEFINE A == Calm' => \A a \in Adapters :
                   row[a].status \in {"passed", "failed"} =>
                       row'[a].status \in {row[a].status, "absent"}
<1>1. CalmInv /\ [Next]_vars => CalmInv' /\ [A]_vars
  <2> SUFFICES ASSUME CalmInv, [Next]_vars PROVE CalmInv' /\ A
    OBVIOUS
  <2>1. Calm' => \A a \in Adapters : KeepsFinal(a)
    BY FinalKept DEF CalmInv
  <2> QED BY <2>1, CalmKept DEF KeepsFinal
<1>2. Spec => [][A]_vars
  BY <1>1, CalmStarts, PTL DEF Spec
<1> QED BY <1>2 DEF FinalIsFinal

-----------------------------------------------------------------------------
(* Files.                                                                   *)

\* The statuses a commit of the job may write.
LEMMA JobCommits ==
  ASSUME SInv, WorkerMoves
  PROVE  \/ UNCHANGED row
         \/ /\ job \in Adapters /\ Exists(job) /\ job' = job
            /\ \A b \in Adapters : b # job => row'[b] = row[b]
            /\ \/ JobMark /\ row'[job].status \in {"processing", row[job].status}
               \/ JobConverted /\ row'[job].status = row[job].status
               \/ JobDecide /\ metrics = "pass" /\ row'[job].status \in {"passed", row[job].status}
               \/ JobDecide /\ metrics # "pass" /\ row'[job].status \in {"failed", row[job].status}
               \/ JobFail /\ row'[job].status \in {"failed", row[job].status}
<1>0. STypes /\ STypes' /\ JobInv /\ [Next]_vars
  <2>1. [Next]_vars
    BY DEF WorkerMoves, Next, Disturbance
  <2> QED BY <2>1, ServeStep DEF SInv
<1>1. snap \in Rows /\ metrics \in Metrics
  BY <1>0 DEF STypes
<1>2. ASSUME NEW new \in Rows, NEW p \in WorkPc, Commit(new, p), job \in Adapters
      PROVE  \/ UNCHANGED row
             \/ /\ Exists(job) /\ job' = job
                /\ \A b \in Adapters : b # job => row'[b] = row[b]
                /\ row'[job].status = IF new.status # snap.status THEN new.status ELSE row[job].status
  <2>1. CASE Exists(job)
    BY <1>0, <1>2, <2>1, CommitRow
  <2>2. CASE ~Exists(job)
    BY <1>0, <1>2, <2>2, CommitRow DEF STypes
  <2> QED BY <2>1, <2>2
<1>3. wpc \notin {"down", "idle"} => job \in Adapters
  BY <1>0 DEF JobInv
<1>4. CASE JobMark
  <2> DEFINE x == [snap EXCEPT !.status = "processing", !.reason = FALSE]
  <2>1. x \in Rows /\ x.status = "processing" /\ FirstStage(content[job]) \in WorkPc
    BY <1>1 DEF Rows, Status, FirstStage, WorkPc
  <2>2. Commit(x, FirstStage(content[job])) /\ job \in Adapters
    BY <1>3, <1>4 DEF JobMark
  <2> HIDE DEF x
  <2> QED BY <1>2, <1>4, <2>1, <2>2
<1>5. CASE JobConverted
  <2> DEFINE x == [snap EXCEPT !.gguf = TRUE]
  <2>1. x \in Rows /\ x.status = snap.status /\ "probe" \in WorkPc
    BY <1>1 DEF Rows, WorkPc
  <2>2. Commit(x, "probe") /\ job \in Adapters
    BY <1>3, <1>5 DEF JobConverted
  <2> HIDE DEF x
  <2> QED BY <1>2, <1>5, <2>1, <2>2
<1>6. CASE JobDecide /\ metrics = "pass"
  <2> DEFINE x == [snap EXCEPT !.metrics = metrics, !.status = "passed"]
  <2>1. x \in Rows /\ x.status = "passed" /\ "report" \in WorkPc
    BY <1>1 DEF Rows, Status, WorkPc
  <2>2. Commit(x, "report") /\ job \in Adapters
    BY <1>3, <1>6 DEF JobDecide
  <2> HIDE DEF x
  <2> QED BY <1>2, <1>6, <2>1, <2>2
<1>7. CASE JobDecide /\ metrics # "pass"
  <2> DEFINE x == [snap EXCEPT !.metrics = metrics, !.status = "failed", !.reason = TRUE]
  <2>1. x \in Rows /\ x.status = "failed" /\ "report" \in WorkPc
    BY <1>1 DEF Rows, Status, WorkPc
  <2>2. Commit(x, "report") /\ job \in Adapters
    BY <1>3, <1>7 DEF JobDecide
  <2> HIDE DEF x
  <2> QED BY <1>2, <1>7, <2>1, <2>2
<1>8. CASE JobFail
  <2> DEFINE x == [snap EXCEPT !.status = "failed", !.reason = TRUE]
  <2>1. x \in Rows /\ x.status = "failed" /\ "report" \in WorkPc
    BY <1>1 DEF Rows, Status, WorkPc
  <2>2. Commit(x, "report") /\ job \in Adapters
    BY <1>3, <1>8 DEF JobFail
  <2> HIDE DEF x
  <2> QED BY <1>2, <1>8, <2>1, <2>2
<1>9. CASE JobConvert \/ ConvertEnd \/ JobProbe \/ JobScore
  BY <1>9 DEF JobConvert, ConvertEnd, JobProbe, JobScore, JobGoes
<1>10. CASE WorkerUp \/ JobTake \/ JobRead \/ JobReport
  BY <1>10 DEF WorkerUp, JobTake, JobRead, JobReport
<1>11. CASE JobDropped \/ JobStageRaises \/ JobSessionRaises \/ Sigterm \/ WorkerKilled
  BY <1>11 DEF JobDropped, JobStageRaises, JobSessionRaises, Sigterm, WorkerKilled
<1> QED BY <1>4, <1>5, <1>6, <1>7, <1>8, <1>9, <1>10, <1>11 DEF WorkerMoves, WorkerStep

\* A row goes only with the commit of a delete request.
LEMMA Deaths ==
  ASSUME SInv, [Next]_vars, NEW b \in Adapters, Exists(b), ~Exists(b)'
  PROVE  \E r \in Reqs : /\ req[r].adp = b
                         /\ \/ DeleteCommit(r) /\ Moves(r, "remove", b)
                            \/ DeleteCommitFails(r) /\ "delete_reply_lost" \in seen'
<1>0. STypes /\ ReqInv
  BY DEF SInv
<1>1. ASSUME UNCHANGED row PROVE FALSE
  BY <1>1 DEF Exists
<1>2. ASSUME NEW r \in Reqs, RequestMoves(r)
      PROVE  /\ req[r].adp = b
             /\ \/ DeleteCommit(r) /\ Moves(r, "remove", b)
                \/ DeleteCommitFails(r) /\ "delete_reply_lost" \in seen'
  <2>1. CASE /\ req[r].adp \in Adapters /\ Rewrites(req[r].adp, Uploaded(req[r].adp))
    BY <1>0, <2>1, UploadedRow DEF Rewrites, Exists
  <2>2. CASE /\ UploadRefuse(r) /\ req[r].adp \in Adapters /\ Exists(req[r].adp)
             /\ Rewrites(req[r].adp,
                         [row[req[r].adp] EXCEPT !.status = "failed", !.reason = TRUE])
    BY <1>0, <2>2 DEF Rewrites, Exists, STypes, Rows
  <2>3. CASE /\ \/ DeleteCommit(r) /\ Moves(r, "remove", req[r].adp)
                \/ DeleteCommitFails(r) /\ "delete_reply_lost" \in seen'
             /\ req[r].adp \in Adapters /\ Rewrites(req[r].adp, NoRow)
    <3>1. req[r].adp = b
      BY <2>3 DEF Rewrites, Exists
    <3> QED BY <2>3, <3>1
  <2> QED BY <1>1, <1>2, <2>1, <2>2, <2>3, RequestRows
<1>3. ASSUME SweepRead \/ AppCrash \/ UNCHANGED vars PROVE FALSE
  BY <1>1, <1>3 DEF SweepRead, AppCrash, vars
<1>4. ASSUME SweepCommit PROVE FALSE
  BY <1>0, <1>4, SweepTame DEF Tame, Mild
<1>5. ASSUME WorkerMoves PROVE FALSE
  BY <1>1, <1>5, JobCommits DEF Exists
<1> QED BY <1>2, <1>3, <1>4, <1>5, Movers

\* A request changes the files of its own adapter.
LEMMA RequestDisk ==
  ASSUME SInv, NEW r \in Reqs, RequestMoves(r)
  PROVE  \/ UNCHANGED disk
         \/ \E a \in Adapters, c \in Contents :
               Upload(r, a, c) /\ disk' = [disk EXCEPT ![a] = Stored(c)]
         \/ (UploadCommitFails(r) \/ DeleteFiles(r)) /\ disk' = [disk EXCEPT ![req[r].adp] = "none"]
<1>1. CASE Client(r)
  BY <1>1 DEF Client, CreateBegin, PromoteBegin, DeleteCheck, Upload
<1>2. CASE UploadCommitFails(r) \/ DeleteFiles(r)
  BY <1>2 DEF UploadCommitFails, DeleteFiles
<1>3. CASE UploadCommit(r) \/ UploadEnqueue(r) \/ UploadRefuse(r) \/ DeleteCommit(r)
           \/ CreateRead(r) \/ CreateCommit(r) \/ PromoteRead(r) \/ PromoteServed(r)
           \/ PromoteCommit(r) \/ UploadEnqueueFails(r) \/ Quits(r) \/ DeleteList(r)
           \/ DeleteCommitFails(r)
  BY <1>3 DEF UploadCommit, UploadEnqueue, UploadRefuse, DeleteCommit, CreateRead,
     CreateCommit, PromoteRead, PromoteServed, PromoteCommit, UploadEnqueueFails, Quits,
     UploadRefreshRaises, UploadRefuseFails, DeleteList, DeleteCommitFails
<1> QED BY <1>1, <1>2, <1>3 DEF RequestMoves, RequestStep

\* The worker changes the files of its job by converting them.
LEMMA WorkerDisk ==
  ASSUME SInv, WorkerMoves
  PROVE  \/ UNCHANGED disk
         \/ /\ JobConvert /\ disk[job] = "peft" /\ wpc' = "write" /\ job' = job
            /\ disk' = [disk EXCEPT ![job] = "partial"]
         \/ /\ ConvertEnd /\ disk[job] # "none" /\ wpc' = "converted" /\ job' = job
            /\ disk' = [disk EXCEPT ![job] = "whole"]
<1>1. CASE JobConvert \/ ConvertEnd
  BY <1>1 DEF JobConvert, ConvertEnd, JobGoes, Goes
<1>2. CASE JobMark \/ JobConverted \/ JobDecide \/ JobFail
  BY <1>2 DEF JobMark, JobConverted, JobDecide, JobFail, Commit
<1>3. CASE WorkerUp \/ JobTake \/ JobRead \/ JobReport \/ JobProbe \/ JobScore
  BY <1>3 DEF WorkerUp, JobTake, JobRead, JobReport, JobProbe, JobScore
<1>4. CASE JobDropped \/ JobStageRaises \/ JobSessionRaises \/ Sigterm \/ WorkerKilled
  BY <1>4 DEF JobDropped, JobStageRaises, JobSessionRaises, Sigterm, WorkerKilled
<1> QED BY <1>1, <1>2, <1>3, <1>4 DEF WorkerMoves, WorkerStep

\* None of the events NoStrayFiles excepts has happened.
Tended ==
    seen \cap {"app_crash", "crash_unqueued", "delete_reply_lost", "delete_converting"} = {}

\* Request r is about to commit files, or to remove them.
Tends(r) == req[r].pc \in {"commit"} \cup Removing

\* Files without a row are those of an upload before its commit, or of a delete
\* after its own.
StrayInv ==
    Tended =>
        \A a \in Adapters : ~Exists(a) /\ disk[a] # "none" =>
            \E r \in Reqs : req[r].adp = a /\ Tends(r)

LEMMA StrayKept ==
  ASSUME SInv, StrayInv, [Next]_vars
  PROVE  StrayInv'
<1> SUFFICES ASSUME Tended', NEW a \in Adapters, ~Exists(a)', disk'[a] # "none"
             PROVE  \E r \in Reqs : req'[r].adp = a /\ Tends(r)'
  BY DEF StrayInv
<1>0. Tended /\ STypes /\ STypes' /\ ReqInv
  BY SeenGrows, ServeStep DEF SInv, Tended
<1>1. CASE Exists(a)
  <2>1. ~("delete_reply_lost" \in seen')
    BY DEF Tended
  <2> QED BY <1>1, <2>1, Deaths DEF Moves, Tends, Removing
<1>2. CASE ~Exists(a) /\ disk[a] # "none"
  <2>1. PICK s \in Reqs : req[s].adp = a /\ Tends(s)
    BY <1>0, <1>2 DEF StrayInv
  <2>2. ASSUME NEW r \in Reqs, RequestMoves(r), r = s PROVE req'[s].adp = a /\ Tends(s)'
    <3>0. req[s].pc \in {"commit", "remove", "unlink", "unlink_peft"}
      BY <2>1 DEF Tends, Removing
    <3>1. UploadCommit(s) \/ UploadCommitFails(s) \/ DeleteList(s) \/ DeleteFiles(s)
      BY <2>2, <3>0 DEF RequestMoves, RequestStep, Client, CreateBegin, PromoteBegin,
         DeleteCheck, Upload, Begin, UploadEnqueue, UploadRefuse, DeleteCommit, CreateRead,
         CreateCommit, PromoteRead, PromoteServed, PromoteCommit, UploadEnqueueFails, Quits,
         UploadRefreshRaises, UploadRefuseFails, DeleteCommitFails
    <3>2. ~UploadCommit(s)
      <4>1. SUFFICES ASSUME UploadCommit(s) PROVE FALSE
        OBVIOUS
      <4>2. row'[a] = Uploaded(a)
        BY <1>0, <2>1, <4>1 DEF UploadCommit, STypes
      <4> QED BY <1>0, <4>2, UploadedRow DEF Exists
    <3>3. ~UploadCommitFails(s) /\ ~DeleteFiles(s)
      BY <1>0, <2>1 DEF UploadCommitFails, DeleteFiles, STypes, Tended
    <3>4. PICK p \in {"unlink", "unlink_peft"} : GoTo(s, p)
      BY <3>1, <3>2, <3>3 DEF DeleteList
    <3>5. Moves(s, p, a)
      BY <1>0, <2>1, <3>4, GoToMoves DEF ReqPc
    <3> QED BY <3>5 DEF Moves, Tends, Removing
  <2>3. req'[s].adp = a /\ Tends(s)'
    <3>1. ASSUME NEW r \in Reqs, RequestMoves(r), r # s PROVE req'[s] = req[s]
      BY <3>1, RequestMoved
    <3>2. ~AppCrash
      BY DEF AppCrash, Event, Tended
    <3>3. ASSUME SweepRead \/ SweepCommit \/ WorkerMoves \/ UNCHANGED vars
          PROVE  req'[s] = req[s]
      BY <3>3, WorkerQuiet DEF SweepRead, SweepCommit, vars, reqVars
    <3>4. req'[s] = req[s] => req'[s].adp = a /\ Tends(s)'
      BY <2>1 DEF Tends
    <3> QED BY <2>2, <3>1, <3>2, <3>3, <3>4, Movers
  <2> QED BY <2>3
<1>3. CASE disk[a] = "none"
  <2>1. ASSUME NEW r \in Reqs, RequestMoves(r)
        PROVE  \E s \in Reqs : req'[s].adp = a /\ Tends(s)'
    <3>1. PICK b \in Adapters, c \in Contents :
               Upload(r, b, c) /\ disk' = [disk EXCEPT ![b] = Stored(c)]
      BY <1>0, <1>3, <2>1, RequestDisk DEF STypes
    <3>2. b = a
      BY <1>0, <1>3, <3>1 DEF STypes
    <3>3. Moves(r, "commit", a)
      BY <1>0, <3>1, <3>2, BeginMoves DEF Upload, ReqPc
    <3> QED BY <3>3 DEF Moves, Tends
  <2>2. ASSUME WorkerMoves PROVE FALSE
    BY <1>0, <1>3, <2>2, WorkerDisk DEF STypes
  <2>3. ASSUME SweepRead \/ SweepCommit \/ AppCrash \/ UNCHANGED vars PROVE FALSE
    BY <1>3, <2>3 DEF SweepRead, SweepCommit, AppCrash, vars
  <2> QED BY <2>1, <2>2, <2>3, Movers
<1> QED BY <1>1, <1>2, <1>3

\* Files are on disk for a row or for a request that will commit or remove them,
\* until the app has crashed, a delete has lost the reply of its commit, or rmtree
\* has missed a new file (upload_adapter, delete_adapter, process_adapter).
THEOREM FilesAttended == Spec => []NoStrayFiles
<1>1. StrayInv => NoStrayFiles
  BY DEF StrayInv, NoStrayFiles, Tended, Unattended
<1>2. Init => StrayInv
  BY DEF Init, StrayInv
<1>3. SInv /\ StrayInv /\ [Next]_vars => SInv' /\ StrayInv'
  BY ServeStep, StrayKept
<1> QED BY <1>1, <1>2, <1>3, ServeInit, PTL DEF Spec

-----------------------------------------------------------------------------
(* A sound adapter passes.                                                  *)

\* Somebody has the job of a, or is about to enqueue it.
Known(a) ==
    \/ job = a
    \/ OnList(queue, a)
    \/ \E r \in Reqs : req[r].pc = "enqueue" /\ req[r].adp = a

\* An upload's files are in place before its job is enqueued, and only a PEFT
\* adapter is ever converted.
DiskInv ==
    /\ \A r \in Reqs : req[r].pc = "commit" => disk[req[r].adp] = Stored(content[req[r].adp])
    /\ \A a \in Adapters : Known(a) /\ Exists(a) => disk[a] # "none"
    /\ \A a \in Adapters : content[a] \notin Peft => disk[a] \in {"none", "whole"}
    /\ wpc \in {"convert", "write", "converted"} => content[job] \in Peft

\* A job gets known by the commit of its upload.
LEMMA KnownGrows ==
  ASSUME SInv, [Next]_vars, NEW a \in Adapters, Known(a)', ~Known(a)
  PROVE  \E r \in Reqs : UploadCommit(r) /\ req[r].adp = a /\ req[r].pc = "commit"
<1> USE AdaptersAssumption
<1>0. STypes /\ STypes' /\ ReqInv
  BY ServeStep DEF SInv
<1>1. ASSUME NEW r \in Reqs, RequestMoves(r)
      PROVE  UploadCommit(r) /\ req[r].adp = a /\ req[r].pc = "commit"
  <2>1. job' = job
    BY <1>1, RequestRows
  <2>2. Moved(r) /\ \A s \in Reqs : s # r => req'[s] = req[s]
    BY <1>1, RequestMoved
  <2>3. OnList(queue', a) => OnList(queue, a) \/ (req[r].pc = "enqueue" /\ req[r].adp = a)
    <3>1. CASE queue' = queue
      BY <3>1
    <3>2. CASE queue' = Append(queue, req[r].adp) /\ (UploadEnqueue(r) \/ UploadEnqueueFails(r))
      <4>1. req[r].pc = "enqueue" /\ req[r].adp \in Adapters
        BY <1>0, <3>2 DEF UploadEnqueue, UploadEnqueueFails, ReqInv
      <4>2. queue \in Seq(Adapters)
        BY <1>0 DEF STypes
      <4> QED BY <3>2, <4>1, <4>2, ListAppend
    <3> QED BY <1>1, <3>1, <3>2, RequestList
  <2>4. PICK s \in Reqs : req'[s].pc = "enqueue" /\ req'[s].adp = a
    BY <2>1, <2>3 DEF Known
  <2>5. s = r /\ Advanced(r, "commit", "enqueue")
    BY <2>2, <2>4 DEF Known, Moved, Started, Answered, Bound, Advanced, NoRequest
  <2>6. req[r].pc = "commit" /\ req[r].adp = a /\ req'[r].pc = "enqueue"
    BY <2>4, <2>5 DEF Advanced
  <2>7. UploadCommit(r) \/ UploadCommitFails(r)
    BY <1>1, <2>6 DEF RequestMoves, RequestStep, Client, CreateBegin, PromoteBegin,
       DeleteCheck, Upload, Begin, UploadEnqueue, UploadRefuse, DeleteCommit, DeleteList,
       DeleteFiles, CreateRead, CreateCommit, PromoteRead, PromoteServed, PromoteCommit,
       UploadEnqueueFails, Quits, UploadRefreshRaises, UploadRefuseFails, DeleteCommitFails
  <2>8. ~UploadCommitFails(r)
    BY <1>0, <2>6, EndMoves DEF UploadCommitFails, Moves
  <2> QED BY <2>6, <2>7, <2>8
<1>2. ASSUME SweepRead \/ SweepCommit \/ UNCHANGED vars PROVE FALSE
  BY <1>2 DEF SweepRead, SweepCommit, vars, reqVars, workVars, Known
<1>3. ASSUME AppCrash PROVE FALSE
  BY <1>3 DEF AppCrash, workVars, Known, NoRequest
<1>4. ASSUME WorkerMoves PROVE FALSE
  <2>1. req' = req /\ queue \in Seq(Adapters)
    BY <1>0, <1>4, WorkerQuiet DEF STypes
  <2>2. CASE queue' = queue /\ job' \in {job, None}
    BY <2>1, <2>2 DEF Known
  <2>3. CASE JobTake
    <3>1. queue # <<>> /\ queue' = Tail(queue) /\ job' = Head(queue)
      BY <2>3 DEF JobTake
    <3> QED BY <2>1, <3>1, ListPop DEF Known
  <2>4. CASE Sigterm
    <3>1. job' = None /\ queue' = IF job = None THEN queue ELSE <<job>> \o queue
      BY <2>4 DEF Sigterm, Leaves
    <3>2. CASE job = None
      BY <2>1, <3>1, <3>2 DEF Known
    <3>3. CASE job \in Adapters
      BY <2>1, <3>1, <3>3, ListPush DEF Known
    <3> QED BY <1>0, <3>2, <3>3 DEF STypes
  <2> QED BY <1>4, <2>2, <2>3, <2>4, WorkerWrites
<1> QED BY <1>1, <1>2, <1>3, <1>4, Movers

LEMMA DiskInit == Init => DiskInv
BY AdaptersAssumption DEF Init, DiskInv, NoRequest, Known, OnList

LEMMA DiskKept ==
  ASSUME SInv, DiskInv, [Next]_vars
  PROVE  DiskInv'
<1> USE AdaptersAssumption
<1>0. STypes /\ STypes' /\ ReqInv /\ FreshInv /\ JobInv
  BY ServeStep DEF SInv
<1>a. \A c : Stored(c) \in {"peft", "whole"} /\ (c \notin Peft => Stored(c) = "whole")
  BY DEF Stored
\* The files of uploads about to commit.
<1>1. ASSUME NEW s \in Reqs, req'[s].pc = "commit"
      PROVE  disk'[req'[s].adp] = Stored(content'[req'[s].adp])
  <2>1. CASE req'[s] = req[s]
    <3>1. PICK a \in Adapters : a = req[s].adp
      BY <1>0, <1>1, <2>1 DEF ReqInv
    <3>2. /\ disk[a] = Stored(content[a]) /\ Unknown(a) /\ made[a] # 0
          /\ \A r \in Reqs : r # s /\ req[r].adp = a => req[r].pc = "promote"
      BY <1>0, <1>1, <2>1, <3>1 DEF DiskInv, FreshInv
    <3>3. ASSUME NEW r \in Reqs, RequestMoves(r) PROVE disk'[a] = disk[a] /\ content'[a] = content[a]
      <4>1. CASE UNCHANGED disk /\ UNCHANGED content
        BY <4>1
      <4>2. ASSUME NEW b \in Adapters, NEW c \in Contents, Upload(r, b, c)
            PROVE  disk'[a] = disk[a] /\ content'[a] = content[a]
        BY <1>0, <3>2, <4>2 DEF Upload, STypes
      <4>3. CASE /\ UploadCommitFails(r) \/ DeleteFiles(r)
                 /\ disk' = [disk EXCEPT ![req[r].adp] = "none"]
        <5>1. req[r].pc \in {"commit", "unlink", "unlink_peft"} /\ req'[r].pc = "idle"
          BY <1>0, <4>3, EndMoves DEF UploadCommitFails, DeleteFiles, Moves
        <5>2. r # s
          BY <1>1, <5>1
        <5>3. req[r].adp # a
          BY <3>2, <5>1, <5>2
        <5>4. disk' = [disk EXCEPT ![req[r].adp] = "none"] /\ content' = content
          BY <4>3 DEF UploadCommitFails, DeleteFiles, End, RequestFrame
        <5> QED BY <1>0, <5>3, <5>4 DEF STypes
      <4>4. UNCHANGED content \/ \E b \in Adapters, c \in Contents : Upload(r, b, c)
        BY <3>3 DEF RequestMoves, RequestStep, Client, CreateBegin, PromoteBegin,
         DeleteCheck, UploadCommit, UploadEnqueue, UploadRefuse, DeleteCommit, DeleteList,
         DeleteFiles, CreateRead, CreateCommit, PromoteRead, PromoteServed, PromoteCommit,
         UploadCommitFails, UploadEnqueueFails, Quits, UploadRefreshRaises,
         UploadRefuseFails, DeleteCommitFails, GoTo, End, RequestFrame
      <4> QED BY <3>3, <4>1, <4>2, <4>3, <4>4, RequestDisk
    <3>4. ASSUME WorkerMoves PROVE disk'[a] = disk[a] /\ content'[a] = content[a]
      BY <3>2, <3>4, WorkerWrites, WorkerQuiet DEF Unknown
    <3>5. ASSUME SweepRead \/ SweepCommit \/ AppCrash \/ UNCHANGED vars
          PROVE  disk'[a] = disk[a] /\ content'[a] = content[a]
      BY <3>5 DEF SweepRead, SweepCommit, AppCrash, vars, reqVars
    <3> QED BY <2>1, <3>1, <3>2, <3>3, <3>4, <3>5, Movers
  <2>2. CASE req'[s] # req[s]
    <3>1. RequestMoves(s)
      <4>1. ASSUME NEW r \in Reqs, RequestMoves(r), r # s PROVE req'[s] = req[s]
        BY <4>1, RequestMoved
      <4>2. ~AppCrash
        BY <1>1 DEF AppCrash, NoRequest
      <4> QED BY <2>2, <4>1, <4>2, Movers, WorkerQuiet DEF SweepRead, SweepCommit, vars, reqVars
    <3>2. req[s].pc = "idle"
      BY <1>1, <2>2, <3>1, RequestMoved DEF Moved, Started, Answered, Bound, Advanced, NoRequest
    <3>3. Client(s)
      BY <3>1, <3>2 DEF RequestMoves, RequestStep, UploadCommit, UploadEnqueue, UploadRefuse,
         DeleteCommit, DeleteList, DeleteFiles, CreateRead, CreateCommit, PromoteRead,
         PromoteServed, PromoteCommit, UploadCommitFails, UploadEnqueueFails, Quits,
         UploadRefreshRaises, UploadRefuseFails, DeleteCommitFails
    <3>4. ASSUME NEW p \in ReqPc, NEW b \in Adapters \cup {None}, Begin(s, p, b) PROVE p = "commit"
      BY <1>0, <1>1, <3>4, BeginMoves DEF Moves
    <3>5. PICK a \in Adapters, c \in Contents : Upload(s, a, c)
      BY <3>3, <3>4 DEF Client, CreateBegin, PromoteBegin, DeleteCheck, ReqPc
    <3>6. req'[s].adp = a
      BY <1>0, <3>5, BeginMoves DEF Upload, Moves, ReqPc
    <3> QED BY <1>0, <3>5, <3>6 DEF Upload, STypes
  <2> QED BY <2>1, <2>2
\* What changes of the files of one adapter.
<1>2. ASSUME NEW a \in Adapters
      PROVE  \/ disk'[a] = disk[a] /\ content'[a] = content[a]
             \/ ~Exists(a)' /\ ~Known(a)' /\ disk'[a] = Stored(content'[a]) /\ job # a
             \/ /\ disk'[a] = "none" /\ content'[a] = content[a]
                /\ ~Exists(a)' \/ ~Known(a)'
             \/ /\ job = a /\ wpc \in {"convert", "write"} /\ disk'[a] # "none"
                /\ content'[a] = content[a]
  <2>1. ASSUME NEW r \in Reqs, NEW b \in Adapters, NEW c \in Contents, Upload(r, b, c), a = b
        PROVE  ~Exists(a)' /\ ~Known(a)' /\ disk'[a] = Stored(content'[a]) /\ job # a
    <3>1. Unknown(a) /\ \A s \in Reqs : req[s].adp # a
      BY <1>0, <2>1 DEF FreshInv, Upload
    <3>2. Moves(r, "commit", a)
      BY <1>0, <2>1, BeginMoves DEF Upload, ReqPc
    <3>3. UNCHANGED <<row, queue, job>>
      BY <2>1 DEF Upload, Begin, workVars
    <3>4. ~Known(a)' /\ ~Exists(a)' /\ job # a
      BY <3>1, <3>2, <3>3 DEF Known, Unknown, Moves, Exists
    <3>5. disk'[a] = Stored(content'[a])
      BY <1>0, <2>1 DEF Upload, STypes
    <3> QED BY <3>4, <3>5
  <2>2. ASSUME NEW r \in Reqs, NEW b \in Adapters, NEW c \in Contents, Upload(r, b, c), a # b
        PROVE  disk'[a] = disk[a] /\ content'[a] = content[a]
    BY <1>0, <2>2 DEF Upload, STypes
  <2>3. ASSUME NEW r \in Reqs, UploadCommitFails(r), a = req[r].adp
        PROVE  disk'[a] = "none" /\ content'[a] = content[a] /\ ~Known(a)'
    <3>1. Unknown(a) /\ \A s \in Reqs : s # r /\ req[s].adp = a => req[s].pc = "promote"
      BY <1>0, <2>3 DEF FreshInv, UploadCommitFails
    <3>2. Moves(r, "idle", None) /\ UNCHANGED <<queue, job, content>> /\ disk'[a] = "none"
      BY <1>0, <2>3, EndMoves DEF UploadCommitFails, End, RequestFrame, workVars, STypes
    <3> QED BY <3>1, <3>2 DEF Known, Unknown, Moves
  <2>4. ASSUME NEW r \in Reqs, DeleteFiles(r), a = req[r].adp,
               disk' = [disk EXCEPT ![req[r].adp] = "none"]
        PROVE  disk'[a] = "none" /\ content'[a] = content[a] /\ ~Exists(a)'
    BY <1>0, <2>4 DEF DeleteFiles, ReqInv, Removing, End, RequestFrame, Exists, STypes
  <2>5. ASSUME NEW r \in Reqs, UploadCommitFails(r) \/ DeleteFiles(r), a # req[r].adp
        PROVE  disk'[a] = disk[a] /\ content'[a] = content[a]
    BY <1>0, <2>5 DEF DeleteFiles, UploadCommitFails, End, RequestFrame, STypes
  <2>6. ASSUME NEW r \in Reqs, RequestMoves(r), UNCHANGED disk, UNCHANGED content
        PROVE  disk'[a] = disk[a] /\ content'[a] = content[a]
    BY <2>6
  <2>7. ASSUME NEW r \in Reqs, RequestMoves(r)
        PROVE  UNCHANGED content \/ \E b \in Adapters, c \in Contents : Upload(r, b, c)
    BY <2>7 DEF RequestMoves, RequestStep, Client, CreateBegin, PromoteBegin,
       DeleteCheck, UploadCommit, UploadEnqueue, UploadRefuse, DeleteCommit, DeleteList,
       DeleteFiles, CreateRead, CreateCommit, PromoteRead, PromoteServed, PromoteCommit,
       UploadCommitFails, UploadEnqueueFails, Quits, UploadRefreshRaises,
       UploadRefuseFails, DeleteCommitFails, GoTo, End, RequestFrame
  <2>8. ASSUME SweepRead \/ SweepCommit \/ AppCrash \/ UNCHANGED vars
        PROVE  disk'[a] = disk[a] /\ content'[a] = content[a]
    BY <2>8 DEF SweepRead, SweepCommit, AppCrash, vars, reqVars
  <2>9. ASSUME WorkerMoves
        PROVE  \/ disk'[a] = disk[a] /\ content'[a] = content[a]
               \/ /\ job = a /\ wpc \in {"convert", "write"} /\ disk'[a] # "none"
                  /\ content'[a] = content[a]
    <3>1. content' = content
      BY <2>9, WorkerQuiet
    <3>2. CASE UNCHANGED disk
      BY <3>1, <3>2
    <3>3. CASE JobConvert /\ disk' = [disk EXCEPT ![job] = "partial"]
      BY <1>0, <3>1, <3>3 DEF JobConvert, STypes
    <3>4. CASE ConvertEnd /\ disk' = [disk EXCEPT ![job] = "whole"]
      BY <1>0, <3>1, <3>4 DEF ConvertEnd, STypes
    <3> QED BY <2>9, <3>2, <3>3, <3>4, WorkerDisk
  <2> QED BY <2>1, <2>2, <2>3, <2>4, <2>5, <2>6, <2>7, <2>8, <2>9, Movers, RequestDisk
<1>3. ASSUME NEW a \in Adapters, Known(a)', Exists(a)' PROVE disk'[a] # "none"
  <2>1. CASE Known(a) /\ Exists(a)
    BY <1>2, <1>3, <2>1 DEF DiskInv
  <2>2. CASE ~Known(a)
    <3>1. PICK r \in Reqs : UploadCommit(r) /\ req[r].adp = a /\ req[r].pc = "commit"
      BY <1>3, <2>2, KnownGrows
    <3>2. disk' = disk
      BY <3>1 DEF UploadCommit
    <3> QED BY <1>a, <3>1, <3>2 DEF DiskInv
  <2>3. CASE ~Exists(a) /\ Known(a)
    <3>1. PICK r \in Reqs : /\ req[r].pc = "commit" /\ req[r].adp = a
                            /\ UploadCommit(r) \/ UploadCommitFails(r)
      BY <1>3, <2>3, Births
    <3>2. /\ Unknown(a) /\ \A s \in Reqs : s # r /\ req[s].adp = a => req[s].pc = "promote"
      BY <1>0, <3>1 DEF FreshInv
    <3> QED BY <2>3, <3>1, <3>2 DEF Known, Unknown
  <2> QED BY <2>1, <2>2, <2>3
<1>4. ASSUME NEW a \in Adapters, content'[a] \notin Peft PROVE disk'[a] \in {"none", "whole"}
  <2>1. wpc \in {"convert", "write"} /\ job = a => content[a] \in Peft
    BY DEF DiskInv
  <2> QED BY <1>2, <1>4, <1>a, <2>1 DEF DiskInv
<1>5. ASSUME wpc' \in {"convert", "write", "converted"} PROVE content'[job'] \in Peft
  <2>1. ASSUME ~WorkerMoves
        PROVE  wpc' = wpc /\ job' = job
    BY <2>1, Movers, RequestRows DEF SweepRead, SweepCommit, AppCrash, vars, workVars
  <2>2. ASSUME ~WorkerMoves PROVE content'[job'] \in Peft
    <3>1. job \in Adapters /\ content[job] \in Peft
      BY <1>0, <1>5, <2>1, <2>2 DEF DiskInv, JobInv
    <3>2. PICK j \in Adapters : j = job
      BY <3>1
    <3>3. content'[j] = content[j]
      <4>1. ASSUME NEW r \in Reqs, NEW b \in Adapters, NEW c \in Contents, Upload(r, b, c)
            PROVE  content'[j] = content[j]
        BY <1>0, <3>2, <4>1 DEF Upload, STypes, FreshInv, Unknown
      <4> QED BY <4>1, MadeWriters
    <3> QED BY <2>1, <2>2, <3>1, <3>2, <3>3
  <2>3. ASSUME WorkerMoves PROVE content'[job'] \in Peft
    <3>1. content' = content
      BY <2>3, WorkerQuiet
    <3>2. CASE JobMark
      <4>1. ASSUME NEW x, NEW p, Commit(x, p) PROVE (wpc' = p /\ job' = job) \/ wpc' = "idle"
        BY <4>1 DEF Commit, Leaves, Goes
      <4>2. wpc' = FirstStage(content[job]) /\ job' = job
        BY <1>5, <3>2, <4>1 DEF JobMark
      <4> QED BY <1>5, <3>1, <4>2 DEF FirstStage
    <3>3. CASE JobConvert \/ ConvertEnd
      <4>1. wpc \in {"convert", "write", "converted"} /\ job' = job
        BY <3>3 DEF JobConvert, ConvertEnd, JobGoes, Goes
      <4> QED BY <3>1, <4>1 DEF DiskInv
    <3>4. CASE JobConverted \/ JobDecide \/ JobFail
      <4>1. ASSUME NEW x, NEW p, Commit(x, p) PROVE wpc' \in {p, "idle"}
        BY <4>1 DEF Commit, Leaves, Goes
      <4>2. wpc' \in {"probe", "report", "idle"}
        BY <3>4, <4>1 DEF JobConverted, JobDecide, JobFail
      <4> QED BY <1>5, <4>2
    <3>5. CASE WorkerUp \/ JobTake \/ JobRead \/ JobReport \/ JobProbe \/ JobScore \/ JobDropped
               \/ JobStageRaises \/ JobSessionRaises \/ Sigterm \/ WorkerKilled
      BY <1>5, <3>5 DEF WorkerUp, JobTake, JobRead, JobReport, JobProbe, JobScore, JobDropped,
         JobStageRaises, JobSessionRaises, Sigterm, WorkerKilled, JobGoes, Goes, Leaves
    <3> QED BY <2>3, <3>2, <3>3, <3>4, <3>5 DEF WorkerMoves, WorkerStep
  <2> QED BY <2>2, <2>3
<1> QED BY <1>1, <1>3, <1>4, <1>5 DEF DiskInv

\* What is sound by the exact scores passes however their difference is rounded.
LEMMA SoundContentPasses ==
  ASSUME NEW c \in Contents, SoundContent(c)
  PROVE  Passes(Score[c], Delta[c])
BY AdaptersAssumption DEF Passes, SoundContent

\* None of the events SoundPasses excepts has happened.
Undisturbed ==
    seen \cap {"node", "redis", "redis_reply_lost", "app_crash", "crash_unqueued",
               "sigterm_writing"} = {}

\* Undisturbed, nobody gives up on an upload, the job goes to fail for an adapter
\* that is not sound or is gone, and a GGUF is only partial while the converter
\* writes it or when its job is lost.
SoundInv ==
    Undisturbed =>
        /\ \A r \in Reqs : req[r].pc # "refuse"
        /\ wpc = "fail" /\ Exists(job) => ~Sound(job)
        /\ wpc \in {"converted", "probe"} /\ Exists(job) => disk[job] = "whole"
        /\ \A a \in Adapters : disk[a] = "partial" /\ Known(a) => wpc = "write" /\ job = a
        /\ \A a \in Adapters : Sound(a) => row[a].status # "failed"

\* The worker's part: its stage, its file and its verdict.
StageSound ==
    /\ wpc = "fail" /\ Exists(job) => ~Sound(job)
    /\ wpc \in {"converted", "probe"} /\ Exists(job) => disk[job] = "whole"

LEMMA SoundKept ==
  ASSUME CalmInv, DiskInv, SoundInv, [Next]_vars
  PROVE  SoundInv'
<1> SUFFICES ASSUME Undisturbed' PROVE SoundInv'
  BY DEF SoundInv
<1> USE AdaptersAssumption
<1>0. /\ SInv /\ STypes /\ STypes' /\ ReqInv /\ FreshInv /\ JobInv /\ SInv'
      /\ Undisturbed /\ Calm /\ NoCrash /\ stuck = {} /\ OnceInv
  BY ServeStep, SeenGrows DEF CalmInv, SInv, Undisturbed, Calm, NoCrash, BootInv
<1>a. /\ \A r \in Reqs : req[r].pc # "refuse"
      /\ StageSound
      /\ \A a \in Adapters : disk[a] = "partial" /\ Known(a) => wpc = "write" /\ job = a
      /\ \A a \in Adapters : Sound(a) => row[a].status # "failed"
  BY <1>0 DEF SoundInv, StageSound
<1>1. ASSUME NEW s \in Reqs PROVE req'[s].pc # "refuse"
  <2>1. SUFFICES ASSUME req'[s].pc = "refuse" PROVE FALSE
    OBVIOUS
  <2>2. Advanced(s, "enqueue", "refuse") /\ req'[s] # req[s]
    BY <1>0, <1>a, <2>1, ReqWriters DEF Moved, Started, Answered, Bound, Advanced, NoRequest
  <2>3. RequestMoves(s)
    <3>1. ASSUME NEW r \in Reqs, RequestMoves(r), r # s PROVE FALSE
      BY <1>0, <2>2, <3>1, RequestMoved
    <3>2. ~AppCrash
      BY <2>1 DEF AppCrash, NoRequest
    <3> QED BY <2>2, <3>1, <3>2, Movers, WorkerQuiet DEF SweepRead, SweepCommit, vars, reqVars
  <2>4. req[s].pc = "enqueue"
    BY <2>2 DEF Advanced
  <2>5. UploadEnqueue(s) \/ UploadEnqueueFails(s) \/ UploadRefreshRaises(s)
    BY <2>3, <2>4 DEF RequestMoves, RequestStep, Client, CreateBegin, PromoteBegin,
       DeleteCheck, Upload, Begin, UploadCommit, UploadRefuse, DeleteCommit, DeleteList,
       DeleteFiles, CreateRead, CreateCommit, PromoteRead, PromoteServed, PromoteCommit,
       UploadCommitFails, Quits, UploadRefuseFails, DeleteCommitFails
  <2>6. ~UploadEnqueue(s) /\ ~UploadRefreshRaises(s)
    BY <1>0, <2>1, EndMoves DEF UploadEnqueue, UploadRefreshRaises, Moves
  <2>7. ~UploadEnqueueFails(s)
    BY DEF UploadEnqueueFails, Event, Undisturbed
  <2> QED BY <2>5, <2>6, <2>7
<1>2. ASSUME ~WorkerMoves
      PROVE  /\ StageSound'
             /\ \A a \in Adapters : disk'[a] = "partial" /\ Known(a)' => wpc' = "write" /\ job' = a
             /\ \A a \in Adapters : Sound(a)' => row'[a].status # "failed"
  <2>1. UNCHANGED <<wpc, job>>
    BY <1>0, <1>2, Movers, RequestRows DEF SweepRead, SweepCommit, AppCrash, vars, workVars
  <2>2. ASSUME NEW a \in Adapters
        PROVE  \/ disk'[a] = disk[a]
               \/ disk'[a] \in {"peft", "whole"} /\ Unknown(a) /\ ~Exists(a)'
               \/ disk'[a] = "none" /\ (~Exists(a)' \/ Unknown(a))
    <3>1. ASSUME NEW r \in Reqs, NEW b \in Adapters, NEW c \in Contents, Upload(r, b, c)
          PROVE  disk'[a] = disk[a] \/ (disk'[a] \in {"peft", "whole"} /\ Unknown(a) /\ ~Exists(a)')
      <4>1. CASE a # b
        BY <1>0, <3>1, <4>1 DEF Upload, STypes
      <4>2. CASE a = b
        BY <1>0, <3>1, <4>2 DEF Upload, STypes, Stored, FreshInv, Unknown, Begin, Exists
      <4> QED BY <4>1, <4>2
    <3>2. ASSUME NEW r \in Reqs, UploadCommitFails(r) \/ DeleteFiles(r),
                 disk' = [disk EXCEPT ![req[r].adp] = "none"]
          PROVE  disk'[a] = disk[a] \/ (disk'[a] = "none" /\ (~Exists(a)' \/ Unknown(a)))
      <4>1. CASE a # req[r].adp
        BY <1>0, <3>2, <4>1 DEF STypes
      <4>2. CASE a = req[r].adp
        <5>1. disk'[a] = "none"
          BY <1>0, <3>2, <4>2 DEF STypes
        <5>2. UploadCommitFails(r) => Unknown(a)
          BY <1>0, <4>2 DEF UploadCommitFails, FreshInv
        <5>3. DeleteFiles(r) => ~Exists(a)'
          BY <1>0, <4>2 DEF DeleteFiles, ReqInv, Removing, Exists
        <5> QED BY <3>2, <5>1, <5>2, <5>3
      <4> QED BY <4>1, <4>2
    <3>3. ASSUME SweepRead \/ SweepCommit \/ AppCrash \/ UNCHANGED vars
          PROVE  disk'[a] = disk[a]
      BY <3>3 DEF SweepRead, SweepCommit, AppCrash, vars
    <3> QED BY <1>0, <1>2, <3>1, <3>2, <3>3, Movers, RequestDisk
  <2>3. ASSUME NEW a \in Adapters PROVE content'[a] = content[a] \/ (Unknown(a) /\ ~Exists(a)')
    <3>1. ASSUME NEW r \in Reqs, NEW b \in Adapters, NEW c \in Contents, Upload(r, b, c)
          PROVE  content'[a] = content[a] \/ (Unknown(a) /\ ~Exists(a)')
      BY <1>0, <3>1 DEF Upload, STypes, FreshInv, Unknown, Begin, Exists
    <3> QED BY <1>0, <3>1, MadeWriters
  <2>4. StageSound'
    <3>1. SUFFICES ASSUME Exists(job)', wpc \in {"fail", "converted", "probe"}
                   PROVE  /\ wpc = "fail" => ~Sound(job)'
                          /\ wpc \in {"converted", "probe"} => disk'[job'] = "whole"
      BY <2>1 DEF StageSound
    <3>2. PICK j \in Adapters : j = job /\ j = job'
      BY <1>0, <2>1, <3>1 DEF JobInv
    <3>3. Exists(j)' /\ ~Unknown(j)
      BY <3>1, <3>2 DEF Exists, Unknown
    <3>4. Exists(j)
      BY <1>0, <3>3, BirthsUnknown
    <3>5. disk'[j] = disk[j]
      BY <2>2, <3>3
    <3>6. content'[j] = content[j]
      BY <2>3, <3>3
    <3>7. Sound(j)' => Sound(j)
      BY <3>6 DEF Sound
    <3> QED BY <1>a, <3>1, <3>2, <3>4, <3>5, <3>7 DEF StageSound, Sound
  <2>5. ASSUME NEW a \in Adapters, disk'[a] = "partial", Known(a)' PROVE wpc' = "write" /\ job' = a
    <3>1. disk[a] = "partial"
      BY <2>2, <2>5
    <3>2. Known(a)
      <4>1. SUFFICES ASSUME ~Known(a) PROVE FALSE
        OBVIOUS
      <4>2. PICK r \in Reqs : UploadCommit(r) /\ req[r].adp = a /\ req[r].pc = "commit"
        BY <1>0, <2>5, <4>1, KnownGrows
      <4>3. disk[a] = Stored(content[a])
        BY <4>2 DEF DiskInv
      <4> QED BY <3>1, <4>3 DEF Stored
    <3> QED BY <1>a, <2>1, <3>1, <3>2
  <2>6. ASSUME NEW a \in Adapters, Sound(a)' PROVE row'[a].status # "failed"
    <3>1. CASE row'[a] = row[a]
      <4>1. CASE content'[a] = content[a]
        BY <1>a, <2>6, <3>1, <4>1 DEF Sound
      <4>2. CASE Unknown(a)
        BY <3>1, <4>2 DEF Unknown, Exists
      <4> QED BY <2>3, <4>1, <4>2
    <3>2. ASSUME NEW r \in Reqs, RequestMoves(r), row'[a] # row[a] PROVE row'[a].status # "failed"
      <4>1. ~UploadRefuse(r)
        BY <1>a DEF UploadRefuse
      <4>2. CASE /\ req[r].adp \in Adapters /\ Rewrites(req[r].adp, Uploaded(req[r].adp))
        BY <1>0, <3>2, <4>2, UploadedRow DEF Rewrites
      <4>3. CASE Rewrites(req[r].adp, NoRow)
        BY <3>2, <4>3 DEF Rewrites, NoRow
      <4> QED BY <1>0, <3>2, <4>1, <4>2, <4>3, RequestRows
    <3>3. ASSUME SweepRead \/ SweepCommit \/ AppCrash \/ UNCHANGED vars PROVE row' = row
      BY <1>0, <3>3 DEF SweepRead, SweepCommit, AppCrash, vars, STypes
    <3> QED BY <1>2, <3>1, <3>2, <3>3, Movers
  <2> QED BY <2>4, <2>5, <2>6
<1>3. ASSUME WorkerMoves
      PROVE  \A a \in Adapters : Sound(a)' => row'[a].status # "failed"
  <2>1. content' = content
    BY <1>3, WorkerQuiet
  <2>2. \A a \in Adapters : Sound(a)' => Sound(a)
    BY <2>1 DEF Sound
  <2>3. CASE UNCHANGED row
    BY <1>a, <2>2, <2>3
  <2>4. ASSUME job \in Adapters, Exists(job), \A b \in Adapters : b # job => row'[b] = row[b],
               row'[job].status = "failed", row[job].status # "failed",
               (JobDecide /\ metrics # "pass") \/ JobFail
        PROVE  ~Sound(job)
    <3>1. CASE JobFail
      BY <1>a, <2>4, <3>1 DEF StageSound, JobFail
    <3>2. CASE JobDecide /\ metrics # "pass"
      <4>1. metrics = IF PassesGate(job) THEN "pass" ELSE "fail"
        BY <1>0, <3>2 DEF JobDecide, JobInv
      <4>2. content[job] \in Contents
        BY <1>0, <2>4 DEF STypes
      <4> QED BY <3>2, <4>1, <4>2, SoundContentPasses DEF PassesGate, Sound
    <3> QED BY <2>4, <3>1, <3>2
  <2>5. CASE row' # row
    <3>1. /\ job \in Adapters /\ Exists(job)
          /\ \A b \in Adapters : b # job => row'[b] = row[b]
          /\ \/ row'[job].status \in {"processing", "passed", row[job].status}
             \/ /\ (JobDecide /\ metrics # "pass") \/ JobFail
                /\ row'[job].status \in {"failed", row[job].status}
      BY <1>0, <1>3, <2>5, JobCommits
    <3>2. Sound(job) => row'[job].status # "failed"
      BY <1>a, <2>4, <3>1
    <3> QED BY <1>a, <2>2, <3>1, <3>2
  <2> QED BY <2>3, <2>5
<1>4. ASSUME WorkerMoves
      PROVE  \A a \in Adapters : disk'[a] = "partial" /\ Known(a)' => wpc' = "write" /\ job' = a
  <2>1. SUFFICES ASSUME NEW a \in Adapters, disk'[a] = "partial", Known(a)'
                 PROVE  wpc' = "write" /\ job' = a
    OBVIOUS
  <2>2. Known(a)
    <3>1. ~\E r \in Reqs : UploadCommit(r) /\ req[r].adp = a /\ req[r].pc = "commit"
      <4>1. req' = req
        BY <1>4, WorkerQuiet
      <4>2. ASSUME NEW r \in Reqs, UploadCommit(r), req[r].pc = "commit" PROVE FALSE
        <5>1. Moves(r, "enqueue", req[r].adp)
          BY <1>0, <4>2, GoToMoves DEF UploadCommit, ReqPc
        <5> QED BY <4>1, <4>2, <5>1 DEF Moves
      <4> QED BY <4>2
    <3> QED BY <1>0, <2>1, <3>1, KnownGrows
  <2>3. CASE /\ JobConvert /\ disk[job] = "peft" /\ wpc' = "write" /\ job' = job
             /\ disk' = [disk EXCEPT ![job] = "partial"]
    <3>1. CASE a = job
      BY <2>3, <3>1
    <3>2. CASE a # job
      <4>1. disk[a] = "partial"
        BY <1>0, <2>1, <2>3, <3>2 DEF STypes
      <4> QED BY <1>a, <2>2, <2>3, <3>2, <4>1 DEF JobConvert
    <3> QED BY <3>1, <3>2
  <2>4. CASE /\ ConvertEnd /\ disk' = [disk EXCEPT ![job] = "whole"]
    <3>1. a # job /\ disk[a] = "partial"
      BY <1>0, <2>1, <2>4 DEF STypes
    <3> QED BY <1>a, <2>2, <3>1
  <2>5. CASE UNCHANGED disk
    <3>1. wpc = "write" /\ job = a
      BY <1>a, <2>1, <2>2, <2>5
    <3>2. CASE ConvertEnd
      BY <1>0, <2>1, <2>5, <3>1, <3>2 DEF ConvertEnd, STypes
    <3>3. CASE Sigterm
      BY <3>1, <3>3 DEF Sigterm, Event, Undisturbed
    <3>4. CASE WorkerKilled
      <4>1. job' = None /\ queue' = queue /\ req' = req
        BY <1>4, <3>4, WorkerQuiet DEF WorkerKilled, Leaves
      <4>2. ~OnList(queue, a) /\ \A r \in Reqs : req[r].pc = "enqueue" => req[r].adp # a
        BY <1>0, <3>1 DEF OnceInv, Pushing
      <4> QED BY <2>1, <4>1, <4>2 DEF Known
    <3>5. ConvertEnd \/ Sigterm \/ WorkerKilled
      BY <1>4, <3>1 DEF WorkerMoves, WorkerStep, WorkerUp, JobTake, JobRead, JobMark, JobConvert,
         JobConverted, JobProbe, JobScore, JobDecide, JobFail, JobReport, JobDropped,
         JobStageRaises, JobSessionRaises
    <3> QED BY <3>2, <3>3, <3>4, <3>5
  <2> QED BY <1>0, <1>4, <2>3, <2>4, <2>5, WorkerDisk
<1>5. ASSUME WorkerMoves PROVE StageSound'
  <2>1. content' = content
    BY <1>5, WorkerQuiet
  <2>2. SUFFICES ASSUME Exists(job)', wpc' \in {"fail", "converted", "probe"}
                 PROVE  /\ wpc' = "fail" => ~Sound(job)'
                        /\ wpc' \in {"converted", "probe"} => disk'[job'] = "whole"
    BY DEF StageSound
  <2>3. wpc \in InSession /\ job' = job /\ job \in Adapters
    <3>1. wpc \in InSession
      <4>1. CASE WorkerUp \/ JobTake \/ JobRead \/ JobReport \/ JobDropped \/ JobSessionRaises
                 \/ Sigterm \/ WorkerKilled
        BY <2>2, <4>1 DEF WorkerUp, JobTake, JobRead, JobReport, JobDropped, JobSessionRaises,
           Sigterm, WorkerKilled, Leaves, Goes
      <4> QED BY <1>5, <4>1 DEF WorkerMoves, WorkerStep, JobMark, JobConvert, ConvertEnd,
            JobConverted, JobProbe, JobScore, JobDecide, JobFail, JobStageRaises, InSession
    <3>2. job \in Adapters
      BY <1>0, <3>1 DEF JobInv, InSession
    <3>3. job' \in {job, None} \/ JobTake
      BY <1>0, <1>5, WorkerWrites DEF Sigterm, Leaves
    <3>4. job' # None
      BY <1>0, <2>2 DEF SInv, JobInv
    <3> QED BY <3>1, <3>2, <3>3, <3>4 DEF JobTake, InSession
  <2>4. PICK j \in Adapters : j = job /\ j = job'
    BY <2>3
  <2>5. Exists(j)'
    BY <2>2, <2>4 DEF Exists
  <2>6. Exists(j) /\ disk[j] # "none"
    <3>1. Exists(j)
      BY <1>0, <2>4, <2>5, BirthsUnknown DEF Unknown
    <3>2. Known(j)
      BY <2>4 DEF Known
    <3> QED BY <3>1, <3>2 DEF DiskInv
  <2>7. disk[j] = "partial" => wpc = "write"
    BY <1>a, <2>4 DEF Known
  <2>8. Sound(j)' => Sound(j)
    BY <2>1 DEF Sound
  <2>9. CASE JobMark
    <3>1. ASSUME NEW x, NEW p, Commit(x, p) PROVE wpc' \in {p, "idle"} /\ UNCHANGED disk
      BY <3>1 DEF Commit, Leaves, Goes
    <3>2. wpc' = FirstStage(content[j]) /\ disk' = disk
      BY <2>2, <2>4, <2>9, <3>1 DEF JobMark
    <3>3. wpc' = "fail" => ~Sound(j)
      BY <3>2 DEF FirstStage, Sound, SoundContent
    <3>4. wpc' \in {"converted", "probe"} => disk[j] = "whole"
      BY <2>6, <3>2 DEF FirstStage, DiskInv
    <3> QED BY <2>4, <2>8, <3>2, <3>3, <3>4 DEF Sound
  <2>10. CASE JobConvert
    <3>1. CASE disk[job] \in {"partial", "whole"}
      <4>1. wpc' = "converted" /\ disk' = disk /\ wpc = "convert"
        BY <2>10, <3>1 DEF JobConvert, JobGoes, Goes
      <4> QED BY <2>4, <2>7, <3>1, <4>1
    <3>2. CASE disk[job] = "peft" /\ Flaw[content[job]] = "convert"
      <4>1. ~Sound(j) /\ wpc' = "fail"
        BY <2>4, <2>10, <3>2 DEF Sound, SoundContent, JobConvert, JobGoes, Goes
      <4> QED BY <2>4, <2>8, <4>1 DEF Sound
    <3>3. CASE disk[job] = "peft" /\ Flaw[content[job]] # "convert"
      <4>1. ~Vanishing(job)
        BY <1>0, <2>4, <2>6 DEF Vanishing, ReqInv, Removing
      <4> QED BY <2>2, <2>10, <3>3, <4>1 DEF JobConvert, JobGoes, Goes
    <3> QED BY <2>4, <2>6, <2>10, <3>1, <3>2, <3>3 DEF JobConvert
  <2>11. CASE ConvertEnd
    <3>1. wpc' = "converted" /\ disk' = [disk EXCEPT ![job] = "whole"]
      BY <2>4, <2>6, <2>11 DEF ConvertEnd, JobGoes, Goes
    <3> QED BY <1>0, <2>4, <3>1 DEF STypes
  <2>12. CASE JobConverted
    <3>1. ASSUME NEW x, NEW p, Commit(x, p) PROVE wpc' \in {p, "idle"} /\ UNCHANGED disk
      BY <3>1 DEF Commit, Leaves, Goes
    <3>2. wpc' = "probe" /\ disk' = disk /\ wpc = "converted"
      BY <2>2, <2>12, <3>1 DEF JobConverted
    <3> QED BY <1>a, <2>4, <2>6, <3>2 DEF StageSound
  <2>13. CASE JobProbe
    <3>1. disk[j] = "whole" /\ wpc = "probe"
      BY <1>a, <2>4, <2>6, <2>13 DEF StageSound, JobProbe
    <3>2. wpc' = IF Flaw[content[j]] # "probe" THEN "score" ELSE "fail"
      BY <2>4, <2>13, <3>1 DEF JobProbe, JobGoes, Goes
    <3>3. wpc' = "fail" /\ ~Sound(j)
      BY <2>2, <3>2 DEF Sound, SoundContent
    <3> QED BY <2>4, <2>8, <3>3 DEF Sound
  <2>14. CASE JobScore
    <3>1. disk[j] = "whole"
      BY <1>0, <2>4, <2>6, <2>14 DEF JobInv, JobScore
    <3> QED BY <2>2, <2>4, <2>14, <3>1 DEF JobScore, JobGoes, Goes
  <2>15. CASE JobDecide \/ JobFail
    <3>1. ASSUME NEW x, NEW p, Commit(x, p) PROVE wpc' \in {p, "idle"}
      BY <3>1 DEF Commit, Leaves, Goes
    <3>2. wpc' \in {"report", "idle"}
      BY <2>15, <3>1 DEF JobDecide, JobFail
    <3> QED BY <2>2, <3>2
  <2>16. CASE JobStageRaises
    BY <2>16 DEF JobStageRaises, Event, Undisturbed
  <2>17. CASE WorkerUp \/ JobTake \/ JobRead \/ JobReport \/ JobDropped \/ JobSessionRaises
              \/ Sigterm \/ WorkerKilled
    BY <2>2, <2>17 DEF WorkerUp, JobTake, JobRead, JobReport, JobDropped, JobSessionRaises,
       Sigterm, WorkerKilled, Leaves, Goes
  <2> QED BY <1>5, <2>9, <2>10, <2>11, <2>12, <2>13, <2>14, <2>15, <2>16, <2>17
          DEF WorkerMoves, WorkerStep
<1>6. /\ StageSound'
      /\ \A a \in Adapters : disk'[a] = "partial" /\ Known(a)' => wpc' = "write" /\ job' = a
      /\ \A a \in Adapters : Sound(a)' => row'[a].status # "failed"
  BY <1>2, <1>3, <1>4, <1>5
<1> QED BY <1>1, <1>6 DEF SoundInv, StageSound

\* A sound adapter fails only by the node, an enqueue that failed, a restart of
\* the app beside its job, or a stop of the worker while the converter writes.
THEOREM SoundAdaptersPass == Spec => []SoundPasses
<1>1. SoundInv => SoundPasses
  BY DEF SoundInv, SoundPasses, Undisturbed
<1>2. Init => SoundInv
  BY AdaptersAssumption DEF Init, SoundInv, NoRequest, NoRow
<1>3. CalmInv /\ DiskInv /\ SoundInv /\ [Next]_vars => CalmInv' /\ DiskInv' /\ SoundInv'
  BY CalmKept, DiskKept, SoundKept DEF CalmInv
<1> QED BY <1>1, <1>2, <1>3, CalmStarts, DiskInit, PTL DEF Spec
=============================================================================
