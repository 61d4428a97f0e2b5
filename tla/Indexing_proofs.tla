--------------------------- MODULE Indexing_proofs ---------------------------
(***************************************************************************)
(* Proofs about module Indexing, for any set of files, any number of       *)
(* workers and any number of faults.                                       *)
(***************************************************************************)
EXTENDS Indexing, TLAPS

\* The loop positions in which a worker has a job in its hands.
InHand == {"popped", "busy", "requeue", "lpush"}

\* A worker's cur is a file exactly there, which requeue's LPUSH relies on.
Holding == \A w \in Workers : wpc[w] \in InHand <=> cur[w] # NoFile

\* TypeOK alone is not inductive: LPUSH of NoFile would leave Seq(Files).
TInv == TypeOK /\ Holding

\* The thread a cancelled task leaves behind is one of the worker's.
LEMMA OrphanedType ==
  ASSUME TypeOK, NEW f \in Files
  PROVE  Orphaned(f) \subseteq Zombie
BY DEF TypeOK, Orphaned, Zombie

\* What a loop that Redis has broken off leaves behind.
LEMMA LoopRaisesFacts ==
  ASSUME TInv, NEW w \in Workers, LoopRaises(w)
  PROVE  /\ wpc' = [wpc EXCEPT ![w] = "exit"] /\ cur' = [cur EXCEPT ![w] = NoFile]
         /\ pc' = [f \in Files |-> IF f \in OwnTasks(w) THEN "none" ELSE pc[f]]
         /\ UNCHANGED <<status, rows, coll, vec, disk, alive, app, upl, del, shutdown, owner,
                        att, retry, todo, dead>>
         /\ \/ queue' = queue
            \/ wpc[w] = "lpush" /\ cur[w] \in Files /\ queue' = <<cur[w]>> \o queue
         /\ meta' \in [Files -> Meta]
         /\ \A f \in Files : f # cur[w] => meta'[f] = meta[f]
         /\ wpc[w] \in InHand \cup {"idle", "reporting"}
         /\ wpc[w] = "reporting" => dead[w] = {}
         /\ \E e \in {"redis", "redis_holding_queued"} : seen' = seen \cup {e}
         /\ LeavesQueued(w) => "redis_holding_queued" \in seen'
<1> USE DEF TInv, TypeOK, Holding, InHand, LoopRaises
<1>1. /\ wpc' = [wpc EXCEPT ![w] = "exit"] /\ cur' = [cur EXCEPT ![w] = NoFile]
      /\ pc' = [f \in Files |-> IF f \in OwnTasks(w) THEN "none" ELSE pc[f]]
  BY DEF LeaveLoop, SetLoop
<1>2. UNCHANGED <<status, rows, coll, vec, disk, alive, app, upl, del, shutdown, owner,
                  att, retry, todo, dead>>
  BY DEF db, store, appVars, sweepVars
<1>3. \/ queue' = queue
      \/ wpc[w] = "lpush" /\ cur[w] \in Files /\ queue' = <<cur[w]>> \o queue
  OBVIOUS
<1>4. meta' \in [Files -> Meta] /\ \A f \in Files : f # cur[w] => meta'[f] = meta[f]
  <2>1. \/ meta' = meta \/ meta' = [meta EXCEPT ![cur[w]] = "failed"]
        \/ meta' = [meta EXCEPT ![cur[w]] = "queued"]
    OBVIOUS
  <2> QED BY <2>1 DEF Meta
<1>5. wpc[w] \in InHand \cup {"idle", "reporting"} /\ (wpc[w] = "reporting" => dead[w] = {})
  OBVIOUS
<1>6. /\ \E e \in {"redis", "redis_holding_queued"} : seen' = seen \cup {e}
      /\ LeavesQueued(w) => "redis_holding_queued" \in seen'
  BY DEF Event
<1> QED BY <1>1, <1>2, <1>3, <1>4, <1>5, <1>6

\* Every step keeps every variable in its type: one step of the proof per action.
LEMMA TypeStep == TInv /\ [Next]_vars => TypeOK'
<1> SUFFICES ASSUME TInv, [Next]_vars PROVE TypeOK'
  OBVIOUS
<1>0. /\ NoEvent => events' \in 0..MaxEvents /\ seen' \subseteq Events
      /\ \A e : Event(e) => events' \in 0..MaxEvents /\ seen' \subseteq Events
  BY IndexingAssumption DEF TInv, TypeOK, NoEvent, Event
<1>r. ASSUME NEW w \in Workers, LoopRaises(w)
      PROVE  /\ wpc' = [wpc EXCEPT ![w] = "exit"] /\ cur' = [cur EXCEPT ![w] = NoFile]
             /\ pc' = [f \in Files |-> IF f \in OwnTasks(w) THEN "none" ELSE pc[f]]
             /\ UNCHANGED <<status, rows, coll, vec, disk, alive, app, upl, del, shutdown, owner,
                            att, retry, todo, dead>>
             /\ queue' = queue \/ (cur[w] \in Files /\ queue' = <<cur[w]>> \o queue)
             /\ meta' \in [Files -> Meta]
  BY <1>r, LoopRaisesFacts
<1> USE <1>0, IndexingAssumption
    DEF TInv, TypeOK, db, store, redis, appVars, loopVars, taskVars, sweepVars,
        Status, Row, Transient, Meta, Sweepers, TaskPc, Attempt, LoopPc
<1>1. CASE AppStart
  BY <1>1 DEF AppStart, TransientFiles
<1>2. ASSUME NEW f \in Files, UserStep(f) PROVE TypeOK'
  <2>1. CASE UploadCommit(f)
    BY <2>1 DEF UploadCommit
  <2>2. CASE DeleteStart(f)
    BY <2>2 DEF DeleteStart
  <2>3. CASE UploadReplyLost(f)
    BY <2>3 DEF UploadReplyLost
  <2> QED BY <1>2, <2>1, <2>2, <2>3 DEF UserStep
<1>3. ASSUME NEW f \in Files, RequestStep(f) PROVE TypeOK'
  <2>1. CASE UploadEnqueue(f)
    BY <2>1 DEF UploadEnqueue, Enqueue
  <2>2. CASE UploadMarkFailed(f)
    BY <2>2 DEF UploadMarkFailed
  <2>3. CASE DeleteVectors(f)
    BY <2>3 DEF DeleteVectors
  <2>4. CASE Unlink(f)
    BY <2>4 DEF Unlink
  <2>5. CASE DeleteRow(f)
    BY <2>5 DEF DeleteRow
  <2>6. CASE UploadMarkFails(f)
    BY <2>6 DEF UploadMarkFails
  <2> QED BY <1>3, <2>1, <2>2, <2>3, <2>4, <2>5, <2>6 DEF RequestStep
<1>4. ASSUME NEW f \in Files, TaskStep(f) PROVE TypeOK'
  <2> USE DEF Goto, TaskOnly, Raise
  <2>1. CASE JobStart(f)
    BY <2>1 DEF JobStart
  <2>2. CASE Lookup(f)
    BY <2>2 DEF Lookup
  <2>3. CASE Mark(f)
    <3>1. CASE status[f] \in Row
      BY <2>3, <3>1 DEF Mark
    <3>2. CASE status[f] \notin Row
      BY <2>3, <3>2 DEF Mark
    <3> QED BY <3>1, <3>2
  <2>4. CASE Prep(f)
    BY <2>4 DEF Prep
  <2>5. CASE PrepRaises(f)
    <3>1. PICK x \in BOOLEAN : Raise(f, x, "reset")
      BY <2>5 DEF PrepRaises
    <3>2. retry' \in [Files -> BOOLEAN]
      BY <3>1
    <3>3. events' \in 0..MaxEvents /\ seen' \subseteq Events
      BY <2>5 DEF PrepRaises
    <3> QED BY <2>5, <3>1, <3>2, <3>3 DEF PrepRaises
  <2>6. CASE Persist(f)
    <3>1. CASE status[f] \in Row /\ ~rows[f]
      BY <2>6, <3>1 DEF Persist
    <3>2. CASE ~(status[f] \in Row /\ ~rows[f])
      <4>1. Raise(f, TRUE, "reset")
        BY <2>6, <3>2 DEF Persist
      <4>2. retry' \in [Files -> BOOLEAN]
        BY <4>1
      <4> QED BY <2>6, <4>1, <4>2 DEF Persist
    <3> QED BY <3>1, <3>2
  <2>7. CASE Upsert(f)
    BY <2>7 DEF Upsert
  <2>8. CASE UpsertRaises(f)
    BY <2>8 DEF UpsertRaises
  <2>9. CASE Commit(f)
    BY <2>9 DEF Commit
  <2>10. CASE CommitRaises(f)
    BY <2>10 DEF CommitRaises
  <2>11. CASE Cleanup(f)
    BY <2>11 DEF Cleanup
  <2>12. CASE Reset(f)
    <3>1. status' \in [Files -> Status]
      BY <2>12 DEF Reset
    <3>2. pc' \in [Files -> TaskPc] /\ att' \in [Files -> {1, 2}]
      <4>1. \/ Goto(f, "lookup") /\ att' = [att EXCEPT ![f] = 2]
            \/ Goto(f, "returned") /\ att' = att
        BY <2>12, Zenon DEF Reset
      <4>2. CASE Goto(f, "lookup") /\ att' = [att EXCEPT ![f] = 2]
        BY <4>2
      <4>3. CASE Goto(f, "returned") /\ att' = att
        BY <4>3
      <4> QED BY <4>1, <4>2, <4>3, Zenon
    <3> QED BY <2>12, <3>1, <3>2 DEF Reset
  <2>13. CASE ResetRaises(f)
    BY <2>13 DEF ResetRaises
  <2>14. CASE Return(f)
    BY <2>14 DEF Return
  <2>15. CASE FailFile(f)
    <3>1. CASE status[f] \in Transient
      BY <2>15, <3>1 DEF FailFile
    <3>2. CASE status[f] \notin Transient
      BY <2>15, <3>2 DEF FailFile
    <3> QED BY <3>1, <3>2
  <2>16. CASE FailFileClean(f)
    BY <2>16 DEF FailFileClean
  <2>17. CASE JobSucceeds(f)
    BY <2>17 DEF JobSucceeds
  <2>18. CASE JobReturns(f)
    BY <2>18 DEF JobReturns, EndTask, SetLoop
  <2>19. CASE JobStatusRaises(f)
    BY <2>19 DEF JobStatusRaises
  <2>20. CASE JobFails(f)
    BY <2>20 DEF JobFails, EndTask, SetLoop
  <2>21. CASE EarlyDbRaises(f)
    <3>1. retry' \in [Files -> BOOLEAN] /\ pc' \in [Files -> TaskPc]
      <4>1. CASE pc[f] = "lookup"
        BY <2>21, <4>1 DEF EarlyDbRaises
      <4>2. CASE pc[f] # "lookup"
        <5>1. Raise(f, TRUE, "reset")
          BY <2>21, <4>2 DEF EarlyDbRaises
        <5> QED BY <5>1
      <4> QED BY <4>1, <4>2
    <3>2. coll' \in BOOLEAN
      BY <2>21 DEF EarlyDbRaises
    <3>3. events' \in 0..MaxEvents /\ seen' \subseteq Events
      BY <2>21 DEF EarlyDbRaises
    <3> QED BY <2>21, <3>1, <3>2, <3>3 DEF EarlyDbRaises
  <2>22. CASE CommitReplyLost(f)
    <3>1. retry' \in [Files -> BOOLEAN] /\ pc' \in [Files -> TaskPc]
      BY <2>22 DEF CommitReplyLost
    <3>2. events' \in 0..MaxEvents /\ seen' \subseteq Events
      BY <2>22 DEF CommitReplyLost
    <3> QED BY <2>22, <3>1, <3>2 DEF CommitReplyLost
  <2> QED BY <1>4, <2>1, <2>2, <2>3, <2>4, <2>5, <2>6, <2>7, <2>8, <2>9, <2>10,
             <2>11, <2>12, <2>13, <2>14, <2>15, <2>16, <2>17, <2>18, <2>19, <2>20,
             <2>21, <2>22
          DEF TaskStep
<1>5. ASSUME NEW w \in Workers, LoopStep(w) PROVE TypeOK'
  <2> USE DEF SetLoop
  <2>1. CASE WorkerStart(w)
    BY <2>1 DEF WorkerStart, TransientFiles
  <2>2. CASE Pop(w)
    BY <2>2 DEF Pop
  <2>3. CASE Dispatch(w)
    BY <2>3 DEF Dispatch
  <2>4. CASE RequeueStatus(w)
    BY <2>4 DEF RequeueStatus
  <2>5. CASE RequeuePush(w)
    <3>1. queue' \in Seq(Files)
      BY <2>5 DEF Holding, InHand, RequeuePush
    <3>2. zombies' \in SUBSET Zombie
      BY <2>5, OrphanedType DEF RequeuePush, LeaveLoop, OwnTasks
    <3> QED BY <2>5, <3>1, <3>2 DEF RequeuePush, LeaveLoop
  <2>6. CASE LoopEnds(w)
    <3>1. zombies' \in SUBSET Zombie
      BY <2>6, OrphanedType DEF LoopEnds, LeaveLoop, OwnTasks
    <3> QED BY <2>6, <3>1 DEF LoopEnds, LeaveLoop
  <2>7. CASE WorkerExits(w)
    BY <2>7 DEF WorkerExits
  <2> QED BY <1>5, <2>1, <2>2, <2>3, <2>4, <2>5, <2>6, <2>7 DEF LoopStep
<1>6. ASSUME NEW p \in Sweepers, SweepStep(p) PROVE TypeOK'
  <2> USE DEF SetSweepPhase, SweepPhase, SweepJudge
  <2>1. ASSUME NEW f \in Files, SweepCheck(p, f) PROVE TypeOK'
    BY <2>1 DEF SweepCheck
  <2>2. ASSUME NEW f \in Files, SweepReport(p, f) PROVE TypeOK'
    BY <2>2 DEF SweepReport
  <2>3. CASE SweepCommit(p)
    BY <2>3 DEF SweepCommit
  <2>4. CASE SweepEnd(p)
    BY <2>4 DEF SweepEnd
  <2> QED BY <1>6, <2>1, <2>2, <2>3, <2>4 DEF SweepStep
<1>7. ASSUME NEW z \in zombies, ZombieEnds(z) PROVE TypeOK'
  BY <1>7 DEF ZombieEnds, Zombie
<1>8. CASE Disturbance
  <2> USE DEF SetLoop, SetSweepPhase, SweepPhase, SweepJudge
  <2>1. CASE AppCrash
    BY <2>1 DEF AppCrash
  <2>2. CASE HeartbeatExpires
    BY <2>2 DEF HeartbeatExpires
  <2>3. ASSUME NEW f \in Files, UploadEnqueueFails(f) PROVE TypeOK'
    <3>1. events' \in 0..MaxEvents /\ seen' \subseteq Events
      BY <2>3 DEF UploadEnqueueFails
    <3>2. CASE UNCHANGED redis
      BY <2>3, <3>1, <3>2 DEF UploadEnqueueFails
    <3>3. CASE Enqueue(f)
      BY <2>3, <3>1, <3>3 DEF UploadEnqueueFails, Enqueue
    <3> QED BY <2>3, <3>2, <3>3 DEF UploadEnqueueFails
  <2>4. ASSUME NEW f \in Files, DeleteVectorsFails(f) PROVE TypeOK'
    BY <2>4 DEF DeleteVectorsFails
  <2>5. ASSUME NEW f \in Files, DeleteRowFails(f) PROVE TypeOK'
    BY <2>5 DEF DeleteRowFails
  <2>6. ASSUME NEW f \in Files, Timeout(f) PROVE TypeOK'
    <3>1. zombies' \in SUBSET Zombie
      BY <2>6, OrphanedType DEF Timeout
    <3>2. pc' \in [Files -> TaskPc] /\ att' \in [Files -> {1, 2}]
      <4>1. CASE att[f] = 1
        BY <2>6, <4>1 DEF Timeout, Goto
      <4>2. CASE att[f] # 1
        BY <2>6, <4>2 DEF Timeout, Goto
      <4> QED BY <4>1, <4>2
    <3> QED BY <2>6, <3>1, <3>2 DEF Timeout
  <2>7. ASSUME NEW w \in Workers, DispatchFails(w) PROVE TypeOK'
    BY <2>7 DEF DispatchFails
  <2>8. ASSUME NEW w \in Workers, Terminate(w) PROVE TypeOK'
    <3>1. CASE wpc[w] = "busy" /\ pc[cur[w]] # "jobfail"
      <4>1. cur[w] \in Files
        BY <3>1 DEF Holding, InHand
      <4>2. zombies' \in SUBSET Zombie
        BY <2>8, <3>1, <4>1, OrphanedType DEF Terminate
      <4> QED BY <2>8, <3>1, <4>2 DEF Terminate
    <3>2. CASE ~(wpc[w] = "busy" /\ pc[cur[w]] # "jobfail")
      BY <2>8, <3>2 DEF Terminate
    <3> QED BY <3>1, <3>2
  <2>9. ASSUME NEW w \in Workers, WorkerCrash(w) PROVE TypeOK'
    BY <2>9 DEF WorkerCrash, OwnTasks
  <2>10. ASSUME NEW w \in Workers, HeartbeatFails(w) PROVE TypeOK'
    BY <2>10 DEF HeartbeatFails
  <2>11. ASSUME NEW p \in Sweepers, SweepCommitFails(p) PROVE TypeOK'
    BY <2>11 DEF SweepCommitFails
  <2>12. ASSUME NEW p \in Sweepers, NEW f \in Files, SweepCheckFails(p, f)
         PROVE TypeOK'
    BY <2>12 DEF SweepCheckFails
  <2>13. ASSUME NEW w \in Workers, LoopRaises(w) PROVE TypeOK'
    <3>0. /\ wpc' = [wpc EXCEPT ![w] = "exit"] /\ cur' = [cur EXCEPT ![w] = NoFile]
          /\ pc' = [f \in Files |-> IF f \in OwnTasks(w) THEN "none" ELSE pc[f]]
          /\ UNCHANGED <<status, rows, coll, vec, disk, alive, app, upl, del, shutdown, owner,
                         att, retry, todo, dead>>
          /\ queue' = queue \/ (cur[w] \in Files /\ queue' = <<cur[w]>> \o queue)
          /\ meta' \in [Files -> Meta]
      BY <1>r, <2>13, Zenon
    <3>1. queue' \in Seq(Files)
      <4>1. ASSUME NEW f \in Files, queue' = <<f>> \o queue PROVE queue' \in Seq(Files)
        BY <4>1
      <4>2. CASE queue' = queue
        BY <4>2
      <4> QED BY <3>0, <4>1, <4>2
    <3>2. zombies' \in SUBSET Zombie
      BY <2>13, OrphanedType DEF LoopRaises, LeaveLoop, OwnTasks
    <3>3. events' \in 0..MaxEvents /\ seen' \subseteq Events
      BY <2>13 DEF LoopRaises
    <3> QED BY <3>0, <3>1, <3>2, <3>3
  <2> QED BY <1>8, <2>1, <2>2, <2>3, <2>4, <2>5, <2>6, <2>7, <2>8, <2>9, <2>10,
             <2>11, <2>12, <2>13
          DEF Disturbance
<1>9. CASE UNCHANGED vars
  BY <1>9 DEF vars
<1> QED BY <1>1, <1>2, <1>3, <1>4, <1>5, <1>6, <1>7, <1>8, <1>9 DEF Next

\* A worker has a job in its hands exactly between the BLPOP and the end of the
\* task or the LPUSH.
LEMMA HoldingStep == TInv /\ [Next]_vars => Holding'
<1> SUFFICES ASSUME TInv, [Next]_vars PROVE Holding'
  OBVIOUS
<1> USE IndexingAssumption
    DEF TInv, TypeOK, Holding, InHand, SetLoop, loopVars, appVars
<1>1. CASE UNCHANGED <<wpc, cur>>
  BY <1>1
<1>2. ASSUME NEW f \in Files, EndTask(f, Awaited(f)) PROVE Holding'
  BY <1>2 DEF EndTask
<1>3. ASSUME NEW w \in Workers,
             LoopStep(w) \/ DispatchFails(w) \/ Terminate(w) \/ WorkerCrash(w)
                \/ HeartbeatFails(w) \/ LoopRaises(w)
      PROVE  Holding'
  BY <1>3 DEF LoopStep, WorkerStart, Pop, Dispatch, RequeueStatus, RequeuePush,
              LoopEnds, LeaveLoop, WorkerExits, DispatchFails, Terminate,
              WorkerCrash, HeartbeatFails, LoopRaises
<1>4. ASSUME NEW p \in Sweepers, SweepStep(p) \/ SweepCommitFails(p) PROVE Holding'
  BY <1>4 DEF SweepStep, SweepCheck, SweepReport, SweepCommit, SweepEnd,
              SweepCommitFails, SetSweepPhase, SweepPhase, Sweepers
<1>5. ASSUME NEW f \in Files, TaskStep(f) PROVE Holding'
  BY <1>1, <1>2, <1>5
  DEF TaskStep, JobStart, Lookup, Mark, Prep, PrepRaises, EarlyDbRaises, Persist, Upsert,
      UpsertRaises, Commit, CommitRaises, CommitReplyLost, Cleanup, Reset, ResetRaises, Return,
      FailFile, FailFileClean, JobSucceeds, JobReturns, JobStatusRaises, JobFails,
      TaskOnly
<1>6. ASSUME NEW f \in Files, UserStep(f) \/ RequestStep(f) PROVE Holding'
  BY <1>1, <1>6
  DEF UserStep, UploadCommit, UploadReplyLost, DeleteStart, RequestStep, UploadEnqueue,
      UploadMarkFailed, UploadMarkFails, DeleteVectors, Unlink, DeleteRow
<1>7. CASE Disturbance
  BY <1>1, <1>3, <1>4, <1>7
  DEF Disturbance, AppCrash, HeartbeatExpires, UploadEnqueueFails,
      DeleteVectorsFails, DeleteRowFails, Timeout, SweepCheckFails
<1>8. CASE AppStart \/ \E z \in zombies : ZombieEnds(z)
  BY <1>1, <1>8 DEF AppStart, ZombieEnds
<1>9. CASE UNCHANGED vars
  BY <1>1, <1>9 DEF vars
<1> QED
  BY <1>3, <1>4, <1>5, <1>6, <1>7, <1>8, <1>9 DEF Next

LEMMA TypeInit == Init => TInv
<1>1. Init => TypeOK
  <2> SUFFICES ASSUME Init PROVE TypeOK
    OBVIOUS
  <2>1. (CHOOSE w \in Workers : TRUE) \in Workers
    BY IndexingAssumption
  <2>2. /\ rows \in [Files -> BOOLEAN] /\ vec \in [Files -> BOOLEAN]
        /\ disk \in [Files -> BOOLEAN] /\ retry \in [Files -> BOOLEAN]
        /\ shutdown \in [Workers -> BOOLEAN]
    BY DEF Init
  <2>3. owner \in [Files -> Workers]
    BY <2>1 DEF Init
  <2>4. events \in 0..MaxEvents /\ seen \subseteq Events /\ queue \in Seq(Files)
    BY IndexingAssumption DEF Init
  <2>5. /\ status \in [Files -> Status] /\ pc \in [Files -> TaskPc]
        /\ wpc \in [Workers -> LoopPc] /\ meta \in [Files -> Meta]
    BY DEF Init, Status, Meta, TaskPc, LoopPc
  <2> QED
    BY <2>2, <2>3, <2>4, <2>5
    DEF Init, TypeOK
<1>2. Init => Holding
  BY DEF Init, Holding, InHand
<1> QED BY <1>1, <1>2 DEF TInv

LEMMA TypeInvariance == Spec => []TInv
<1>1. TInv /\ [Next]_vars => TInv'
  BY TypeStep, HoldingStep DEF TInv
<1> QED BY <1>1, TypeInit, PTL DEF Spec

\* The types hold in every reachable state of the pipeline; in particular the
\* attempts of an index job never exceed two, however often it times out.
THEOREM TypeCorrect == Spec => []TypeOK
<1>1. TInv => TypeOK
  BY DEF TInv
<1> QED BY <1>1, TypeInvariance, PTL

-----------------------------------------------------------------------------
(* The chunk rows.                                                          *)

\* An attempt that has found the file transient has not committed chunk rows:
\* what lets Mark and Reset put the status back to a transient one.
NoRowsYet ==
    "db_reply_lost" \notin seen => \A f \in Files :
        pc[f] \in {"mark", "prep", "persist", "upsert", "commit", "cleanup", "reset"}
            => ~rows[f]

RInv == RowsMatchStatus /\ NoRowsYet

\* What has happened is not forgotten.
LEMMA SeenGrows == [Next]_vars => seen \subseteq seen'
<1> SUFFICES ASSUME [Next]_vars PROVE seen \subseteq seen'
  OBVIOUS
<1> USE DEF NoEvent, Event
<1>1. ASSUME NEW f \in Files, TaskStep(f) PROVE seen \subseteq seen'
  BY <1>1 DEF TaskStep, JobStart, Lookup, Mark, Prep, PrepRaises, EarlyDbRaises, Persist, Upsert,
      UpsertRaises, Commit, CommitRaises, CommitReplyLost, Cleanup, Reset, ResetRaises, Return,
      FailFile, FailFileClean, JobSucceeds, JobReturns, JobStatusRaises, JobFails,
      TaskOnly, EndTask
<1>2. ASSUME NEW f \in Files, UserStep(f) \/ RequestStep(f) PROVE seen \subseteq seen'
  BY <1>2 DEF UserStep, UploadCommit, UploadReplyLost, DeleteStart, RequestStep, UploadEnqueue,
      UploadMarkFailed, UploadMarkFails, DeleteVectors, Unlink, DeleteRow
<1>3. ASSUME NEW w \in Workers, LoopStep(w) PROVE seen \subseteq seen'
  BY <1>3 DEF LoopStep, WorkerStart, Pop, Dispatch, RequeueStatus, RequeuePush,
              LoopEnds, WorkerExits
<1>4. ASSUME NEW p \in Sweepers, SweepStep(p) PROVE seen \subseteq seen'
  BY <1>4 DEF SweepStep, SweepCheck, SweepReport, SweepCommit, SweepEnd
<1>5. CASE Disturbance
  BY <1>5 DEF Disturbance, AppCrash, HeartbeatExpires, UploadEnqueueFails,
      DeleteVectorsFails, DeleteRowFails, Timeout, DispatchFails, Terminate,
      WorkerCrash, HeartbeatFails, LoopRaises, SweepCommitFails, SweepCheckFails
<1>6. CASE AppStart \/ (\E z \in zombies : ZombieEnds(z)) \/ UNCHANGED vars
  BY <1>6 DEF AppStart, ZombieEnds, vars
<1> QED BY <1>1, <1>2, <1>3, <1>4, <1>5, <1>6 DEF Next

LEMMA RowsStep == TypeOK /\ RInv /\ [Next]_vars => RInv'
<1> SUFFICES ASSUME TypeOK, RInv, [Next]_vars PROVE RInv'
  OBVIOUS
<1>s. seen \subseteq seen'
  BY SeenGrows
<1> USE <1>s DEF TypeOK, RInv, RowsMatchStatus, NoRowsYet, Status, Row, Transient
<1>1. CASE UNCHANGED <<status, rows, pc>>
  BY <1>1
<1>2. ASSUME NEW f \in Files, UserStep(f) \/ RequestStep(f) PROVE RInv'
  <2> USE DEF taskVars, db
  <2>1. CASE UploadCommit(f) \/ UploadReplyLost(f)
    BY <2>1 DEF UploadCommit, UploadReplyLost
  <2>2. CASE UploadMarkFailed(f) \/ UploadMarkFails(f)
    BY <2>2 DEF UploadMarkFailed, UploadMarkFails
  <2>3. CASE DeleteRow(f)
    BY <2>3 DEF DeleteRow
  <2>4. CASE DeleteStart(f) \/ UploadEnqueue(f) \/ DeleteVectors(f) \/ Unlink(f)
    BY <1>1, <2>4 DEF DeleteStart, UploadEnqueue, DeleteVectors, Unlink
  <2> QED BY <1>2, <2>1, <2>2, <2>3, <2>4 DEF UserStep, RequestStep
<1>3. ASSUME NEW f \in Files, TaskStep(f) PROVE RInv'
  <2> USE DEF Goto, Raise, TaskOnly, db
  <2>1. CASE Lookup(f)
    BY <2>1 DEF Lookup
  <2>7. CASE Mark(f)
    <3>1. CASE status[f] \in Row
      BY <2>7, <3>1 DEF Mark
    <3>2. CASE status[f] \notin Row
      BY <2>7, <3>2 DEF Mark
    <3> QED BY <3>1, <3>2
  <2>2. CASE Commit(f)
    BY <2>2 DEF Commit
  <2>8. CASE CommitReplyLost(f)
    <3>1. "db_reply_lost" \in seen'
      BY <2>8 DEF CommitReplyLost, Event
    <3> QED BY <2>8, <3>1 DEF CommitReplyLost
  <2>3. CASE Reset(f)
    BY <2>3 DEF Reset
  <2>4. CASE FailFile(f)
    BY <2>4 DEF FailFile
  <2>5. CASE \/ JobStart(f) \/ Prep(f) \/ PrepRaises(f) \/ EarlyDbRaises(f) \/ Persist(f) \/ Upsert(f)
             \/ UpsertRaises(f) \/ CommitRaises(f) \/ Cleanup(f) \/ ResetRaises(f)
    BY <2>5 DEF JobStart, Prep, PrepRaises, EarlyDbRaises, Persist, Upsert, UpsertRaises,
                CommitRaises, Cleanup, ResetRaises
  <2>6. CASE \/ Return(f) \/ FailFileClean(f) \/ JobSucceeds(f) \/ JobReturns(f)
             \/ JobStatusRaises(f) \/ JobFails(f)
    BY <2>6 DEF Return, FailFileClean, JobSucceeds, JobReturns, JobStatusRaises,
                JobFails, EndTask
  <2> QED BY <1>3, <2>1, <2>2, <2>3, <2>4, <2>5, <2>6, <2>7, <2>8 DEF TaskStep
<1>4. ASSUME NEW w \in Workers, LoopStep(w) PROVE RInv'
  BY <1>4 DEF LoopStep, WorkerStart, Pop, Dispatch, RequeueStatus, RequeuePush,
              LoopEnds, LeaveLoop, WorkerExits, db, taskVars
<1>5. ASSUME NEW p \in Sweepers, SweepStep(p) PROVE RInv'
  BY <1>5 DEF SweepStep, SweepCheck, SweepReport, SweepCommit, SweepEnd, db, taskVars
<1>6. CASE Disturbance
  <2>1. ASSUME NEW f \in Files, Timeout(f) PROVE RInv'
    BY <2>1 DEF Timeout, Goto, db
  <2>2. ASSUME NEW w \in Workers, Terminate(w) \/ WorkerCrash(w) \/ LoopRaises(w) PROVE RInv'
    BY <2>2 DEF Terminate, WorkerCrash, LoopRaises, LeaveLoop, db
  <2> QED
    BY <1>1, <1>6, <2>1, <2>2
    DEF Disturbance, AppCrash, HeartbeatExpires, UploadEnqueueFails,
        DeleteVectorsFails, DeleteRowFails, DispatchFails, HeartbeatFails,
        SweepCommitFails, SweepCheckFails, db, taskVars
<1>7. CASE AppStart \/ (\E z \in zombies : ZombieEnds(z)) \/ UNCHANGED vars
  BY <1>7 DEF AppStart, ZombieEnds, vars, db, taskVars
<1> QED BY <1>2, <1>3, <1>4, <1>5, <1>6, <1>7 DEF Next

\* The chunk rows follow the status in every reachable state, whatever sweeps,
\* time-outs, deletes, crashes and retries interleave with _index_file's commit; once a
\* commit has lost its reply, still that an indexed file has its chunk rows.
THEOREM RowsFollowStatus == Spec => []RowsMatchStatus
<1>1. Init => RInv
  BY DEF Init, RInv, RowsMatchStatus, NoRowsYet
<1>2. TInv => TypeOK
  BY DEF TInv
<1>3. RInv => RowsMatchStatus
  BY DEF RInv
<1> QED BY <1>1, <1>2, <1>3, RowsStep, TypeInvariance, PTL DEF Spec

-----------------------------------------------------------------------------
(* One place per job.                                                       *)

OnList(s, f) == \E i \in 1..Len(s) : s[i] = f

Distinct(s) == \A i, j \in 1..Len(s) : s[i] = s[j] => i = j

\* RPUSH, LPUSH and BLPOP on a list without duplicates.
LEMMA ListAppend ==
  ASSUME NEW s \in Seq(Files), NEW f \in Files, Distinct(s), ~OnList(s, f)
  PROVE  /\ Distinct(Append(s, f))
         /\ \A g \in Files : OnList(Append(s, f), g) => OnList(s, g) \/ g = f
<1>1. /\ Len(Append(s, f)) = Len(s) + 1
      /\ \A i \in 1..Len(s) : Append(s, f)[i] = s[i]
      /\ Append(s, f)[Len(s) + 1] = f
  OBVIOUS
<1> QED BY <1>1 DEF Distinct, OnList

LEMMA ListPush ==
  ASSUME NEW s \in Seq(Files), NEW f \in Files, Distinct(s), ~OnList(s, f)
  PROVE  /\ Distinct(<<f>> \o s)
         /\ \A g \in Files : OnList(<<f>> \o s, g) => OnList(s, g) \/ g = f
<1>1. /\ Len(<<f>> \o s) = Len(s) + 1
      /\ (<<f>> \o s)[1] = f
      /\ \A i \in 2..Len(s) + 1 : (<<f>> \o s)[i] = s[i - 1]
  OBVIOUS
<1> QED BY <1>1 DEF Distinct, OnList

LEMMA ListPop ==
  ASSUME NEW s \in Seq(Files), s # <<>>, Distinct(s)
  PROVE  /\ Head(s) \in Files
         /\ OnList(s, Head(s))
         /\ Distinct(Tail(s))
         /\ \A g \in Files : OnList(Tail(s), g) => OnList(s, g) /\ g # Head(s)
<1>1. /\ Len(s) >= 1 /\ Len(Tail(s)) = Len(s) - 1
      /\ Head(s) = s[1] /\ Head(s) \in Files
      /\ \A i \in 1..Len(Tail(s)) : Tail(s)[i] = s[i + 1]
  OBVIOUS
<1> QED BY <1>1 DEF Distinct, OnList

\* Between the list and a task: popped, or on its way back.
Carrying == {"popped", "requeue", "lpush"}

Carries(w, f) == wpc[w] \in Carrying /\ cur[w] = f

\* The places of a job exclude each other; a file without a row has no job, and
\* a busy worker owns the task it awaits.
HInv ==
    /\ Distinct(queue)
    /\ \A f \in Files :
          /\ upl[f] = "enqueue" => ~OnList(queue, f) /\ pc[f] = "none"
          /\ pc[f] # "none" => ~OnList(queue, f)
          /\ status[f] = "absent" => upl[f] = "none" /\ ~OnList(queue, f) /\ pc[f] = "none"
    /\ \A w \in Workers : wpc[w] \in Carrying =>
          /\ status[cur[w]] # "absent" /\ upl[cur[w]] # "enqueue"
          /\ ~OnList(queue, cur[w]) /\ pc[cur[w]] = "none"
          /\ \A v \in Workers : Carries(v, cur[w]) => v = w
    /\ \A w \in Workers : wpc[w] = "busy" => pc[cur[w]] # "none" /\ owner[cur[w]] = w

\* What most steps keep of the above: they move no job.
Frame ==
    /\ queue' = queue /\ owner' = owner
    /\ \A f \in Files :
          /\ upl'[f] = "enqueue" => upl[f] = "enqueue"
          /\ upl'[f] # "none" => upl[f] # "none"
          /\ status'[f] = "absent" => status[f] = "absent"
          /\ pc'[f] = "none" <=> pc[f] = "none"
    /\ \A w \in Workers :
          /\ wpc'[w] \in Carrying => wpc[w] \in Carrying /\ cur'[w] = cur[w]
          /\ wpc'[w] = "busy" => wpc[w] = "busy" /\ cur'[w] = cur[w]

LEMMA FrameKeeps == ASSUME TInv, HInv, Frame PROVE HInv'
<1>1. \A w \in Workers : wpc[w] \in InHand => cur[w] \in Files
  BY DEF TInv, TypeOK, Holding
<1> QED BY <1>1 DEF TInv, TypeOK, HInv, Frame, Carries, InHand, Carrying

LEMMA HeldStep == TInv /\ HInv /\ [Next]_vars => HInv'
<1> SUFFICES ASSUME TInv, HInv, [Next]_vars PROVE HInv'
  OBVIOUS
<1>0. \A w \in Workers : wpc[w] \in InHand => cur[w] \in Files
  BY DEF TInv, TypeOK, Holding
<1>f. Frame => HInv'
  BY FrameKeeps
<1> USE <1>0, IndexingAssumption
    DEF TInv, TypeOK, Carries, InHand, Carrying, db, redis, appVars, loopVars, taskVars
<1>1. ASSUME NEW f \in Files, UserStep(f) PROVE HInv'
  <2>1. CASE UploadCommit(f) \/ UploadReplyLost(f)
    BY <2>1 DEF UploadCommit, UploadReplyLost, HInv
  <2>2. CASE DeleteStart(f)
    BY <2>2, <1>f DEF DeleteStart, Frame
  <2> QED BY <1>1, <2>1, <2>2 DEF UserStep
<1>2. ASSUME NEW f \in Files,
             UploadEnqueue(f) \/ (UploadEnqueueFails(f) /\ Enqueue(f))
      PROVE  HInv'
  <2>1. upl[f] = "enqueue" /\ Enqueue(f) /\ ~OnList(queue, f)
    BY <1>2 DEF UploadEnqueue, UploadEnqueueFails, HInv
  <2>2. /\ Distinct(queue')
        /\ \A g \in Files : OnList(queue', g) => OnList(queue, g) \/ g = f
    BY <2>1, ListAppend DEF Enqueue, HInv
  <2>3. UNCHANGED <<status, pc, owner, wpc, cur>>
    BY <1>2 DEF UploadEnqueue, UploadEnqueueFails
  <2>4. upl' = [upl EXCEPT ![f] = "none"] \/ upl' = [upl EXCEPT ![f] = "markfailed"]
    BY <1>2 DEF UploadEnqueue, UploadEnqueueFails
  <2> QED BY <2>1, <2>2, <2>3, <2>4 DEF HInv
<1>3. ASSUME NEW f \in Files,
             \/ UploadMarkFailed(f) \/ UploadMarkFails(f) \/ DeleteVectors(f) \/ Unlink(f) \/ DeleteRow(f)
             \/ DeleteVectorsFails(f) \/ DeleteRowFails(f) \/ Timeout(f)
             \/ UploadEnqueueFails(f) /\ UNCHANGED redis
      PROVE  HInv'
  <2>1. Frame
    BY <1>3 DEF UploadMarkFailed, UploadMarkFails, DeleteVectors, Unlink, DeleteRow,
        DeleteVectorsFails,
                DeleteRowFails, Timeout, Attempt, Goto, UploadEnqueueFails, Frame
  <2> QED BY <2>1, <1>f
<1>4. ASSUME NEW f \in Files, TaskStep(f) PROVE HInv'
  <2> USE DEF Goto, TaskOnly, Raise
  <2>1. CASE JobReturns(f) \/ JobFails(f)
    <3>1. EndTask(f, Awaited(f)) /\ pc[f] # "none"
      BY <2>1 DEF JobReturns, JobFails
    <3>2. pc' = [pc EXCEPT ![f] = "none"] /\ UNCHANGED <<status, queue, upl, owner>>
      BY <3>1 DEF EndTask
    <3>3. CASE Awaited(f)
      <4>1. /\ wpc' = [wpc EXCEPT ![owner[f]] = "idle"]
            /\ cur' = [cur EXCEPT ![owner[f]] = NoFile]
        BY <3>1, <3>3 DEF EndTask, SetLoop
      <4> QED BY <3>1, <3>2, <4>1 DEF HInv
    <3>4. CASE ~Awaited(f)
      <4>1. UNCHANGED <<wpc, cur>>
        BY <3>1, <3>4 DEF EndTask
      <4> QED BY <3>1, <3>2, <3>4, <4>1 DEF HInv, Awaited
    <3> QED BY <3>3, <3>4
  <2>2. CASE \/ JobStart(f) \/ Lookup(f) \/ Mark(f) \/ Prep(f) \/ PrepRaises(f) \/ EarlyDbRaises(f)
             \/ Persist(f) \/ Upsert(f) \/ UpsertRaises(f) \/ Commit(f)
    <3>1. Frame
      BY <2>2 DEF JobStart, Lookup, Mark, Prep, PrepRaises, EarlyDbRaises, Persist, Upsert,
                  UpsertRaises, Commit, Frame
    <3> QED BY <3>1, <1>f
  <2>3. CASE \/ CommitRaises(f) \/ CommitReplyLost(f) \/ Cleanup(f) \/ Reset(f) \/ ResetRaises(f)
             \/ Return(f) \/ FailFile(f) \/ FailFileClean(f) \/ JobSucceeds(f)
             \/ JobStatusRaises(f)
    <3>1. Frame
      BY <2>3 DEF CommitRaises, CommitReplyLost, Cleanup, Reset, ResetRaises, Return, FailFile,
                  FailFileClean, JobSucceeds, JobStatusRaises, Frame
    <3> QED BY <3>1, <1>f
  <2> QED BY <1>4, <2>1, <2>2, <2>3 DEF TaskStep
<1>5. ASSUME NEW w \in Workers, LoopStep(w) PROVE HInv'
  <2> USE DEF SetLoop
  <2>1. CASE Pop(w)
    <3>1. /\ Head(queue) \in Files /\ OnList(queue, Head(queue))
          /\ Distinct(queue')
          /\ \A g \in Files : OnList(queue', g) => OnList(queue, g) /\ g # Head(queue)
      BY <2>1, ListPop DEF Pop, HInv
    <3> QED BY <2>1, <3>1 DEF Pop, HInv
  <2>2. CASE Dispatch(w)
    BY <2>2 DEF Dispatch, HInv
  <2>3. CASE RequeuePush(w)
    <3>1. cur[w] \in Files /\ ~OnList(queue, cur[w])
      BY <2>3 DEF RequeuePush, HInv
    <3>2. /\ Distinct(queue')
          /\ \A g \in Files : OnList(queue', g) => OnList(queue, g) \/ g = cur[w]
      BY <2>3, <3>1, ListPush DEF RequeuePush, HInv
    <3> QED BY <2>3, <3>1, <3>2 DEF RequeuePush, LeaveLoop, OwnTasks, HInv
  <2>4. CASE LoopEnds(w)
    BY <2>4 DEF LoopEnds, LeaveLoop, OwnTasks, HInv
  <2>5. CASE WorkerStart(w) \/ RequeueStatus(w) \/ WorkerExits(w)
    <3>1. Frame
      BY <2>5 DEF WorkerStart, RequeueStatus, WorkerExits, Frame
    <3> QED BY <3>1, <1>f
  <2> QED BY <1>5, <2>1, <2>2, <2>3, <2>4, <2>5 DEF LoopStep
<1>6. ASSUME NEW w \in Workers,
             \/ DispatchFails(w) \/ Terminate(w) \/ WorkerCrash(w) \/ HeartbeatFails(w)
             \/ LoopRaises(w)
      PROVE  HInv'
  <2> USE DEF SetLoop
  <2>1. CASE DispatchFails(w) \/ HeartbeatFails(w)
    <3>1. Frame
      BY <2>1 DEF DispatchFails, HeartbeatFails, Frame
    <3> QED BY <3>1, <1>f
  <2>2. CASE Terminate(w)
    BY <2>2 DEF Terminate, HInv
  <2>3. CASE WorkerCrash(w)
    BY <2>3 DEF WorkerCrash, OwnTasks, HInv
  <2>4. CASE LoopRaises(w)
    <3>1. /\ wpc' = [wpc EXCEPT ![w] = "exit"] /\ cur' = [cur EXCEPT ![w] = NoFile]
          /\ pc' = [f \in Files |-> IF f \in OwnTasks(w) THEN "none" ELSE pc[f]]
          /\ UNCHANGED <<status, upl, owner>>
      BY <2>4, LoopRaisesFacts
    <3>2. CASE queue' = queue
      BY <3>1, <3>2 DEF OwnTasks, HInv
    <3>3. CASE wpc[w] = "lpush" /\ queue' = <<cur[w]>> \o queue
      <4>1. cur[w] \in Files /\ ~OnList(queue, cur[w])
        BY <3>3 DEF HInv
      <4>2. /\ Distinct(queue')
            /\ \A g \in Files : OnList(queue', g) => OnList(queue, g) \/ g = cur[w]
        BY <3>3, <4>1, ListPush DEF HInv
      <4> QED BY <3>1, <3>3, <4>1, <4>2 DEF OwnTasks, HInv
    <3> QED BY <2>4, <3>2, <3>3, LoopRaisesFacts
  <2> QED BY <1>6, <2>1, <2>2, <2>3, <2>4
<1>7. ASSUME NEW p \in Sweepers, SweepStep(p) \/ SweepCommitFails(p) PROVE HInv'
  <2>1. Frame
    BY <1>7 DEF SweepStep, SweepCheck, SweepReport, SweepCommit, SweepEnd,
                SweepCommitFails, SetSweepPhase, SweepPhase, Sweepers, Row, Transient,
                Frame
  <2> QED BY <2>1, <1>f
<1>8. CASE \/ AppStart \/ AppCrash \/ HeartbeatExpires
           \/ \E z \in zombies : ZombieEnds(z)
           \/ \E p \in Sweepers, f \in Files : SweepCheckFails(p, f)
           \/ UNCHANGED vars
  <2>1. Frame
    BY <1>8 DEF AppStart, AppCrash, HeartbeatExpires, ZombieEnds, SweepCheckFails,
                vars, Frame
  <2> QED BY <2>1, <1>f
<1>9. CASE Disturbance
  <2>1. ASSUME NEW f \in Files, UploadEnqueueFails(f) PROVE HInv'
    BY <1>2, <1>3, <2>1 DEF UploadEnqueueFails
  <2> QED BY <1>3, <1>6, <1>7, <1>8, <1>9, <2>1 DEF Disturbance
<1>10. ASSUME NEW f \in Files, RequestStep(f) PROVE HInv'
  BY <1>2, <1>3, <1>10 DEF RequestStep
<1> QED
  BY <1>1, <1>4, <1>5, <1>7, <1>8, <1>9, <1>10 DEF Next

LEMMA HeldImplies == TInv /\ HInv => JobHeldOnce
<1> SUFFICES ASSUME TInv, HInv, NEW f \in Files, NEW p \in Places(f), NEW q \in Places(f)
             PROVE  p = q
  BY DEF JobHeldOnce
<1>1. ASSUME NEW x \in Places(f)
      PROVE  \/ x = <<"upload", f>> /\ upl[f] = "enqueue"
             \/ \E i \in 1..Len(queue) : x = <<"list", i>> /\ queue[i] = f
             \/ \E w \in Workers : x = <<"worker", w>> /\ Carries(w, f)
             \/ x = <<"task", f>> /\ pc[f] # "none"
  BY <1>1 DEF Places, Carries, Carrying, TInv, TypeOK
<1>2. CASE upl[f] = "enqueue"
  BY <1>1, <1>2 DEF HInv, OnList, Carries
<1>3. CASE OnList(queue, f)
  <2>1. /\ upl[f] # "enqueue" /\ pc[f] = "none"
        /\ \A w \in Workers : ~Carries(w, f)
    BY <1>3 DEF HInv, Carries
  <2> QED BY <1>1, <2>1 DEF HInv, Distinct
<1>4. ASSUME NEW w \in Workers, Carries(w, f) PROVE p = q
  BY <1>1, <1>4 DEF HInv, OnList, Carries
<1>5. CASE pc[f] # "none"
  BY <1>1, <1>5 DEF HInv, OnList, Carries
<1> QED BY <1>1, <1>2, <1>3, <1>4, <1>5 DEF OnList

\* An index job is in one place in every reachable state: no interleaving of
\* pops, requeues, cancellations, crashes and lost replies makes two index tasks
\* of one file, for any number of workers and faults.
THEOREM JobsHeldOnce == Spec => []JobHeldOnce
<1>1. Init => HInv
  BY DEF Init, HInv, OnList, Distinct, Carries, Carrying
<1> QED BY <1>1, HeldStep, HeldImplies, TypeInvariance, PTL DEF Spec

-----------------------------------------------------------------------------
(* One task per worker, and no queued job without a holder.                 *)

\* The list keeps what is not popped.
LEMMA ListKeeps ==
  ASSUME NEW s \in Seq(Files), NEW f \in Files
  PROVE  /\ OnList(Append(s, f), f) /\ OnList(<<f>> \o s, f)
         /\ \A g \in Files : OnList(s, g) => OnList(Append(s, f), g) /\ OnList(<<f>> \o s, g)
         /\ s # <<>> => \A g \in Files : OnList(s, g) => OnList(Tail(s), g) \/ g = Head(s)
<1>1. /\ Len(s) \in Nat
      /\ Len(Append(s, f)) = Len(s) + 1
      /\ \A i \in 1..Len(s) : Append(s, f)[i] = s[i]
      /\ Append(s, f)[Len(s) + 1] = f
  OBVIOUS
<1>2. /\ Len(<<f>> \o s) = Len(s) + 1
      /\ (<<f>> \o s)[1] = f
      /\ \A i \in 1..Len(s) : (<<f>> \o s)[i + 1] = s[i]
  OBVIOUS
<1>3. OnList(Append(s, f), f) /\ \A g \in Files : OnList(s, g) => OnList(Append(s, f), g)
  BY <1>1 DEF OnList
<1>4. OnList(<<f>> \o s, f) /\ \A g \in Files : OnList(s, g) => OnList(<<f>> \o s, g)
  <2>1. 1 \in 1..Len(s) + 1 /\ \A i \in 1..Len(s) : i + 1 \in 1..Len(s) + 1
    BY <1>1
  <2> QED BY <1>2, <2>1 DEF OnList
<1>5. s # <<>> => \A g \in Files : OnList(s, g) => OnList(Tail(s), g) \/ g = Head(s)
  <2> SUFFICES ASSUME s # <<>>, NEW g \in Files, NEW i \in 1..Len(s), s[i] = g
               PROVE  OnList(Tail(s), g) \/ g = Head(s)
    BY DEF OnList
  <2>1. /\ Len(Tail(s)) = Len(s) - 1 /\ Head(s) = s[1]
        /\ \A j \in 1..Len(s) - 1 : Tail(s)[j] = s[j + 1]
    OBVIOUS
  <2>2. CASE i > 1
    <3>1. i - 1 \in 1..Len(s) - 1 /\ i - 1 + 1 = i
      BY <1>1, <2>2
    <3>2. i - 1 \in 1..Len(Tail(s)) /\ Tail(s)[i - 1] = g
      BY <2>1, <3>1
    <3> QED BY <3>2 DEF OnList
  <2>3. CASE i = 1
    BY <2>1, <2>3
  <2> QED BY <2>2, <2>3
<1> QED BY <1>3, <1>4, <1>5

\* The task of f is the one its worker's loop awaits.
Attended(f) == wpc[owner[f]] = "busy" /\ cur[owner[f]] = f

Placed(f) == OnList(queue, f) \/ (\E w \in Workers : Carries(w, f)) \/ pc[f] # "none"

Lossy == {"redis_pop", "kill_holding_queued", "redis_holding_queued"}

\* A task that has marked its job running is not at a queued one, and only an
\* attended task can be at a queued one, so that the loop ends or requeues it.
QInv ==
    /\ "heartbeat" \notin seen => \A f \in Files : pc[f] # "none" => Attended(f)
    /\ \A f \in Files : pc[f] \notin {"none", "start", "jobfail"} => meta[f] # "queued"
    /\ \A f \in Files : pc[f] # "none" /\ meta[f] = "queued" => Attended(f)
    /\ seen \cap Lossy = {} => \A f \in Files : meta[f] = "queued" => Placed(f)

\* Steps that neither move a job nor call one queued.
QFrame ==
    /\ queue' = queue /\ owner' = owner
    /\ \A f \in Files :
          /\ meta'[f] = "queued" => meta[f] = "queued"
          /\ pc'[f] = "none" <=> pc[f] = "none"
          /\ pc'[f] \notin {"none", "start", "jobfail"} /\ pc[f] \in {"start", "jobfail"} =>
                meta'[f] # "queued"
    /\ \A w \in Workers :
          /\ wpc[w] = "busy" => wpc'[w] = "busy" /\ cur'[w] = cur[w]
          /\ wpc[w] \in Carrying => wpc'[w] \in Carrying /\ cur'[w] = cur[w]

LEMMA QFrameKeeps ==
  ASSUME TInv, QInv, QFrame, seen \subseteq seen' PROVE QInv'
<1>1. \A f \in Files : owner[f] \in Workers
  BY DEF TInv, TypeOK
<1>2. \A f \in Files : Attended(f) => Attended(f)'
  BY <1>1 DEF Attended, QFrame
<1>3. \A f \in Files : Placed(f) => Placed(f)'
  BY DEF Placed, Carries, QFrame
<1> QED BY <1>2, <1>3 DEF QInv, QFrame

LEMMA QueuedStep == TInv /\ HInv /\ QInv /\ [Next]_vars => QInv'
<1> SUFFICES ASSUME TInv, HInv, QInv, [Next]_vars PROVE QInv'
  OBVIOUS
<1>0. \A w \in Workers : wpc[w] \in InHand => cur[w] \in Files
  BY DEF TInv, TypeOK, Holding
<1>s. seen \subseteq seen'
  BY SeenGrows
<1>f. QFrame => QInv'
  BY <1>s, QFrameKeeps
<1> USE <1>0, IndexingAssumption
    DEF TInv, TypeOK, InHand, Carrying, db, redis, appVars, loopVars, taskVars
<1>1. ASSUME NEW f \in Files,
             UploadEnqueue(f) \/ (UploadEnqueueFails(f) /\ Enqueue(f))
      PROVE  QInv'
  <2>1. Enqueue(f) /\ pc[f] = "none" /\ UNCHANGED <<pc, owner, wpc, cur>>
    BY <1>1 DEF UploadEnqueue, UploadEnqueueFails, HInv
  <2>2. OnList(queue', f) /\ \A g \in Files : OnList(queue, g) => OnList(queue', g)
    BY <2>1, ListKeeps DEF Enqueue
  <2>3. \A g \in Files : g # f => meta'[g] = meta[g]
    BY <2>1 DEF Enqueue
  <2> QED BY <1>s, <2>1, <2>2, <2>3 DEF QInv, Attended, Placed, Carries
<1>2. ASSUME NEW f \in Files,
             \/ UserStep(f) \/ UploadMarkFailed(f) \/ UploadMarkFails(f) \/ DeleteVectors(f) \/ Unlink(f) \/ DeleteRow(f)
             \/ DeleteVectorsFails(f) \/ DeleteRowFails(f)
             \/ UploadEnqueueFails(f) /\ UNCHANGED redis
      PROVE  QInv'
  <2>1. QFrame
    BY <1>2 DEF UserStep, UploadCommit, UploadReplyLost, DeleteStart, UploadMarkFailed,
        UploadMarkFails, DeleteVectors,
                Unlink, DeleteRow, DeleteVectorsFails, DeleteRowFails, UploadEnqueueFails, QFrame
  <2> QED BY <2>1, <1>f
<1>3. ASSUME NEW f \in Files, TaskStep(f) \/ Timeout(f) PROVE QInv'
  <2> USE DEF Goto, TaskOnly, Raise
  <2>1. CASE JobReturns(f) \/ JobFails(f)
    <3>1. /\ EndTask(f, Awaited(f)) /\ pc[f] # "none"
          /\ \A g \in Files : meta'[g] = "queued" => meta[g] = "queued"
      BY <2>1 DEF JobReturns, JobFails
    <3>2. pc' = [pc EXCEPT ![f] = "none"] /\ UNCHANGED <<queue, owner>>
      BY <3>1 DEF EndTask
    <3>3. meta'[f] # "queued"
      BY <2>1, <3>1 DEF JobReturns, JobFails, QInv, Attended, Awaited
    <3>4. \A w \in Workers : \/ wpc'[w] = wpc[w] /\ cur'[w] = cur[w]
                             \/ w = owner[f] /\ cur[w] = f /\ wpc[w] = "busy"
      <4>1. CASE Awaited(f)
        <5>1. wpc[owner[f]] = "busy"
          BY <3>1, <4>1 DEF Awaited, HInv, Holding
        <5> QED BY <3>1, <4>1, <5>1 DEF EndTask, SetLoop, Awaited
      <4>2. CASE ~Awaited(f)
        BY <3>1, <4>2 DEF EndTask
      <4> QED BY <4>1, <4>2
    <3>5. \A g \in Files : g # f /\ Attended(g) => Attended(g)'
      BY <3>2, <3>4 DEF Attended
    <3>6. \A g \in Files : g # f /\ Placed(g) => Placed(g)'
      BY <3>2, <3>4 DEF Placed, Carries
    <3>7. pc'[f] = "none" /\ \A g \in Files : g # f => pc'[g] = pc[g]
      BY <3>2
    <3> QED BY <1>s, <3>1, <3>3, <3>5, <3>6, <3>7 DEF QInv
  <2>2. CASE \/ JobStart(f) \/ Lookup(f) \/ Mark(f) \/ Prep(f) \/ PrepRaises(f) \/ EarlyDbRaises(f)
             \/ Persist(f) \/ Upsert(f) \/ UpsertRaises(f) \/ Commit(f)
    <3>1. QFrame
      BY <2>2 DEF JobStart, Lookup, Mark, Prep, PrepRaises, EarlyDbRaises, Persist, Upsert,
                  UpsertRaises, Commit, QFrame
    <3> QED BY <3>1, <1>f
  <2>3. CASE \/ CommitRaises(f) \/ CommitReplyLost(f) \/ Cleanup(f) \/ Reset(f) \/ ResetRaises(f)
             \/ Return(f) \/ FailFile(f) \/ FailFileClean(f) \/ JobSucceeds(f)
             \/ JobStatusRaises(f)
    <3>1. QFrame
      BY <2>3 DEF CommitRaises, CommitReplyLost, Cleanup, Reset, ResetRaises, Return, FailFile,
                  FailFileClean, JobSucceeds, JobStatusRaises, QFrame
    <3> QED BY <3>1, <1>f
  <2>4. CASE Timeout(f)
    <3>1. QFrame
      BY <2>4 DEF Timeout, Attempt, QFrame
    <3> QED BY <3>1, <1>f
  <2> QED BY <1>3, <2>1, <2>2, <2>3, <2>4 DEF TaskStep
<1>4. ASSUME NEW w \in Workers, LoopStep(w) PROVE QInv'
  <2> USE DEF SetLoop
  <2>1. CASE Pop(w)
    <3>1. PICK h \in Files : h = Head(queue)
      BY <2>1, ListPop DEF Pop, HInv
    <3>2. /\ wpc[w] = "idle" /\ wpc' = [wpc EXCEPT ![w] = "popped"]
          /\ cur' = [cur EXCEPT ![w] = h] /\ UNCHANGED <<meta, pc, owner>>
      BY <2>1, <3>1 DEF Pop
    <3>3. \A g \in Files : OnList(queue, g) => OnList(queue', g) \/ g = h
      BY <2>1, <3>1, ListKeeps DEF Pop
    <3>4. \A g \in Files : Attended(g) => Attended(g)'
      BY <3>2 DEF Attended
    <3>5. Carries(w, h)' /\ \A v \in Workers, g \in Files : Carries(v, g) => Carries(v, g)'
      BY <3>2 DEF Carries
    <3>6. \A g \in Files : Placed(g) => Placed(g)'
      BY <3>2, <3>3, <3>5 DEF Placed
    <3> QED BY <1>s, <3>2, <3>4, <3>6 DEF QInv
  <2>2. CASE Dispatch(w)
    <3>1. PICK f \in Files : f = cur[w]
      BY <2>2 DEF Dispatch
    <3>2. /\ wpc[w] = "popped" /\ pc[f] = "none"
          /\ wpc' = [wpc EXCEPT ![w] = "busy"] /\ cur' = [cur EXCEPT ![w] = f]
          /\ pc' = [pc EXCEPT ![f] = "start"] /\ owner' = [owner EXCEPT ![f] = w]
          /\ UNCHANGED <<queue, meta>>
      BY <2>2, <3>1 DEF Dispatch, HInv
    <3>3. Attended(f)' /\ pc'[f] = "start"
      BY <3>2 DEF Attended
    <3>4. \A g \in Files : g # f => pc'[g] = pc[g] /\ (Attended(g) => Attended(g)')
      BY <3>2 DEF Attended
    <3>5. \A g \in Files : g # f /\ Placed(g) => Placed(g)'
      BY <3>1, <3>2 DEF Placed, Carries
    <3>6. Placed(f)'
      BY <3>3 DEF Placed
    <3> QED BY <1>s, <3>2, <3>3, <3>4, <3>5, <3>6 DEF QInv
  <2>3. CASE RequeueStatus(w)
    <3>1. PICK f \in Files : f = cur[w]
      BY <2>3 DEF RequeueStatus
    <3>2. /\ wpc[w] = "requeue" /\ pc[f] = "none"
          /\ wpc' = [wpc EXCEPT ![w] = "lpush"] /\ meta' = [meta EXCEPT ![f] = "queued"]
          /\ UNCHANGED <<queue, pc, owner, cur>>
      BY <2>3, <3>1 DEF RequeueStatus, HInv
    <3>3. \A g \in Files : Attended(g) => Attended(g)'
      BY <3>2 DEF Attended
    <3>4. \A g \in Files : Placed(g) => Placed(g)'
      BY <3>2 DEF Placed, Carries
    <3>5. Placed(f)'
      BY <3>1, <3>2 DEF Placed, Carries
    <3>6. \A g \in Files : g # f => meta'[g] = meta[g]
      BY <3>2
    <3> QED BY <1>s, <3>2, <3>3, <3>4, <3>5, <3>6 DEF QInv
  <2>4. CASE RequeuePush(w) \/ LoopEnds(w)
    <3>1. /\ LeaveLoop(w) /\ wpc[w] \in {"lpush", "idle"} /\ UNCHANGED <<meta, owner>>
          /\ wpc' = [wpc EXCEPT ![w] = "exit"]
          /\ pc' = [f \in Files |-> IF f \in OwnTasks(w) THEN "none" ELSE pc[f]]
      BY <2>4 DEF RequeuePush, LoopEnds, LeaveLoop
    <3>a. \/ UNCHANGED queue /\ wpc[w] = "idle"
          \/ \E f \in Files : f = cur[w] /\ queue' = <<f>> \o queue
      BY <2>4 DEF RequeuePush, LoopEnds
    <3>2. \A g \in Files : OnList(queue, g) => OnList(queue', g)
      <4>1. CASE UNCHANGED queue
        BY <4>1
      <4>2. ASSUME NEW f \in Files, queue' = <<f>> \o queue
            PROVE  \A g \in Files : OnList(queue, g) => OnList(queue', g)
        BY <4>2, ListKeeps
      <4> QED BY <3>a, <4>1, <4>2
    <3>3. wpc[w] = "lpush" => OnList(queue', cur[w])
      <4>1. ASSUME NEW f \in Files, f = cur[w], queue' = <<f>> \o queue
            PROVE  OnList(queue', cur[w])
        BY <4>1, ListKeeps
      <4> QED BY <3>a, <4>1
    <3>4. \A v \in Workers : v # w => wpc'[v] = wpc[v] /\ cur'[v] = cur[v]
      BY <3>1 DEF LeaveLoop
    <3>5. \A g \in Files : Attended(g) => owner[g] # w /\ Attended(g)'
      BY <3>1, <3>4 DEF Attended
    <3>6. \A g \in Files : pc'[g] = pc[g] \/ (pc'[g] = "none" /\ g \in OwnTasks(w))
      BY <3>1
    <3>7. \A g \in Files : g \in OwnTasks(w) => meta[g] # "queued"
      BY <3>5 DEF OwnTasks, QInv
    <3>8. \A g \in Files : Placed(g) /\ meta[g] = "queued" => Placed(g)'
      BY <3>1, <3>2, <3>3, <3>4, <3>6, <3>7 DEF Placed, Carries
    <3> QED BY <1>s, <3>1, <3>5, <3>6, <3>8 DEF QInv
  <2>5. CASE WorkerStart(w) \/ WorkerExits(w)
    <3>1. QFrame
      BY <2>5 DEF WorkerStart, WorkerExits, QFrame
    <3> QED BY <3>1, <1>f
  <2> QED BY <1>4, <2>1, <2>2, <2>3, <2>4, <2>5 DEF LoopStep
<1>5. ASSUME NEW w \in Workers, DispatchFails(w) PROVE QInv'
  <2>1. /\ "redis_pop" \in seen' /\ wpc[w] = "popped"
        /\ UNCHANGED <<meta, pc, owner, queue>>
        /\ wpc' = [wpc EXCEPT ![w] = "idle"] /\ cur' = [cur EXCEPT ![w] = NoFile]
    BY <1>5 DEF DispatchFails, Event, SetLoop
  <2>2. \A g \in Files : Attended(g) => Attended(g)'
    BY <2>1 DEF Attended
  <2> QED BY <1>s, <2>1, <2>2 DEF QInv, Lossy
<1>6. ASSUME NEW w \in Workers, HeartbeatFails(w) PROVE QInv'
  <2>1. PICK f \in Files : f = cur[w]
    BY <1>6 DEF HeartbeatFails
  <2>2. /\ "heartbeat" \in seen' /\ wpc[w] = "busy"
        /\ UNCHANGED <<pc, owner, queue>> /\ meta' = [meta EXCEPT ![f] = "failed"]
        /\ wpc' = [wpc EXCEPT ![w] = "idle"] /\ cur' = [cur EXCEPT ![w] = NoFile]
    BY <1>6, <2>1 DEF HeartbeatFails, Event, SetLoop
  <2>3. \A g \in Files : g # f /\ Attended(g) => Attended(g)'
    BY <2>1, <2>2 DEF Attended
  <2>4. meta'[f] # "queued" /\ \A g \in Files : g # f => meta'[g] = meta[g]
    BY <2>2
  <2>5. \A g \in Files : Placed(g) => Placed(g)'
    BY <2>2 DEF Placed, Carries
  <2> QED BY <1>s, <2>2, <2>3, <2>4, <2>5 DEF QInv
<1>7. ASSUME NEW w \in Workers, Terminate(w) PROVE QInv'
  <2>1. CASE wpc[w] = "busy" /\ pc[cur[w]] # "jobfail"
    <3>1. PICK f \in Files : f = cur[w]
      BY <2>1
    <3>2. /\ wpc[w] = "busy" /\ owner[f] = w /\ pc[f] # "none"
          /\ wpc' = [wpc EXCEPT ![w] = "requeue"] /\ pc' = [pc EXCEPT ![f] = "none"]
          /\ UNCHANGED <<meta, cur, owner, queue>>
      BY <1>7, <2>1, <3>1 DEF Terminate, HInv
    <3>3. \A g \in Files : g # f => pc'[g] = pc[g] /\ (Attended(g) => Attended(g)')
      BY <3>1, <3>2 DEF Attended
    <3>4. Placed(f)' /\ \A g \in Files : g # f /\ Placed(g) => Placed(g)'
      BY <3>1, <3>2 DEF Placed, Carries
    <3>5. pc'[f] = "none"
      BY <3>2
    <3> QED BY <1>s, <3>2, <3>3, <3>4, <3>5 DEF QInv
  <2>2. CASE ~(wpc[w] = "busy" /\ pc[cur[w]] # "jobfail")
    <3>1. QFrame
      BY <1>7, <2>2 DEF Terminate, QFrame
    <3> QED BY <3>1, <1>f
  <2> QED BY <2>1, <2>2
<1>8. ASSUME NEW w \in Workers, WorkerCrash(w) PROVE QInv'
  <2>1. /\ UNCHANGED <<meta, owner, queue>>
        /\ wpc' = [wpc EXCEPT ![w] = "down"] /\ cur' = [cur EXCEPT ![w] = NoFile]
        /\ pc' = [f \in Files |-> IF f \in OwnTasks(w) THEN "none" ELSE pc[f]]
        /\ HoldsQueuedJob(w) => "kill_holding_queued" \in seen'
    BY <1>8 DEF WorkerCrash, SetLoop, Event
  <2>2. \A v \in Workers : v # w => wpc'[v] = wpc[v] /\ cur'[v] = cur[v]
    BY <2>1
  <2>3. \A g \in Files : owner[g] # w => pc'[g] = pc[g] /\ (Attended(g) => Attended(g)')
    BY <2>1, <2>2 DEF Attended, OwnTasks
  <2>4. \A g \in Files : owner[g] = w => pc'[g] = "none"
    BY <2>1 DEF OwnTasks
  <2>5. ASSUME ~HoldsQueuedJob(w), NEW g \in Files, meta[g] = "queued", Placed(g) PROVE Placed(g)'
    <3>1. cur[w] # g
      BY <2>5 DEF HoldsQueuedJob
    <3>2. CASE OnList(queue, g)
      BY <2>1, <3>2 DEF Placed
    <3>3. ASSUME NEW v \in Workers, Carries(v, g) PROVE Placed(g)'
      BY <2>2, <3>1, <3>3 DEF Placed, Carries
    <3>4. CASE pc[g] # "none"
      <4>1. owner[g] # w
        BY <2>5, <3>1, <3>4 DEF QInv, Attended
      <4> QED BY <2>3, <3>4, <4>1 DEF Placed
    <3> QED BY <2>5, <3>2, <3>3, <3>4 DEF Placed
  <2> QED BY <1>s, <2>1, <2>3, <2>4, <2>5 DEF QInv, Lossy
<1>9. ASSUME NEW p \in Sweepers, SweepStep(p) \/ SweepCommitFails(p) PROVE QInv'
  <2>1. QFrame
    BY <1>9 DEF SweepStep, SweepCheck, SweepReport, SweepCommit, SweepEnd,
                SweepCommitFails, SetSweepPhase, SweepPhase, Sweepers, QFrame
  <2> QED BY <2>1, <1>f
<1>10. CASE \/ AppStart \/ AppCrash \/ HeartbeatExpires
            \/ \E z \in zombies : ZombieEnds(z)
            \/ \E p \in Sweepers, f \in Files : SweepCheckFails(p, f)
            \/ UNCHANGED vars
  <2>1. QFrame
    BY <1>10 DEF AppStart, AppCrash, HeartbeatExpires, ZombieEnds, SweepCheckFails,
                 vars, QFrame
  <2> QED BY <2>1, <1>f
<1>11. ASSUME NEW f \in Files, RequestStep(f) \/ UploadEnqueueFails(f) PROVE QInv'
  BY <1>1, <1>2, <1>11 DEF RequestStep, UploadEnqueueFails
<1>12. ASSUME NEW w \in Workers, LoopRaises(w) PROVE QInv'
  <2>1. /\ wpc' = [wpc EXCEPT ![w] = "exit"] /\ cur' = [cur EXCEPT ![w] = NoFile]
        /\ pc' = [f \in Files |-> IF f \in OwnTasks(w) THEN "none" ELSE pc[f]]
        /\ UNCHANGED owner
        /\ \A f \in Files : f # cur[w] => meta'[f] = meta[f]
    BY <1>12, LoopRaisesFacts
  <2>2. /\ \A v \in Workers : v # w => wpc'[v] = wpc[v] /\ cur'[v] = cur[v]
        /\ \A g \in Files : owner[g] # w => pc'[g] = pc[g] /\ (Attended(g) => Attended(g)')
        /\ \A g \in Files : owner[g] = w => pc'[g] = "none"
    BY <2>1 DEF Attended, OwnTasks
  <2>3. \A g \in Files : pc'[g] # "none" => g # cur[w] /\ owner[g] # w
    BY <2>1, <2>2 DEF HInv, Holding, OwnTasks
  <2>4. \A g \in Files : OnList(queue, g) => OnList(queue', g)
    <3>1. CASE queue' = queue
      BY <3>1
    <3>2. ASSUME NEW h \in Files, queue' = <<h>> \o queue
          PROVE  \A g \in Files : OnList(queue, g) => OnList(queue', g)
      BY <3>2, ListKeeps
    <3> QED BY <1>12, <3>1, <3>2, LoopRaisesFacts
  <2>5. ASSUME NEW g \in Files, g # cur[w], meta[g] = "queued", Placed(g) PROVE Placed(g)'
    <3>1. CASE OnList(queue, g)
      BY <2>4, <3>1 DEF Placed
    <3>2. ASSUME NEW v \in Workers, Carries(v, g) PROVE Placed(g)'
      BY <2>2, <2>5, <3>2 DEF Placed, Carries
    <3>3. CASE pc[g] # "none"
      <4>1. owner[g] # w
        BY <2>5, <3>3 DEF QInv, Attended
      <4> QED BY <2>2, <3>3, <4>1 DEF Placed
    <3> QED BY <2>5, <3>1, <3>2, <3>3 DEF Placed
  <2>6. ASSUME "redis_holding_queued" \notin seen', NEW g \in Files, g = cur[w], meta'[g] = "queued"
        PROVE  Placed(g)'
    <3>1. queue' # queue
      BY <1>12, <2>6, LoopRaisesFacts DEF LeavesQueued
    <3>2. queue' = <<g>> \o queue
      BY <1>12, <2>6, <3>1, LoopRaisesFacts
    <3>3. OnList(queue', g)
      BY <3>2, ListKeeps
    <3> QED BY <3>3 DEF Placed
  <2>7. "heartbeat" \notin seen' => \A g \in Files : pc'[g] # "none" => Attended(g)'
    BY <1>s, <2>2, <2>3 DEF QInv
  <2>8. \A g \in Files : pc'[g] \notin {"none", "start", "jobfail"} => meta'[g] # "queued"
    BY <2>1, <2>2, <2>3 DEF QInv
  <2>9. \A g \in Files : pc'[g] # "none" /\ meta'[g] = "queued" => Attended(g)'
    BY <2>1, <2>2, <2>3 DEF QInv
  <2>10. seen' \cap Lossy = {} => \A g \in Files : meta'[g] = "queued" => Placed(g)'
    <3> SUFFICES ASSUME seen' \cap Lossy = {}, NEW g \in Files, meta'[g] = "queued"
                 PROVE  Placed(g)'
      OBVIOUS
    <3>1. "redis_holding_queued" \notin seen' /\ seen \cap Lossy = {}
      BY <1>s DEF Lossy
    <3>2. CASE g = cur[w]
      BY <2>6, <3>1, <3>2
    <3>3. CASE g # cur[w]
      <4>1. meta[g] = "queued" /\ Placed(g)
        BY <2>1, <3>1, <3>3 DEF QInv
      <4> QED BY <2>5, <3>3, <4>1
    <3> QED BY <3>2, <3>3
  <2> QED BY <2>7, <2>8, <2>9, <2>10 DEF QInv
<1>13. CASE Disturbance
  BY <1>2, <1>3, <1>5, <1>6, <1>7, <1>8, <1>9, <1>10, <1>11, <1>12, <1>13 DEF Disturbance
<1> QED BY <1>2, <1>3, <1>4, <1>9, <1>10, <1>11, <1>13 DEF Next

LEMMA QueuedInvariance == Spec => [](TInv /\ HInv /\ QInv)
<1>1. Init => HInv
  BY DEF Init, HInv, OnList, Distinct, Carries, Carrying
<1>2. Init => QInv
  BY DEF Init, QInv
<1> QED BY <1>1, <1>2, HeldStep, QueuedStep, TypeInvariance, PTL DEF Spec

\* A job that Redis calls queued is on the list, in a worker's hands or at a task,
\* unless a worker was killed or lost Redis while it held the job, with the record at
\* queued: between the BLPOP and the running mark, or between the halves of requeue.
\* So a sweep that spares a queued job does not strand the file.
THEOREM QueuedJobsExist == Spec => []QueuedJobExists
<1>1. TInv /\ QInv => QueuedJobExists
  <2> SUFFICES ASSUME TInv, QInv, seen \cap Lossy = {},
                      NEW f \in Files, meta[f] = "queued"
               PROVE  Places(f) # {}
    BY DEF QueuedJobExists, Lossy
  <2>1. Placed(f)
    BY DEF QInv
  <2>2. CASE OnList(queue, f)
    <3>1. PICK i \in DOMAIN queue : queue[i] = f
      BY <2>2 DEF OnList, TInv, TypeOK
    <3>2. <<"list", i>> \in Places(f)
      BY <3>1 DEF Places
    <3> QED BY <3>2
  <2>3. ASSUME NEW w \in Workers, Carries(w, f) PROVE Places(f) # {}
    <3>1. <<"worker", w>> \in Places(f)
      BY <2>3 DEF Places, Carries, Carrying
    <3> QED BY <3>1
  <2>4. CASE pc[f] # "none"
    <3>1. <<"task", f>> \in Places(f)
      BY <2>4 DEF Places
    <3> QED BY <3>1
  <2> QED BY <2>1, <2>2, <2>3, <2>4 DEF Placed
<1> QED BY <1>1, QueuedInvariance, PTL

\* A worker runs one index task at a time, however many files are queued and
\* however often it is stopped, until a heartbeat fails under a running task.
THEOREM WorkersRunOne == Spec => []OneTaskPerWorker
<1>1. QInv => OneTaskPerWorker
  BY DEF QInv, Attended, OneTaskPerWorker
<1> QED BY <1>1, QueuedInvariance, PTL

-----------------------------------------------------------------------------
(* Requests, sweeps and loops.                                              *)

\* The loop positions in which the worker's event loop runs and its heartbeat
\* is kept.
Looping == {"idle", "popped", "busy", "requeue", "lpush"}

\* A request or a locking attempt is about a row that exists; a task runs in a
\* live worker; a sweep has nothing to judge before it starts nor anything to
\* report after it ends.
SweepInv(p) ==
    /\ SweepPhase(p) # "sweeping" => todo[p] = {}
    /\ SweepPhase(p) \notin {"sweeping", "reporting"} => dead[p] = {}
    /\ \A f \in todo[p] \cup dead[p] : status[f] # "absent"

BInv ==
    /\ \A f \in Files :
          /\ pc[f] \in {"upsert", "commit"} => status[f] \in Row
          /\ del[f] # "none" => status[f] \in Row
          /\ pc[f] # "none" => wpc[owner[f]] \in Looping
          /\ upl[f] = "markfailed" => "redis" \in seen \/ "redis_reply_lost" \in seen
          /\ upl[f] # "none" => status[f] # "absent" /\ app = "up"
    /\ \A w \in Workers : wpc[w] \in Looping => alive
    /\ \A p \in Sweepers : SweepInv(p)

\* A step that leaves the sweeps, the loops and the requests where they are.
BFrame ==
    /\ UNCHANGED <<app, wpc, owner, alive, todo, dead>>
    /\ \A f \in Files :
          /\ pc'[f] # "none" => pc[f] # "none"
          /\ pc'[f] \in {"upsert", "commit"} =>
                status'[f] \in Row \/ (pc[f] \in {"upsert", "commit"} /\ status'[f] = status[f])
          /\ del'[f] # "none" =>
                status'[f] \in Row \/ (del[f] # "none" /\ status'[f] = status[f])
          /\ upl'[f] # "none" => upl'[f] = upl[f]
          /\ status'[f] = "absent" => status[f] = "absent"

LEMMA SweepKeeps ==
  ASSUME TypeOK, NEW p \in Sweepers, SweepInv(p),
         \A f \in Files : status'[f] = "absent" => status[f] = "absent",
         todo'[p] \cup dead'[p] \subseteq todo[p] \cup dead[p],
         SweepPhase(p)' # "sweeping" => todo'[p] = {},
         SweepPhase(p)' \notin {"sweeping", "reporting"} => dead'[p] = {}
  PROVE  SweepInv(p)'
<1>1. todo[p] \subseteq Files /\ dead[p] \subseteq Files
  BY DEF TypeOK
<1> QED BY <1>1 DEF SweepInv

LEMMA BFrameKeeps ==
  ASSUME TypeOK, BInv, BFrame, seen \subseteq seen' PROVE BInv'
<1>1. \A p \in Sweepers : SweepPhase(p)' = SweepPhase(p)
  BY DEF SweepPhase, BFrame
<1>2. \A p \in Sweepers : \A f \in todo[p] \cup dead[p] : f \in Files
  BY DEF TypeOK
<1>3. \A f \in Files : upl'[f] = "markfailed" => "redis" \in seen' \/ "redis_reply_lost" \in seen'
  BY DEF BInv, BFrame
<1>4. \A f \in Files :
          /\ pc'[f] \in {"upsert", "commit"} => status'[f] \in Row
          /\ del'[f] # "none" => status'[f] \in Row
          /\ pc'[f] # "none" => wpc'[owner'[f]] \in Looping
          /\ upl'[f] # "none" => status'[f] # "absent" /\ app' = "up"
  BY DEF BInv, BFrame
<1>5. \A w \in Workers : wpc'[w] \in Looping => alive'
  BY DEF BInv, BFrame
<1>6. \A p \in Sweepers : SweepInv(p)'
  BY <1>1, <1>2 DEF BInv, BFrame, SweepInv
<1> QED BY <1>3, <1>4, <1>5, <1>6 DEF BInv

LEMMA BaseStep == TInv /\ HInv /\ BInv /\ [Next]_vars => BInv'
<1> SUFFICES ASSUME TInv, HInv, BInv, [Next]_vars PROVE BInv'
  OBVIOUS
<1>0. \A w \in Workers : wpc[w] \in InHand => cur[w] \in Files
  BY DEF TInv, TypeOK, Holding
<1>s. seen \subseteq seen'
  BY SeenGrows
<1>f. BFrame => BInv'
  BY <1>s, BFrameKeeps DEF TInv
<1> USE <1>0, IndexingAssumption
    DEF TInv, TypeOK, InHand, Looping, Carrying, db, redis, appVars, loopVars, taskVars, sweepVars,
        Row, Transient
<1>1. ASSUME NEW f \in Files, UserStep(f) \/ RequestStep(f) PROVE BInv'
  <2>1. CASE UploadCommit(f)
    BY <2>1, <1>s DEF UploadCommit, BInv, SweepInv, SweepPhase, HInv
  <2>5. CASE UploadReplyLost(f)
    BY <2>5, <1>s DEF UploadReplyLost, BInv, SweepInv, SweepPhase, HInv
  <2>2. CASE DeleteStart(f) \/ UploadEnqueue(f) \/ DeleteVectors(f) \/ Unlink(f)
    <3>1. BFrame
      BY <2>2 DEF DeleteStart, UploadEnqueue, Enqueue, DeleteVectors, Unlink, BFrame
    <3> QED BY <3>1, <1>f
  <2>3. CASE UploadMarkFailed(f) \/ UploadMarkFails(f)
    <3>1. BFrame
      BY <2>3 DEF UploadMarkFailed, UploadMarkFails, BFrame
    <3> QED BY <3>1, <1>f
  <2>4. CASE DeleteRow(f)
    <3>1. BFrame
      BY <2>4 DEF DeleteRow, BFrame, RowLocked
    <3> QED BY <3>1, <1>f
  <2> QED BY <1>1, <2>1, <2>2, <2>3, <2>4, <2>5 DEF UserStep, RequestStep
<1>2. ASSUME NEW f \in Files, TaskStep(f) \/ Timeout(f) PROVE BInv'
  <2> USE DEF Goto, TaskOnly, Raise
  <2>1. CASE JobReturns(f) \/ JobFails(f)
    <3>1. EndTask(f, Awaited(f)) /\ pc[f] # "none"
      BY <2>1 DEF JobReturns, JobFails
    <3>2. /\ pc' = [pc EXCEPT ![f] = "none"] /\ UNCHANGED <<status, app, upl, del, alive, owner, todo, dead>>
      BY <3>1 DEF EndTask
    <3>3. \A w \in Workers : \/ wpc'[w] = wpc[w]
                             \/ wpc'[w] = "idle" /\ wpc[w] \in Looping
      BY <3>1 DEF EndTask, SetLoop, BInv
    <3>4. \A p \in Sweepers : \/ SweepPhase(p)' = SweepPhase(p)
                              \/ SweepPhase(p) \in Looping /\ SweepPhase(p)' \in Looping
      BY <3>2, <3>3 DEF SweepPhase, Sweepers
    <3>5. \A p \in Sweepers : SweepInv(p)'
      BY <3>2, <3>4 DEF BInv, SweepInv
    <3> QED BY <1>s, <3>2, <3>3, <3>5 DEF BInv
  <2>2. CASE \/ JobStart(f) \/ Lookup(f) \/ Mark(f) \/ Prep(f) \/ PrepRaises(f) \/ EarlyDbRaises(f)
             \/ Persist(f) \/ Upsert(f) \/ UpsertRaises(f)
    <3>1. BFrame
      BY <2>2 DEF JobStart, Lookup, Mark, Prep, PrepRaises, EarlyDbRaises, Persist, Upsert,
                  UpsertRaises, BFrame
    <3> QED BY <3>1, <1>f
  <2>3. CASE \/ Commit(f) \/ CommitRaises(f) \/ CommitReplyLost(f) \/ Cleanup(f) \/ Reset(f) \/ ResetRaises(f)
             \/ Return(f) \/ FailFile(f) \/ FailFileClean(f) \/ JobSucceeds(f)
             \/ JobStatusRaises(f) \/ Timeout(f)
    <3>1. BFrame
      BY <2>3 DEF Commit, CommitRaises, CommitReplyLost, Cleanup, Reset, ResetRaises, Return,
          FailFile,
                  FailFileClean, JobSucceeds, JobStatusRaises, Timeout, Attempt, BFrame
    <3> QED BY <3>1, <1>f
  <2> QED BY <1>2, <2>1, <2>2, <2>3 DEF TaskStep
<1>3. ASSUME NEW w \in Workers, UNCHANGED <<status, upl, del, app, todo, dead, alive>>,
             UNCHANGED owner \/ (wpc'[w] = "busy" /\ \A f \in Files : owner'[f] = owner[f] \/ owner'[f] = w),
             \/ wpc[w] \in Looping /\ wpc'[w] \in Looping \cup {"exit"}
             \/ wpc[w] = "reporting" /\ dead[w] = {} /\ wpc'[w] = "exit",
             \A v \in Workers : v # w => wpc'[v] = wpc[v],
             \A f \in Files : \/ pc'[f] = pc[f] 
                              \/ pc'[f] \in {"none", "start"},
             \A f \in Files : pc'[f] = "start" /\ pc[f] = "none" => owner'[f] = w /\ wpc'[w] = "busy",
             wpc'[w] = "exit" => \A f \in Files : pc'[f] # "none" => owner'[f] # w
      PROVE  BInv'
  <2>1. \A p \in Sweepers : \/ SweepPhase(p)' = SweepPhase(p)
                            \/ SweepPhase(p) \in Looping /\ SweepPhase(p)' \in Looping \cup {"exit"}
                            \/ SweepPhase(p) = "reporting" /\ dead[p] = {}
    BY <1>3 DEF SweepPhase, Sweepers
  <2>2. ASSUME NEW p \in Sweepers PROVE SweepInv(p)'
    <3>1. SweepInv(p)
      BY DEF BInv
    <3>2. CASE SweepPhase(p)' = SweepPhase(p)
      BY <1>3, <3>1, <3>2 DEF SweepInv
    <3>3. CASE SweepPhase(p) \in Looping
      <4>1. todo[p] = {} /\ dead[p] = {}
        BY <3>1, <3>3 DEF SweepInv
      <4> QED BY <1>3, <4>1 DEF SweepInv
    <3>4. CASE SweepPhase(p) = "reporting" /\ dead[p] = {}
      <4>1. todo[p] = {} /\ dead[p] = {}
        BY <3>1, <3>4 DEF SweepInv
      <4> QED BY <1>3, <4>1 DEF SweepInv
    <3> QED BY <2>1, <3>2, <3>3, <3>4
  <2>3. \A f \in Files :
          /\ pc'[f] \in {"upsert", "commit"} => status'[f] \in Row
          /\ del'[f] # "none" => status'[f] \in Row
          /\ upl'[f] # "none" => status'[f] # "absent" /\ app' = "up"
          /\ upl'[f] = "markfailed" => "redis" \in seen' \/ "redis_reply_lost" \in seen'
    BY <1>3, <1>s DEF BInv
  <2>4. \A f \in Files : pc'[f] # "none" => wpc'[owner'[f]] \in Looping
    BY <1>3 DEF BInv
  <2>5. \A v \in Workers : wpc'[v] \in Looping => alive'
    BY <1>3 DEF BInv
  <2> QED BY <2>2, <2>3, <2>4, <2>5 DEF BInv
<1>4. ASSUME NEW w \in Workers,
             \/ LoopStep(w) \/ DispatchFails(w) \/ Terminate(w) \/ HeartbeatFails(w)
             \/ LoopRaises(w)
      PROVE  BInv'
  <2> USE DEF SetLoop
  <2>1. CASE WorkerStart(w)
    <3>1. \A p \in Sweepers : p # w => SweepPhase(p)' = SweepPhase(p)
      BY <2>1 DEF WorkerStart, SweepPhase, Sweepers
    <3>2. SweepPhase(w) = "down" /\ SweepPhase(w)' = "sweeping"
      BY <2>1 DEF WorkerStart, SweepPhase
    <3> QED BY <2>1, <1>s, <3>1, <3>2 DEF WorkerStart, BInv, SweepInv, TransientFiles, Sweepers
  <2>2. CASE WorkerExits(w)
    <3>1. \A p \in Sweepers : \/ SweepPhase(p)' = SweepPhase(p)
                              \/ SweepPhase(p) = "exit" /\ SweepPhase(p)' = "down"
      BY <2>2 DEF WorkerExits, SweepPhase, Sweepers
    <3> QED BY <2>2, <1>s, <3>1 DEF WorkerExits, BInv, SweepInv
  <2>3. CASE Pop(w) \/ DispatchFails(w) \/ HeartbeatFails(w) \/ RequeueStatus(w)
    BY <2>3, <1>3 DEF Pop, DispatchFails, HeartbeatFails, RequeueStatus
  <2>4. CASE Dispatch(w)
    BY <2>4, <1>3 DEF Dispatch
  <2>5. CASE Terminate(w)
    BY <2>5, <1>3 DEF Terminate
  <2>6. CASE RequeuePush(w) \/ LoopEnds(w)
    <3>1. /\ wpc[w] \in Looping /\ wpc' = [wpc EXCEPT ![w] = "exit"]
          /\ UNCHANGED <<status, upl, del, app, todo, dead, alive, owner>>
          /\ pc' = [f \in Files |-> IF f \in OwnTasks(w) THEN "none" ELSE pc[f]]
      BY <2>6 DEF RequeuePush, LoopEnds, LeaveLoop
    <3>2. \A f \in Files : pc'[f] = pc[f] \/ pc'[f] = "none"
      BY <3>1
    <3>3. \A f \in Files : pc'[f] # "none" => owner'[f] # w
      BY <3>1 DEF OwnTasks
    <3> QED BY <3>1, <3>2, <3>3, <1>3
  <2>7. CASE LoopRaises(w)
    <3>1. /\ wpc[w] \in Looping \cup {"reporting"} /\ wpc' = [wpc EXCEPT ![w] = "exit"]
          /\ wpc[w] = "reporting" => dead[w] = {}
          /\ UNCHANGED <<status, upl, del, app, todo, dead, alive, owner>>
          /\ pc' = [f \in Files |-> IF f \in OwnTasks(w) THEN "none" ELSE pc[f]]
      BY <2>7, LoopRaisesFacts
    <3>2. \A f \in Files : pc'[f] = pc[f] \/ pc'[f] = "none"
      BY <3>1
    <3>3. \A f \in Files : pc'[f] # "none" => owner'[f] # w
      BY <3>1 DEF OwnTasks
    <3> QED BY <3>1, <3>2, <3>3, <1>3
  <2> QED BY <1>4, <2>1, <2>2, <2>3, <2>4, <2>5, <2>6, <2>7 DEF LoopStep
<1>5. ASSUME NEW w \in Workers, WorkerCrash(w) PROVE BInv'
  <2>1. \A p \in Sweepers : p # w => SweepPhase(p)' = SweepPhase(p)
    BY <1>5 DEF WorkerCrash, SetLoop, SweepPhase, Sweepers
  <2>2. SweepPhase(w)' = "down"
    BY <1>5 DEF WorkerCrash, SetLoop, SweepPhase
  <2>3. \A p \in Sweepers : SweepInv(p)'
    BY <1>5, <2>1, <2>2 DEF WorkerCrash, BInv, SweepInv, Sweepers
  <2>4. \A f \in Files : pc'[f] # "none" => wpc'[owner'[f]] \in Looping
    BY <1>5 DEF BInv, WorkerCrash, SetLoop, OwnTasks
  <2> QED BY <1>5, <1>s, <2>3, <2>4 DEF WorkerCrash, SetLoop, OwnTasks, BInv
<1>6. ASSUME NEW p \in Sweepers,
             SweepStep(p) \/ SweepCommitFails(p) \/ \E f \in Files : SweepCheckFails(p, f)
      PROVE  BInv'
  <2> USE DEF Sweepers
  <2>1. ASSUME NEW f \in Files, SweepCheck(p, f) \/ SweepCheckFails(p, f) PROVE BInv'
    <3>1. SweepPhase(p) = "sweeping" /\ UNCHANGED <<app, wpc>>
      BY <2>1 DEF SweepCheck, SweepCheckFails, BInv, SweepInv
    <3>2. \A q \in Sweepers : SweepPhase(q)' = SweepPhase(q)
      BY <3>1 DEF SweepPhase
    <3>3. \A q \in Sweepers : q # p => todo'[q] = todo[q] /\ dead'[q] = dead[q]
      BY <2>1 DEF SweepCheck, SweepCheckFails, SweepJudge
    <3>4. todo'[p] \cup dead'[p] \subseteq todo[p] \cup dead[p]
      BY <2>1 DEF SweepCheck, SweepCheckFails, SweepJudge
    <3>5. UNCHANGED <<status, upl, del, pc, owner, alive>>
      BY <2>1 DEF SweepCheck, SweepCheckFails
    <3>6. ASSUME NEW q \in Sweepers PROVE SweepInv(q)'
      <4>1. CASE q = p
        BY <3>1, <3>2, <3>4, <3>5, <4>1, SweepKeeps DEF BInv
      <4>2. CASE q # p
        BY <3>2, <3>3, <3>5, <4>2 DEF BInv, SweepInv
      <4> QED BY <4>1, <4>2
    <3> QED BY <1>s, <3>1, <3>5, <3>6 DEF BInv
  <2>2. ASSUME NEW f \in Files, SweepReport(p, f) PROVE BInv'
    <3>1. SweepPhase(p) = "reporting" /\ UNCHANGED <<app, wpc, status, upl, del, pc, owner, alive, todo>>
      BY <2>2 DEF SweepReport
    <3>2. \A q \in Sweepers : SweepPhase(q)' = SweepPhase(q)
      BY <3>1 DEF SweepPhase
    <3>3. \A q \in Sweepers : dead'[q] \subseteq dead[q]
      BY <2>2 DEF SweepReport
    <3>4. \A q \in Sweepers : SweepInv(q)'
      BY <3>1, <3>2, <3>3 DEF BInv, SweepInv
    <3> QED BY <1>s, <3>1, <3>4 DEF BInv
  <2>3. CASE SweepCommit(p) \/ SweepCommitFails(p)
    <3>1. /\ SweepPhase(p) = "sweeping" /\ SetSweepPhase(p, "reporting") /\ todo[p] = {}
          /\ UNCHANGED <<upl, del, pc, owner, alive, todo>>
      BY <2>3 DEF SweepCommit, SweepCommitFails
    <3>2. /\ SweepPhase(p)' = "reporting"
          /\ \A q \in Sweepers : q # p => SweepPhase(q)' = SweepPhase(q)
          /\ \A w \in Workers : wpc[w] = wpc'[w] \/ (wpc[w] = "sweeping" /\ wpc'[w] = "reporting")
          /\ app' = app \/ (app = "sweeping" /\ app' = "reporting")
      BY <3>1 DEF SetSweepPhase, SweepPhase
    <3>3. \A q \in Sweepers : dead'[q] \subseteq dead[q]
      BY <2>3 DEF SweepCommit, SweepCommitFails
    <3>4. \A f \in Files : status'[f] = status[f] \/ (status[f] \in Row /\ status'[f] = "failed")
      BY <2>3 DEF SweepCommit, SweepCommitFails
    <3>5. ASSUME NEW q \in Sweepers PROVE SweepInv(q)'
      <4>1. SweepInv(q) /\ todo'[q] = todo[q] /\ dead'[q] \subseteq dead[q]
        BY <3>1, <3>3 DEF BInv
      <4>2. CASE q = p
        BY <3>1, <3>2, <3>4, <4>1, <4>2, SweepKeeps
      <4>3. CASE q # p
        <5>1. SweepPhase(q)' = SweepPhase(q)
          BY <3>2, <4>3
        <5>2. /\ SweepPhase(q)' # "sweeping" => todo'[q] = {}
              /\ SweepPhase(q)' \notin {"sweeping", "reporting"} => dead'[q] = {}
          BY <4>1, <5>1 DEF SweepInv
        <5>3. \A f \in Files : status'[f] = "absent" => status[f] = "absent"
          BY <3>4
        <5> QED BY <4>1, <5>2, <5>3, SweepKeeps
      <4> QED BY <4>2, <4>3
    <3>6. \A f \in Files :
            /\ pc'[f] \in {"upsert", "commit"} => status'[f] \in Row
            /\ del'[f] # "none" => status'[f] \in Row
            /\ pc'[f] # "none" => wpc'[owner'[f]] \in Looping
            /\ upl'[f] # "none" => status'[f] # "absent" /\ app' = "up"
      BY <3>1, <3>2, <3>4 DEF BInv
    <3> QED BY <1>s, <3>1, <3>2, <3>5, <3>6 DEF BInv
  <2>4. CASE SweepEnd(p)
    <3>1. /\ SweepPhase(p) = "reporting" /\ dead[p] = {}
          /\ UNCHANGED <<status, upl, del, pc, owner, todo, dead>>
      BY <2>4 DEF SweepEnd
    <3>2. /\ SweepPhase(p)' \in {"up", "idle"}
          /\ \A q \in Sweepers : q # p => SweepPhase(q)' = SweepPhase(q)
          /\ \A w \in Workers : wpc[w] = wpc'[w] \/ (wpc[w] = "reporting" /\ wpc'[w] = "idle" /\ alive')
          /\ app' = app \/ (app = "reporting" /\ app' = "up")
          /\ alive => alive'
      BY <2>4 DEF SweepEnd, SetSweepPhase, SweepPhase
    <3>3. ASSUME NEW q \in Sweepers PROVE SweepInv(q)'
      <4>1. CASE q = p
        BY <3>1, <3>2, <4>1 DEF BInv, SweepInv
      <4>2. CASE q # p
        BY <3>1, <3>2, <4>2 DEF BInv, SweepInv
      <4> QED BY <4>1, <4>2
    <3> QED BY <1>s, <3>1, <3>2, <3>3 DEF BInv
  <2> QED BY <1>6, <2>1, <2>2, <2>3, <2>4 DEF SweepStep
<1>7. CASE AppStart \/ AppCrash
  <2>1. \A p \in Sweepers : p # App => SweepPhase(p)' = SweepPhase(p)
    BY <1>7 DEF AppStart, AppCrash, SweepPhase
  <2>2. CASE AppStart
    <3>1. SweepPhase(App) = "down" /\ SweepPhase(App)' = "sweeping" /\ app = "down"
      BY <2>2 DEF AppStart, SweepPhase
    <3> QED BY <2>2, <1>s, <2>1, <3>1 DEF AppStart, BInv, SweepInv, TransientFiles, Sweepers
  <2>3. CASE AppCrash
    <3>1. SweepPhase(App)' = "down"
      BY <2>3 DEF AppCrash, SweepPhase
    <3> QED BY <2>3, <1>s, <2>1, <3>1 DEF AppCrash, BInv, SweepInv, Sweepers
  <2> QED BY <1>7, <2>2, <2>3
<1>8. ASSUME NEW f \in Files,
             DeleteVectorsFails(f) \/ DeleteRowFails(f) \/ UploadEnqueueFails(f)
      PROVE  BInv'
  <2>1. CASE DeleteVectorsFails(f) \/ DeleteRowFails(f)
    <3>1. BFrame
      BY <2>1 DEF DeleteVectorsFails, DeleteRowFails, BFrame
    <3> QED BY <3>1, <1>f
  <2>2. CASE UploadEnqueueFails(f)
    <3>1. UNCHANGED <<status, app, del, wpc, pc, owner, alive, todo, dead>>
      BY <2>2 DEF UploadEnqueueFails, Enqueue
    <3>2. \A p \in Sweepers : SweepPhase(p)' = SweepPhase(p)
      BY <3>1 DEF SweepPhase
    <3>3. /\ upl[f] = "enqueue" /\ upl' = [upl EXCEPT ![f] = "markfailed"]
          /\ "redis" \in seen' \/ "redis_reply_lost" \in seen'
      BY <2>2 DEF UploadEnqueueFails, Event
    <3> QED BY <1>s, <3>1, <3>2, <3>3 DEF BInv, SweepInv
  <2> QED BY <1>8, <2>1, <2>2
<1>9. ASSUME NEW z \in zombies, ZombieEnds(z) PROVE BInv'
  <2>1. BFrame
    BY <1>9 DEF ZombieEnds, BFrame
  <2> QED BY <2>1, <1>f
<1>10. CASE HeartbeatExpires
  <2>1. \A p \in Sweepers : SweepPhase(p)' = SweepPhase(p)
    BY <1>10 DEF HeartbeatExpires, SweepPhase
  <2>2. UNCHANGED <<status, app, upl, del, wpc, pc, owner, todo, dead, seen>>
    BY <1>10 DEF HeartbeatExpires, NoEvent
  <2>3. \A w \in Workers : wpc[w] \notin Looping
    BY <1>10 DEF HeartbeatExpires, Looping
  <2>4. \A p \in Sweepers : SweepInv(p)'
    BY <2>1, <2>2 DEF BInv, SweepInv
  <2> QED BY <2>2, <2>3, <2>4 DEF BInv
<1>11. CASE UNCHANGED vars
  <2>1. BFrame
    BY <1>11 DEF vars, BFrame
  <2> QED BY <2>1, <1>f
<1>12. CASE Disturbance
  BY <1>2, <1>4, <1>5, <1>6, <1>7, <1>8, <1>10, <1>12 DEF Disturbance
<1> QED BY <1>1, <1>2, <1>4, <1>6, <1>7, <1>9, <1>11, <1>12 DEF Next

\* A delete request exists only once somebody has asked for one.
Deleting == \A f \in Files : del[f] # "none" => "delete" \in seen

LEMMA DeletingStep == TypeOK /\ Deleting /\ [Next]_vars => Deleting'
<1> SUFFICES ASSUME TypeOK, Deleting, [Next]_vars PROVE Deleting'
  OBVIOUS
<1>s. seen \subseteq seen'
  BY SeenGrows
<1> USE <1>s DEF TypeOK, Deleting, appVars
<1>1. CASE UNCHANGED del
  BY <1>1
<1>2. ASSUME NEW f \in Files, UserStep(f) \/ RequestStep(f) PROVE Deleting'
  <2>1. CASE DeleteStart(f)
    BY <2>1 DEF DeleteStart, Event
  <2>2. CASE DeleteVectors(f) \/ Unlink(f) \/ DeleteRow(f)
    BY <2>2 DEF DeleteVectors, Unlink, DeleteRow
  <2> QED BY <1>1, <1>2, <2>1, <2>2
      DEF UserStep, UploadCommit, UploadReplyLost, RequestStep, UploadEnqueue, UploadMarkFailed,
          UploadMarkFails
<1>3. ASSUME NEW f \in Files, TaskStep(f) PROVE Deleting'
  BY <1>1, <1>3 DEF TaskStep, JobStart, Lookup, Mark, Prep, PrepRaises, EarlyDbRaises, Persist,
      Upsert, UpsertRaises, Commit, CommitRaises, CommitReplyLost, Cleanup, Reset, ResetRaises,
      Return,
      FailFile, FailFileClean, JobSucceeds, JobReturns, JobStatusRaises, JobFails,
      TaskOnly, EndTask
<1>4. ASSUME NEW w \in Workers, LoopStep(w) PROVE Deleting'
  BY <1>1, <1>4 DEF LoopStep, WorkerStart, Pop, Dispatch, RequeueStatus, RequeuePush,
              LoopEnds, WorkerExits
<1>5. ASSUME NEW p \in Sweepers, SweepStep(p) PROVE Deleting'
  BY <1>1, <1>5 DEF SweepStep, SweepCheck, SweepReport, SweepCommit, SweepEnd
<1>6. CASE Disturbance
  <2>1. ASSUME NEW f \in Files, DeleteVectorsFails(f) \/ DeleteRowFails(f) PROVE Deleting'
    BY <2>1 DEF DeleteVectorsFails, DeleteRowFails
  <2>2. CASE AppCrash
    BY <2>2 DEF AppCrash
  <2> QED BY <1>1, <1>6, <2>1, <2>2 DEF Disturbance, HeartbeatExpires, UploadEnqueueFails,
      Timeout, DispatchFails, Terminate, WorkerCrash, HeartbeatFails, LoopRaises,
      SweepCommitFails, SweepCheckFails
<1>7. CASE AppStart \/ (\E z \in zombies : ZombieEnds(z)) \/ UNCHANGED vars
  BY <1>1, <1>7 DEF AppStart, ZombieEnds, vars
<1> QED BY <1>2, <1>3, <1>4, <1>5, <1>6, <1>7 DEF Next

-----------------------------------------------------------------------------
(* The vectors of an indexed file.                                          *)

\* The deployment of docker-compose.yml.
OneWorker == \A v, w \in Workers : v = w

Ending == {"requeue", "lpush", "exit"}

Sane == seen \cap {"timeout", "db_reply_lost"} = {}

\* A thread left behind by a cancelled task.
ThreadInv(z) ==
    /\ wpc[z.owner] \in Ending
    /\ pc[z.file] = "none"
    /\ z.call = "delete" => ~rows[z.file]

\* Without deadlines and lost replies of Postgres a thread is only left behind by a
\* worker on its way out, which waits for it before it can run another task; the
\* thread of a cleanup belongs to a file without chunk rows.  And if no delete was cut off, a file that
\* is indexed, or about to be, has its vectors or is being deleted.
ZInv == Sane =>
    /\ \A z \in zombies : ThreadInv(z)
    /\ \A f \in Files : pc[f] \notin {"failfile", "ffclean"}
    /\ ~DeleteCut => \A f \in Files :
          pc[f] = "commit" \/ status[f] = "indexed" => vec[f] \/ del[f] \in {"unlink", "row"}

\* A step that leaves no thread behind and starts no task.
ZFrame ==
    /\ zombies' \subseteq zombies
    /\ \A w \in Workers : wpc[w] \in Ending => wpc'[w] \in Ending
    /\ \A f \in Files : /\ pc[f] = "none" => pc'[f] = "none"
                        /\ pc[f] = "none" /\ rows'[f] => rows[f]

\* What a step must see to about a file.
ZFile(f) ==
    /\ pc'[f] \notin {"failfile", "ffclean"}
    /\ ~DeleteCut' => (pc'[f] = "commit" \/ status'[f] = "indexed"
                          => vec'[f] \/ del'[f] \in {"unlink", "row"})

\* The thread of a task that is cancelled while its worker ends.
LEMMA OrphanedInv ==
  ASSUME TInv, NoRowsYet, NEW f \in Files, pc[f] # "ffclean",
         wpc'[owner[f]] \in Ending, pc'[f] = "none", rows' = rows, Sane, NEW z \in Orphaned(f)
  PROVE  ThreadInv(z)'
<1>1. z.owner = owner[f] /\ z.file = f /\ (z.call = "delete" => pc[f] = "cleanup")
  BY DEF Orphaned
<1>2. z.call = "delete" => ~rows[f]
  BY <1>1 DEF NoRowsYet, Sane
<1> QED BY <1>1, <1>2 DEF ThreadInv

LEMMA SearchableStep ==
  OneWorker /\ TInv /\ HInv /\ RInv /\ BInv /\ Deleting /\ ZInv /\ [Next]_vars => ZInv'
<1> SUFFICES ASSUME OneWorker, TInv, HInv, RInv, BInv, Deleting, ZInv, [Next]_vars,
                    Sane'
             PROVE  /\ \A z \in zombies' : ThreadInv(z)'
                    /\ \A f \in Files : ZFile(f)
  BY DEF ZInv, ZFile
<1>0. \A w \in Workers : wpc[w] \in InHand => cur[w] \in Files
  BY DEF TInv, TypeOK, Holding
<1>1. /\ Sane
      /\ \A z \in zombies : ThreadInv(z) /\ z.owner \in Workers /\ z.file \in Files
      /\ \A f \in Files : pc[f] \notin {"failfile", "ffclean"}
      /\ ~DeleteCut' => \A f \in Files :
            pc[f] = "commit" \/ status[f] = "indexed" => vec[f] \/ del[f] \in {"unlink", "row"}
  <2>1. seen \subseteq seen'
    BY SeenGrows
  <2>2. ~DeleteCut' => ~DeleteCut
    BY <2>1 DEF DeleteCut
  <2> QED BY <2>1, <2>2 DEF ZInv, Sane, TInv, TypeOK, Zombie
<1>z. ZFrame => \A z \in zombies' : ThreadInv(z)'
  BY <1>1 DEF ZFrame, ThreadInv
<1>q. UNCHANGED <<pc, status, vec, del>> => \A f \in Files : ZFile(f)
  BY <1>1 DEF ZFile
<1> USE <1>0, IndexingAssumption
    DEF TInv, TypeOK, InHand, Looping, Ending, db, store, redis, appVars, loopVars, taskVars, Row,
        Transient
<1> DEFINE Goal == (\A z \in zombies' : ThreadInv(z)') /\ (\A f \in Files : ZFile(f))
<1>2. ASSUME NEW f \in Files, UserStep(f) \/ RequestStep(f) PROVE Goal
  <2>1. ZFrame
    BY <1>2 DEF UserStep, UploadCommit, UploadReplyLost, DeleteStart, RequestStep, UploadEnqueue,
                UploadMarkFailed, UploadMarkFails, DeleteVectors, Unlink, DeleteRow, ZFrame
  <2>2. CASE UploadCommit(f) \/ UploadReplyLost(f)
    BY <1>z, <2>1, <2>2, <1>1 DEF UploadCommit, UploadReplyLost, ZFile, BInv
  <2>3. CASE DeleteStart(f) \/ UploadEnqueue(f)
    BY <1>z, <2>1, <2>3, <1>1 DEF DeleteStart, UploadEnqueue, ZFile
  <2>4. CASE UploadMarkFailed(f) \/ UploadMarkFails(f) \/ DeleteRow(f)
    BY <1>z, <2>1, <2>4, <1>1 DEF UploadMarkFailed, UploadMarkFails, DeleteRow, RowLocked, ZFile
  <2>5. CASE DeleteVectors(f) \/ Unlink(f)
    BY <1>z, <2>1, <2>5, <1>1 DEF DeleteVectors, Unlink, ZFile
  <2> QED BY <1>2, <2>2, <2>3, <2>4, <2>5 DEF UserStep, RequestStep
<1>3. ASSUME NEW f \in Files, TaskStep(f) PROVE Goal
  <2> USE DEF Goto, TaskOnly, Raise
  <2>1. CASE JobReturns(f) \/ JobFails(f)
    <3>1. EndTask(f, Awaited(f)) /\ pc[f] # "none"
      BY <2>1 DEF JobReturns, JobFails
    <3>2. Awaited(f) => wpc[owner[f]] = "busy"
      BY <3>1 DEF Awaited, HInv, Holding, BInv, Carrying
    <3>3. ZFrame
      BY <3>1, <3>2 DEF EndTask, SetLoop, ZFrame
    <3>4. \A g \in Files : ZFile(g)
      BY <3>1, <1>1 DEF EndTask, ZFile
    <3> QED BY <3>3, <3>4, <1>z
  <2>2. CASE \/ JobStart(f) \/ Lookup(f) \/ Prep(f) \/ PrepRaises(f) \/ EarlyDbRaises(f)
             \/ Persist(f) \/ CommitRaises(f) \/ UpsertRaises(f) \/ Upsert(f)
    <3>1. ZFrame
      BY <2>2 DEF JobStart, Lookup, Prep, PrepRaises, EarlyDbRaises, Persist, Upsert,
                  UpsertRaises, CommitRaises, ZFrame
    <3>2. \A g \in Files : ZFile(g)
      BY <2>2, <1>1 DEF JobStart, Lookup, Prep, PrepRaises, EarlyDbRaises, Persist, Upsert,
                  UpsertRaises, CommitRaises, ZFile
    <3> QED BY <3>1, <3>2, <1>z
  <2>3. CASE \/ Mark(f) \/ Commit(f) \/ Reset(f) \/ ResetRaises(f) \/ Return(f)
             \/ JobSucceeds(f) \/ JobStatusRaises(f)
    <3>1. ZFrame
      BY <2>3 DEF Mark, Commit, Reset, ResetRaises, Return, JobSucceeds,
                  JobStatusRaises, ZFrame
    <3>2. \A g \in Files : ZFile(g)
      BY <2>3, <1>1 DEF Mark, Commit, Reset, ResetRaises, Return, JobSucceeds,
                  JobStatusRaises, ZFile
    <3> QED BY <3>1, <3>2, <1>z
  <2>4. CASE Cleanup(f)
    <3>1. ZFrame
      BY <2>4 DEF Cleanup, ZFrame
    <3>2. status[f] # "indexed"
      BY <2>4, <1>1 DEF Cleanup, RInv, RowsMatchStatus, NoRowsYet, Sane
    <3>3. \A g \in Files : ZFile(g)
      BY <2>4, <3>2, <1>1 DEF Cleanup, ZFile
    <3> QED BY <3>1, <3>3, <1>z
  <2>5. CASE FailFile(f) \/ FailFileClean(f) \/ CommitReplyLost(f)
    BY <2>5, <1>1 DEF FailFile, FailFileClean, CommitReplyLost, Event, Sane
  <2> QED BY <1>3, <2>1, <2>2, <2>3, <2>4, <2>5 DEF TaskStep
<1>4. ASSUME NEW w \in Workers, LoopStep(w) \/ DispatchFails(w) \/ HeartbeatFails(w) \/ LoopRaises(w)
      PROVE  Goal
  <2> USE DEF SetLoop
  <2>1. CASE \/ WorkerStart(w) \/ Pop(w) \/ RequeueStatus(w) \/ DispatchFails(w)
             \/ HeartbeatFails(w)
    <3>1. ZFrame /\ UNCHANGED <<pc, status, vec, del>>
      BY <2>1 DEF WorkerStart, Pop, RequeueStatus, DispatchFails, HeartbeatFails, ZFrame
    <3> QED BY <3>1, <1>z, <1>q
  <2>2. CASE Dispatch(w)
    <3>1. /\ wpc[w] = "popped" /\ zombies' = zombies
          /\ \A f \in Files : pc'[f] = pc[f] \/ pc'[f] = "start"
          /\ UNCHANGED <<status, vec, del>>
      BY <2>2 DEF Dispatch
    <3>2. zombies = {}
      BY <3>1, <1>1 DEF ThreadInv, OneWorker
    <3> QED BY <3>1, <3>2, <1>1 DEF ZFile
  <2>3. CASE RequeuePush(w) \/ LoopEnds(w) \/ LoopRaises(w)
    <3>1. /\ wpc' = [wpc EXCEPT ![w] = "exit"]
          /\ pc' = [f \in Files |-> IF f \in OwnTasks(w) THEN "none" ELSE pc[f]]
          /\ zombies' = zombies \cup UNION {Orphaned(f) : f \in OwnTasks(w)}
          /\ UNCHANGED <<status, rows, vec, del, owner>>
      BY <2>3 DEF RequeuePush, LoopEnds, LoopRaises, LeaveLoop
    <3>2. ASSUME NEW z \in zombies PROVE ThreadInv(z)'
      <4>1. z.owner = w
        BY <1>1 DEF OneWorker
      <4> QED BY <3>1, <4>1, <1>1 DEF ThreadInv
    <3>3. ASSUME NEW f \in OwnTasks(w), NEW z \in Orphaned(f) PROVE ThreadInv(z)'
      <4>1. f \in Files /\ owner[f] = w
        BY DEF OwnTasks
      <4>2. wpc'[owner[f]] \in Ending /\ pc'[f] = "none"
        BY <3>1, <4>1
      <4> QED BY <3>1, <4>1, <4>2, <1>1, OrphanedInv DEF RInv
    <3>4. \A f \in Files : ZFile(f)
      BY <3>1, <1>1 DEF ZFile
    <3> QED BY <3>1, <3>2, <3>3, <3>4
  <2>4. CASE WorkerExits(w)
    <3>1. zombies' = {} /\ UNCHANGED <<pc, status, vec, del>>
      BY <2>4, <1>1 DEF WorkerExits, OneWorker
    <3> QED BY <3>1, <1>q
  <2> QED BY <1>4, <2>1, <2>2, <2>3, <2>4 DEF LoopStep
<1>5. ASSUME NEW w \in Workers, Terminate(w) PROVE Goal
  <2>1. CASE wpc[w] = "busy" /\ pc[cur[w]] # "jobfail"
    <3>1. PICK f \in Files : f = cur[w]
      BY <2>1
    <3>2. /\ wpc[w] = "busy" /\ owner[f] = w
          /\ wpc' = [wpc EXCEPT ![w] = "requeue"] /\ pc' = [pc EXCEPT ![f] = "none"]
          /\ zombies' = zombies \cup Orphaned(f)
          /\ UNCHANGED <<status, rows, vec, del, owner>>
      BY <1>5, <2>1, <3>1 DEF Terminate, HInv
    <3>3. zombies = {}
      BY <3>2, <1>1 DEF ThreadInv, OneWorker
    <3>4. \A z \in Orphaned(f) : ThreadInv(z)'
      BY <3>2, <1>1, OrphanedInv DEF RInv
    <3>5. \A g \in Files : ZFile(g)
      BY <3>2, <1>1 DEF ZFile
    <3> QED BY <3>2, <3>3, <3>4, <3>5
  <2>2. CASE ~(wpc[w] = "busy" /\ pc[cur[w]] # "jobfail")
    <3>1. ZFrame /\ UNCHANGED <<pc, status, vec, del>>
      BY <1>5, <2>2 DEF Terminate, ZFrame
    <3> QED BY <3>1, <1>z, <1>q
  <2> QED BY <2>1, <2>2
<1>6. ASSUME NEW w \in Workers, WorkerCrash(w) PROVE Goal
  <2>1. zombies' = {}
    BY <1>6, <1>1 DEF WorkerCrash, OneWorker
  <2>2. \A f \in Files : ZFile(f)
    BY <1>6, <1>1 DEF WorkerCrash, OwnTasks, ZFile
  <2> QED BY <2>1, <2>2
<1>7. ASSUME NEW p \in Sweepers,
             SweepStep(p) \/ SweepCommitFails(p) \/ \E f \in Files : SweepCheckFails(p, f)
      PROVE  Goal
  <2>1. ZFrame
    BY <1>7 DEF SweepStep, SweepCheck, SweepReport, SweepCommit, SweepEnd, SweepCommitFails,
                SweepCheckFails, SetSweepPhase, SweepPhase, Sweepers, ZFrame
  <2>2. CASE SweepCommit(p)
    BY <2>1, <2>2, <1>1, <1>z DEF SweepCommit, ZFile
  <2>3. CASE ~SweepCommit(p)
    <3>1. UNCHANGED <<pc, status, vec, del>>
      BY <1>7, <2>3 DEF SweepStep, SweepCheck, SweepReport, SweepEnd, SweepCommitFails,
                        SweepCheckFails
    <3> QED BY <2>1, <3>1, <1>z, <1>q
  <2> QED BY <2>2, <2>3
<1>8. CASE AppStart \/ AppCrash \/ HeartbeatExpires
  <2>1. ZFrame /\ UNCHANGED <<pc, status, vec>>
    BY <1>8 DEF AppStart, AppCrash, HeartbeatExpires, ZFrame
  <2>2. CASE UNCHANGED del
    BY <2>1, <2>2, <1>z, <1>q
  <2>3. CASE AppCrash
    <3>1. "delete" \in seen => DeleteCut'
      BY <2>3 DEF AppCrash, Event, DeleteCut
    <3>2. "delete" \notin seen => \A f \in Files : del[f] = "none"
      BY DEF Deleting
    <3>3. \A f \in Files : ZFile(f)
      BY <2>1, <3>1, <3>2, <1>1 DEF ZFile
    <3> QED BY <2>1, <3>3, <1>z
  <2> QED BY <1>8, <2>2, <2>3 DEF AppStart, HeartbeatExpires
<1>9. ASSUME NEW f \in Files,
             DeleteVectorsFails(f) \/ DeleteRowFails(f) \/ UploadEnqueueFails(f)
      PROVE  Goal
  <2>1. ZFrame /\ UNCHANGED <<pc, status>>
    BY <1>9 DEF DeleteVectorsFails, DeleteRowFails, UploadEnqueueFails, ZFrame
  <2>2. CASE UploadEnqueueFails(f)
    BY <2>1, <2>2, <1>z, <1>q DEF UploadEnqueueFails
  <2>3. CASE DeleteRowFails(f)
    <3>1. DeleteCut'
      BY <2>3 DEF DeleteRowFails, Deleting, Event, DeleteCut
    <3> QED BY <2>1, <3>1, <1>z, <1>1 DEF ZFile
  <2>4. CASE DeleteVectorsFails(f)
    <3>1. DeleteCut' \/ UNCHANGED vec
      BY <2>4 DEF DeleteVectorsFails, Deleting, Event, DeleteCut
    <3>2. del[f] = "vectors" /\ \A g \in Files : g # f => del'[g] = del[g]
      BY <2>4 DEF DeleteVectorsFails
    <3> QED BY <2>1, <3>1, <3>2, <1>z, <1>1 DEF ZFile
  <2> QED BY <1>9, <2>2, <2>3, <2>4
<1>10. ASSUME NEW z \in zombies, ZombieEnds(z) PROVE Goal
  <2>1. ZFrame
    BY <1>10 DEF ZombieEnds, ZFrame
  <2>2. /\ pc[z.file] = "none" /\ z.call \in {"upsert", "delete"} /\ z.file \in Files
        /\ z.call = "delete" => status[z.file] # "indexed"
    BY <1>1 DEF ThreadInv, RInv, RowsMatchStatus, Zombie
  <2>3. /\ UNCHANGED <<pc, status, del>>
        /\ \A f \in Files : f # z.file => vec'[f] = vec[f]
        /\ z.call = "upsert" => vec'[z.file] = TRUE \/ vec'[z.file] = vec[z.file]
    BY <1>10, <2>2 DEF ZombieEnds
  <2>4. \A f \in Files : ZFile(f)
    BY <2>2, <2>3, <1>1 DEF ZFile
  <2> QED BY <2>1, <2>4, <1>z
<1>11. CASE UNCHANGED vars
  <2>1. ZFrame /\ UNCHANGED <<pc, status, vec, del>>
    BY <1>11 DEF vars, ZFrame
  <2> QED BY <2>1, <1>z, <1>q
<1>12. ASSUME NEW f \in Files, Timeout(f) PROVE Goal
  BY <1>12 DEF Timeout, Event, Sane
<1>13. CASE Disturbance
  BY <1>4, <1>5, <1>6, <1>7, <1>8, <1>9, <1>12, <1>13 DEF Disturbance
<1> QED BY <1>2, <1>3, <1>4, <1>7, <1>8, <1>10, <1>11, <1>13 DEF Next

LEMMA BaseInvariance == Spec => [](TInv /\ HInv /\ RInv /\ BInv /\ Deleting)
<1>1. Init => HInv
  BY DEF Init, HInv, OnList, Distinct, Carries, Carrying
<1>2. Init => RInv
  BY DEF Init, RInv, RowsMatchStatus, NoRowsYet
<1>3. Init => BInv
  BY IndexingAssumption DEF Init, BInv, SweepInv, SweepPhase, Sweepers, Looping
<1>4. TInv => TypeOK
  BY DEF TInv
<1>5. Init => Deleting
  BY DEF Init, Deleting
<1> QED BY <1>1, <1>2, <1>3, <1>4, <1>5, HeldStep, RowsStep, BaseStep, DeletingStep,
           TypeInvariance, PTL DEF Spec

\* With the one worker of docker-compose.yml, as long as no deadline has passed, no commit
\* has lost its reply and no delete request was cut off between the vectors and the row, an indexed file has its
\* vectors in Chroma until a running delete request has taken them: no cleanup, requeue,
\* cancelled thread or retry removes the vectors of a file that is, or is about to be,
\* indexed.
THEOREM IndexedStaysSearchable == OneWorker => (Spec => []IndexedIsSearchable)
<1> SUFFICES ASSUME OneWorker PROVE Spec => []IndexedIsSearchable
  OBVIOUS
<1>1. Init => ZInv
  BY DEF Init, ZInv
<1>2. TInv /\ HInv /\ RInv /\ BInv /\ Deleting /\ ZInv /\ [Next]_vars => ZInv'
  BY SearchableStep
<1>3. ZInv => IndexedIsSearchable
  BY DEF ZInv, Sane, IndexedIsSearchable
<1> QED BY <1>1, <1>2, <1>3, BaseInvariance, PTL DEF Spec

-----------------------------------------------------------------------------
(* The status of a file under its task.                                     *)

Attempting == {"prep", "persist", "upsert", "commit", "cleanup"}

\* Nobody but a delete changes the status behind the back of an attempt that has
\* found the file transient, or marked it processing.
TaskStatus ==
    \A f \in Files :
        /\ pc[f] \in {"mark", "reset"} => status[f] \in {"pending", "processing", "deleted"}
        /\ pc[f] \in Attempting => status[f] \in {"processing", "deleted"}

\* A step in which no other writer does.
OnlyOwn ==
    \A f \in Files :
        pc[f] \in {"mark", "reset"} \cup Attempting /\ pc'[f] = pc[f] =>
            status'[f] \in {status[f], "deleted"}

LEMMA TaskStatusStep ==
  ASSUME TInv, HInv, TaskStatus, [Next]_vars, OnlyOwn, "db_reply_lost" \notin seen'
  PROVE  TaskStatus'
<1>0. \A w \in Workers : wpc[w] \in InHand => cur[w] \in Files
  BY DEF TInv, TypeOK, Holding
<1> USE <1>0, IndexingAssumption
    DEF TInv, TypeOK, InHand, Attempting, db, redis, appVars, loopVars, taskVars, Row, Transient
<1>q. ASSUME \A f \in Files : pc'[f] = pc[f] \/ pc'[f] \notin {"mark", "reset"} \cup Attempting
      PROVE  TaskStatus'
  BY <1>q DEF TaskStatus, OnlyOwn
<1>1. ASSUME NEW f \in Files, TaskStep(f) PROVE TaskStatus'
  <2> USE DEF Goto, TaskOnly, Raise
  <2>1. CASE Lookup(f)
    BY <2>1 DEF Lookup, TaskStatus
  <2>2. CASE Mark(f)
    BY <2>2 DEF Mark, TaskStatus, TypeOK, Status
  <2>3. CASE Prep(f) \/ PrepRaises(f) \/ EarlyDbRaises(f) \/ Persist(f)
    BY <2>3 DEF Prep, PrepRaises, EarlyDbRaises, Persist, TaskStatus
  <2>4. CASE Upsert(f) \/ UpsertRaises(f) \/ CommitRaises(f) \/ CommitReplyLost(f) \/ Cleanup(f)
    BY <2>4 DEF Upsert, UpsertRaises, CommitRaises, CommitReplyLost, Event, Cleanup, TaskStatus
  <2>5. CASE Commit(f) \/ Reset(f) \/ ResetRaises(f) \/ Return(f)
    BY <2>5 DEF Commit, Reset, ResetRaises, Return, TaskStatus
  <2>6. CASE \/ JobStart(f) \/ FailFile(f) \/ FailFileClean(f) \/ JobSucceeds(f)
             \/ JobReturns(f) \/ JobStatusRaises(f) \/ JobFails(f)
    BY <2>6, <1>q DEF JobStart, FailFile, FailFileClean, JobSucceeds, JobReturns,
        JobStatusRaises, JobFails, EndTask
  <2> QED BY <1>1, <2>1, <2>2, <2>3, <2>4, <2>5, <2>6 DEF TaskStep
<1>2. ASSUME NEW f \in Files, UserStep(f) \/ RequestStep(f) PROVE TaskStatus'
  BY <1>2, <1>q DEF UserStep, UploadCommit, UploadReplyLost, DeleteStart, RequestStep,
      UploadEnqueue,
      UploadMarkFailed, UploadMarkFails, DeleteVectors, Unlink, DeleteRow
<1>3. ASSUME NEW w \in Workers, LoopStep(w) PROVE TaskStatus'
  BY <1>3, <1>q DEF LoopStep, WorkerStart, Pop, Dispatch, RequeueStatus, RequeuePush,
      LoopEnds, LeaveLoop, WorkerExits
<1>4. ASSUME NEW p \in Sweepers, SweepStep(p) PROVE TaskStatus'
  BY <1>4, <1>q DEF SweepStep, SweepCheck, SweepReport, SweepCommit, SweepEnd
<1>5. CASE Disturbance
  <2>1. ASSUME NEW w \in Workers, Terminate(w) \/ WorkerCrash(w) \/ LoopRaises(w) PROVE TaskStatus'
    BY <2>1, <1>q DEF Terminate, WorkerCrash, LoopRaises, LeaveLoop
  <2>2. ASSUME NEW f \in Files, Timeout(f) PROVE TaskStatus'
    BY <2>2, <1>q DEF Timeout, Goto
  <2>3. CASE UNCHANGED pc
    BY <2>3, <1>q
  <2> QED
    BY <1>5, <2>1, <2>2, <2>3 DEF Disturbance, AppCrash, HeartbeatExpires, UploadEnqueueFails,
      DeleteVectorsFails, DeleteRowFails, DispatchFails, HeartbeatFails,
      SweepCommitFails, SweepCheckFails
<1>6. CASE AppStart \/ (\E z \in zombies : ZombieEnds(z)) \/ UNCHANGED vars
  BY <1>6, <1>q DEF AppStart, ZombieEnds, vars
<1> QED BY <1>1, <1>2, <1>3, <1>4, <1>5, <1>6 DEF Next

-----------------------------------------------------------------------------
(* Who writes what.                                                         *)

\* A commit that loses its reply is an event.
LEMMA ReplyLost ==
  ASSUME "db_reply_lost" \notin seen'
  PROVE  \A f \in Files : ~UploadReplyLost(f) /\ ~CommitReplyLost(f)
<1>1. ASSUME NEW f \in Files, UploadReplyLost(f) PROVE FALSE
  BY <1>1 DEF UploadReplyLost, Event
<1>2. ASSUME NEW f \in Files, CommitReplyLost(f) PROVE FALSE
  BY <1>2 DEF CommitReplyLost, Event
<1> QED BY <1>1, <1>2

\* The steps that may change a status.
LEMMA StatusWriters ==
  ASSUME [Next]_vars
  PROVE  \/ UNCHANGED status
         \/ \E f \in Files : \/ UploadCommit(f) \/ UploadReplyLost(f) \/ UploadMarkFailed(f) \/ DeleteRow(f)
                             \/ Mark(f) \/ Commit(f) \/ CommitReplyLost(f) \/ Reset(f) \/ FailFile(f)
         \/ \E p \in Sweepers : SweepCommit(p)
<1> DEFINE Goal == \/ UNCHANGED status
                   \/ \E f \in Files : \/ UploadCommit(f) \/ UploadReplyLost(f) \/ UploadMarkFailed(f) \/ DeleteRow(f)
                                       \/ Mark(f) \/ Commit(f) \/ CommitReplyLost(f) \/ Reset(f) \/ FailFile(f)
                   \/ \E p \in Sweepers : SweepCommit(p)
<1> USE DEF db
<1>1. ASSUME NEW f \in Files, TaskStep(f) PROVE Goal
  BY <1>1 DEF TaskStep, JobStart, Lookup, Prep, PrepRaises, EarlyDbRaises, Persist, Upsert,
      UpsertRaises, CommitRaises, Cleanup, ResetRaises, Return,
      FailFileClean, JobSucceeds, JobReturns, JobStatusRaises, JobFails, EndTask
<1>2. ASSUME NEW f \in Files, UserStep(f) \/ RequestStep(f) PROVE Goal
  BY <1>2 DEF UserStep, DeleteStart, RequestStep, UploadEnqueue, UploadMarkFails, DeleteVectors,
      Unlink
<1>3. ASSUME NEW w \in Workers, LoopStep(w) PROVE Goal
  BY <1>3 DEF LoopStep, WorkerStart, Pop, Dispatch, RequeueStatus, RequeuePush,
              LoopEnds, WorkerExits
<1>4. ASSUME NEW p \in Sweepers, SweepStep(p) PROVE Goal
  BY <1>4 DEF SweepStep, SweepCheck, SweepReport, SweepEnd
<1>5. CASE Disturbance
  BY <1>5 DEF Disturbance, AppCrash, HeartbeatExpires, UploadEnqueueFails,
      DeleteVectorsFails, DeleteRowFails, Timeout, DispatchFails, Terminate,
      WorkerCrash, HeartbeatFails, LoopRaises, SweepCommitFails, SweepCheckFails
<1>6. CASE AppStart \/ (\E z \in zombies : ZombieEnds(z)) \/ UNCHANGED vars
  BY <1>6 DEF AppStart, ZombieEnds, vars
<1> QED BY <1>1, <1>2, <1>3, <1>4, <1>5, <1>6 DEF Next

\* The steps that may move a request, or the app.
LEMMA RequestWriters ==
  ASSUME TypeOK, [Next]_vars
  PROVE  /\ \A f \in Files : \/ upl'[f] \in {upl[f], "none"}
                             \/ UploadCommit(f) \/ UploadReplyLost(f) \/ UploadEnqueueFails(f)
         /\ app' = "up" \/ app # "up" \/ AppCrash
<1> DEFINE Goal == /\ \A f \in Files : \/ upl'[f] \in {upl[f], "none"}
                                       \/ UploadCommit(f) \/ UploadReplyLost(f) \/ UploadEnqueueFails(f)
                   /\ app' = "up" \/ app # "up" \/ AppCrash
<1> USE DEF TypeOK, appVars
<1>1. ASSUME NEW f \in Files, TaskStep(f) PROVE Goal
  BY <1>1 DEF TaskStep, JobStart, Lookup, Mark, Prep, PrepRaises, EarlyDbRaises, Persist, Upsert,
      UpsertRaises, Commit, CommitRaises, CommitReplyLost, Cleanup, Reset, ResetRaises, Return,
      FailFile,
      FailFileClean, JobSucceeds, JobReturns, JobStatusRaises, JobFails, EndTask, TaskOnly
<1>2. ASSUME NEW f \in Files, UserStep(f) \/ RequestStep(f) PROVE Goal
  BY <1>2 DEF UserStep, UploadCommit, UploadReplyLost, DeleteStart, RequestStep, UploadEnqueue,
      UploadMarkFailed, UploadMarkFails, DeleteVectors, Unlink, DeleteRow
<1>3. ASSUME NEW w \in Workers, LoopStep(w) PROVE Goal
  BY <1>3 DEF LoopStep, WorkerStart, Pop, Dispatch, RequeueStatus, RequeuePush,
              LoopEnds, WorkerExits
<1>4. ASSUME NEW p \in Sweepers,
             SweepStep(p) \/ SweepCommitFails(p) \/ \E f \in Files : SweepCheckFails(p, f)
      PROVE Goal
  BY <1>4 DEF SweepStep, SweepCheck, SweepReport, SweepCommit, SweepEnd, SweepCommitFails,
      SweepCheckFails, SetSweepPhase, SweepPhase
<1>5. ASSUME NEW f \in Files,
             \/ UploadEnqueueFails(f) \/ DeleteVectorsFails(f) \/ DeleteRowFails(f)
             \/ Timeout(f)
      PROVE Goal
  BY <1>5 DEF UploadEnqueueFails, DeleteVectorsFails, DeleteRowFails, Timeout
<1>6. ASSUME NEW w \in Workers,
             \/ DispatchFails(w) \/ Terminate(w) \/ WorkerCrash(w) \/ HeartbeatFails(w)
             \/ LoopRaises(w)
      PROVE Goal
  BY <1>6 DEF DispatchFails, Terminate, WorkerCrash, HeartbeatFails, LoopRaises, LeaveLoop
<1>7. CASE AppStart \/ AppCrash \/ HeartbeatExpires
  BY <1>7 DEF AppStart, AppCrash, HeartbeatExpires
<1>8. CASE (\E z \in zombies : ZombieEnds(z)) \/ UNCHANGED vars
  BY <1>8 DEF ZombieEnds, vars
<1> QED BY <1>1, <1>2, <1>3, <1>4, <1>5, <1>6, <1>7, <1>8 DEF Next, Disturbance

\* Only an upload gives a job to a file that has none.
LEMMA NewPlace ==
  ASSUME TInv, HInv, [Next]_vars, NEW f \in Files, ~Placed(f), Placed(f)'
  PROVE  upl[f] = "enqueue" /\ ((\E g \in Files : UploadEnqueue(g)) \/ Enqueue(f))
<1>0. \A w \in Workers : wpc[w] \in InHand => cur[w] \in Files
  BY DEF TInv, TypeOK, Holding
<1>1. ~OnList(queue, f) /\ pc[f] = "none" /\ \A w \in Workers : ~Carries(w, f)
  BY DEF Placed
<1> DEFINE Goal == upl[f] = "enqueue" /\ ((\E g \in Files : UploadEnqueue(g)) \/ Enqueue(f))
<1>q. ASSUME queue' = queue,
             pc'[f] = pc[f] \/ pc'[f] = "none",
             \A w \in Workers : wpc'[w] \in Carrying => wpc[w] \in Carrying /\ cur'[w] = cur[w]
      PROVE  FALSE
  BY <1>q, <1>1 DEF Placed, Carries
<1> USE <1>0, IndexingAssumption
    DEF TInv, TypeOK, InHand, Carrying, redis, appVars, loopVars, taskVars, SetLoop
<1>2. ASSUME NEW g \in Files, Enqueue(g), UNCHANGED <<wpc, cur, pc>>, g # f PROVE FALSE
  <2>1. ~OnList(queue', f)
    BY <1>1, <1>2 DEF OnList, Enqueue
  <2> QED BY <2>1, <1>1, <1>2 DEF Placed, Carries
<1>3. ASSUME NEW g \in Files,
             UserStep(g) \/ RequestStep(g) \/ UploadEnqueueFails(g)
             \/ DeleteVectorsFails(g) \/ DeleteRowFails(g)
      PROVE Goal
  <2>1. CASE UploadEnqueue(g)
    BY <1>2, <2>1 DEF UploadEnqueue
  <2>2. CASE UploadEnqueueFails(g)
    BY <1>2, <1>q, <2>2 DEF UploadEnqueueFails
  <2>3. CASE \/ UploadCommit(g) \/ UploadReplyLost(g) \/ DeleteStart(g) \/ UploadMarkFailed(g)
             \/ UploadMarkFails(g) \/ DeleteVectors(g) \/ Unlink(g) \/ DeleteRow(g) \/ DeleteVectorsFails(g) \/ DeleteRowFails(g)
    BY <1>q, <2>3 DEF UploadCommit, UploadReplyLost, DeleteStart, UploadMarkFailed,
        UploadMarkFails, DeleteVectors, Unlink, DeleteRow,
        DeleteVectorsFails, DeleteRowFails
  <2> QED BY <1>3, <2>1, <2>2, <2>3 DEF UserStep, RequestStep
<1>4. ASSUME NEW g \in Files, TaskStep(g) \/ Timeout(g) PROVE FALSE
  <2>1. UNCHANGED queue /\ pc[g] # "none" /\ (pc' = pc \/ \E l : Goto(g, l))
    BY <1>4 DEF TaskStep, JobStart, Lookup, Mark, Prep, PrepRaises, EarlyDbRaises, Persist, Upsert,
      UpsertRaises, Commit, CommitRaises, CommitReplyLost, Cleanup, Reset, ResetRaises, Return,
      FailFile,
      FailFileClean, JobSucceeds, JobReturns, JobStatusRaises, JobFails, EndTask, TaskOnly,
      Raise, Timeout, Attempt
  <2>2. pc'[f] = pc[f]
    BY <1>1, <2>1 DEF Goto
  <2>3. \A w \in Workers : wpc'[w] \in Carrying => wpc[w] \in Carrying /\ cur'[w] = cur[w]
    BY <1>4 DEF TaskStep, JobStart, Lookup, Mark, Prep, PrepRaises, EarlyDbRaises, Persist, Upsert,
      UpsertRaises, Commit, CommitRaises, CommitReplyLost, Cleanup, Reset, ResetRaises, Return,
      FailFile,
      FailFileClean, JobSucceeds, JobReturns, JobStatusRaises, JobFails, EndTask, TaskOnly,
      Timeout
  <2> QED BY <2>1, <2>2, <2>3, <1>q
<1>5. ASSUME NEW w \in Workers,
             \/ LoopStep(w) \/ DispatchFails(w) \/ Terminate(w) \/ WorkerCrash(w)
             \/ HeartbeatFails(w) \/ LoopRaises(w)
      PROVE FALSE
  <2>1. CASE Pop(w)
    <3>1. OnList(queue, Head(queue)) /\ \A g \in Files : OnList(queue', g) => OnList(queue, g)
      BY <2>1, ListPop DEF Pop, HInv
    <3> QED BY <1>1, <2>1, <3>1 DEF Pop, Placed, Carries
  <2>2. CASE Dispatch(w)
    <3>1. cur[w] # f
      BY <1>1, <2>2 DEF Dispatch, Carries
    <3> QED BY <1>q, <2>2, <3>1 DEF Dispatch
  <2>3. CASE RequeuePush(w)
    <3>1. PICK g \in Files : g = cur[w]
      BY <2>3 DEF RequeuePush
    <3>2. g # f /\ queue' = <<g>> \o queue
      BY <1>1, <2>3, <3>1 DEF RequeuePush, Carries
    <3>3. ~OnList(queue, g) /\ Distinct(queue)
      BY <2>3, <3>1 DEF RequeuePush, HInv
    <3>4. ~OnList(queue', f)
      BY <1>1, <3>2, <3>3, ListPush
    <3>5. pc'[f] = "none" /\ \A v \in Workers : Carries(v, f)' => Carries(v, f)
      BY <1>1, <2>3 DEF RequeuePush, LeaveLoop, Carries
    <3> QED BY <1>1, <3>4, <3>5 DEF Placed
  <2>4. CASE LoopEnds(w) \/ WorkerExits(w) \/ WorkerStart(w) \/ RequeueStatus(w)
    BY <1>1, <1>q, <2>4 DEF LoopEnds, LeaveLoop, WorkerExits, WorkerStart, RequeueStatus
  <2>5. CASE DispatchFails(w) \/ WorkerCrash(w) \/ HeartbeatFails(w)
    BY <1>1, <1>q, <2>5 DEF DispatchFails, WorkerCrash, HeartbeatFails
  <2>6. CASE Terminate(w)
    <3>1. CASE wpc[w] = "busy" /\ pc[cur[w]] # "jobfail"
      <4>1. cur[w] # f
        BY <1>1, <3>1 DEF HInv
      <4> QED BY <1>1, <2>6, <3>1, <4>1 DEF Terminate, Placed, Carries
    <3>2. CASE ~(wpc[w] = "busy" /\ pc[cur[w]] # "jobfail")
      BY <1>q, <2>6, <3>2 DEF Terminate
    <3> QED BY <3>1, <3>2
  <2>7. CASE LoopRaises(w)
    <3>0. /\ wpc' = [wpc EXCEPT ![w] = "exit"] /\ cur' = [cur EXCEPT ![w] = NoFile]
          /\ pc' = [g \in Files |-> IF g \in OwnTasks(w) THEN "none" ELSE pc[g]]
      BY <2>7, LoopRaisesFacts
    <3>1. pc'[f] = "none" /\ \A v \in Workers : Carries(v, f)' => Carries(v, f)
      BY <1>1, <3>0 DEF Carries
    <3>2. ~OnList(queue', f)
      <4>1. CASE queue' = queue
        BY <1>1, <4>1
      <4>2. ASSUME NEW g \in Files, wpc[w] = "lpush", g = cur[w], queue' = <<g>> \o queue
            PROVE  ~OnList(queue', f)
        <5>1. ~OnList(queue, g) /\ Distinct(queue) /\ g # f
          BY <1>1, <4>2 DEF HInv, Carries
        <5> QED BY <1>1, <4>2, <5>1, ListPush
      <4> QED BY <2>7, <4>1, <4>2, LoopRaisesFacts
    <3> QED BY <1>1, <3>1, <3>2 DEF Placed
  <2> QED BY <1>5, <2>1, <2>2, <2>3, <2>4, <2>5, <2>6, <2>7 DEF LoopStep
<1>6. ASSUME NEW p \in Sweepers,
             SweepStep(p) \/ SweepCommitFails(p) \/ \E g \in Files : SweepCheckFails(p, g)
      PROVE FALSE
  BY <1>6, <1>q DEF SweepStep, SweepCheck, SweepReport, SweepCommit, SweepEnd, SweepCommitFails,
      SweepCheckFails, SetSweepPhase, SweepPhase, Sweepers
<1>7. CASE AppStart \/ AppCrash \/ HeartbeatExpires
  BY <1>7, <1>q DEF AppStart, AppCrash, HeartbeatExpires
<1>8. CASE (\E z \in zombies : ZombieEnds(z)) \/ UNCHANGED vars
  BY <1>8, <1>q DEF ZombieEnds, vars
<1> QED BY <1>3, <1>4, <1>5, <1>6, <1>7, <1>8 DEF Next, Disturbance

\* What a sweeping worker or app has before it shrinks, once selected.
LEMMA SweepSets ==
  ASSUME TypeOK, [Next]_vars, NEW p \in Sweepers, SweepPhase(p)' = "sweeping"
  PROVE  \/ SweepPhase(p) = "sweeping" /\ todo'[p] \cup dead'[p] \subseteq todo[p] \cup dead[p]
         \/ SweepPhase(p) = "down" /\ todo'[p] = TransientFiles /\ dead'[p] = dead[p]
            /\ UNCHANGED status
<1> DEFINE Goal == \/ SweepPhase(p) = "sweeping" /\ todo'[p] \cup dead'[p] \subseteq todo[p] \cup dead[p]
                   \/ SweepPhase(p) = "down" /\ todo'[p] = TransientFiles /\ dead'[p] = dead[p]
                      /\ UNCHANGED status
<1> USE IndexingAssumption
    DEF TypeOK, appVars, loopVars, sweepVars, db, SetLoop, SweepPhase, Sweepers
<1>1. ASSUME NEW f \in Files, TaskStep(f) \/ Timeout(f) PROVE Goal
  <2>1. UNCHANGED <<app, todo, dead>> /\ (wpc' = wpc \/ wpc' = [wpc EXCEPT ![owner[f]] = "idle"])
    BY <1>1 DEF TaskStep, JobStart, Lookup, Mark, Prep, PrepRaises, EarlyDbRaises, Persist, Upsert,
      UpsertRaises, Commit, CommitRaises, CommitReplyLost, Cleanup, Reset, ResetRaises, Return,
      FailFile,
      FailFileClean, JobSucceeds, JobReturns, JobStatusRaises, JobFails, EndTask, TaskOnly, Timeout
  <2> QED BY <2>1
<1>2. ASSUME NEW f \in Files, UserStep(f) \/ RequestStep(f) PROVE Goal
  BY <1>2 DEF UserStep, UploadCommit, UploadReplyLost, DeleteStart, RequestStep, UploadEnqueue,
      UploadMarkFailed, UploadMarkFails, DeleteVectors, Unlink, DeleteRow
<1>3. ASSUME NEW w \in Workers, LoopStep(w) PROVE Goal
  BY <1>3 DEF LoopStep, WorkerStart, Pop, Dispatch, RequeueStatus, RequeuePush,
              LoopEnds, LeaveLoop, WorkerExits
<1>4. ASSUME NEW q \in Sweepers,
             SweepStep(q) \/ SweepCommitFails(q) \/ \E f \in Files : SweepCheckFails(q, f)
      PROVE Goal
  <2>1. ASSUME NEW f \in Files, SweepCheck(q, f) \/ SweepCheckFails(q, f) PROVE Goal
    BY <2>1 DEF SweepCheck, SweepCheckFails, SweepJudge
  <2>2. ASSUME NEW f \in Files, SweepReport(q, f) PROVE Goal
    BY <2>2 DEF SweepReport
  <2>3. CASE SweepCommit(q) \/ SweepCommitFails(q)
    BY <2>3 DEF SweepCommit, SweepCommitFails, SetSweepPhase
  <2>4. CASE SweepEnd(q)
    BY <2>4 DEF SweepEnd, SetSweepPhase
  <2> QED BY <1>4, <2>1, <2>2, <2>3, <2>4 DEF SweepStep
<1>5. ASSUME NEW f \in Files,
             UploadEnqueueFails(f) \/ DeleteVectorsFails(f) \/ DeleteRowFails(f)
      PROVE Goal
  BY <1>5 DEF UploadEnqueueFails, DeleteVectorsFails, DeleteRowFails
<1>6. ASSUME NEW w \in Workers,
             \/ DispatchFails(w) \/ Terminate(w) \/ WorkerCrash(w) \/ HeartbeatFails(w)
             \/ LoopRaises(w)
      PROVE Goal
  BY <1>6 DEF DispatchFails, Terminate, WorkerCrash, HeartbeatFails, LoopRaises, LeaveLoop
<1>7. CASE AppStart \/ AppCrash \/ HeartbeatExpires
  BY <1>7 DEF AppStart, AppCrash, HeartbeatExpires
<1>8. CASE (\E z \in zombies : ZombieEnds(z)) \/ UNCHANGED vars
  BY <1>8 DEF ZombieEnds, vars
<1> QED BY <1>1, <1>2, <1>3, <1>4, <1>5, <1>6, <1>7, <1>8 DEF Next, Disturbance

-----------------------------------------------------------------------------
(* The lifecycle of a file.                                                 *)

\* As long as the app has not restarted and no reply of an enqueue was lost: the
\* app's sweep saw no file at all, an upload that gives up has no job anywhere,
\* and the worker's sweep has no indexed file before it.
CalmInv == Calm =>
    /\ TaskStatus
    /\ app # "up" => \A f \in Files : status[f] = "absent"
    /\ \A f \in Files :
          /\ upl[f] = "markfailed" => ~Placed(f)
          /\ upl[f] # "none" => status[f] \in {"pending", "failed", "deleted"}
    /\ \A w \in Workers : wpc[w] = "sweeping" =>
          \A f \in todo[w] \cup dead[w] : status[f] # "indexed"

\* The status after a step, as FileLifecycle allows it of a calm one.
Allowed(f) ==
    \/ status'[f] = status[f]
    \/ status[f] = "absent" /\ status'[f] = "pending"
    \/ status[f] \in Transient /\ status'[f] = "processing"
    \/ status[f] = "processing" /\ status'[f] \in {"pending", "indexed"}
    \/ status[f] \in Row /\ status'[f] = "deleted"
    \/ status[f] \in Transient /\ status'[f] = "failed"

\* No task runs while a worker sweeps.
LEMMA SweepsAlone ==
  ASSUME OneWorker, TInv, BInv, NEW w \in Workers, wpc[w] \notin Looping, NEW f \in Files
  PROVE  pc[f] = "none"
BY DEF OneWorker, TInv, TypeOK, BInv

LEMMA CalmFirst == Calm' /\ [Next]_vars => Calm
BY SeenGrows DEF Calm
\* Under the one worker, and while calm, each file's status takes an allowed step:
\* one step of the proof per writer.
LEMMA CalmWrites ==
  ASSUME OneWorker, TInv, HInv, BInv, CalmInv, [Next]_vars, Calm'
  PROVE  /\ \A f \in Files : Allowed(f)
         /\ OnlyOwn
         /\ \A f \in Files : status'[f] = "indexed" => status[f] = "indexed" \/ pc[f] = "commit"
<1>0. Calm
  BY CalmFirst
<1> DEFINE Goal == /\ \A f \in Files : Allowed(f)
                   /\ OnlyOwn
                   /\ \A f \in Files : status'[f] = "indexed" => status[f] = "indexed" \/ pc[f] = "commit"
<1> USE <1>0 DEF TInv, TypeOK, Row, Transient, Attempting
<1>1. CASE UNCHANGED status
  BY <1>1 DEF Allowed, OnlyOwn
<1>2. ASSUME NEW f \in Files, UploadCommit(f) \/ UploadReplyLost(f) PROVE Goal
  BY <1>2 DEF UploadCommit, UploadReplyLost, Allowed, OnlyOwn, HInv
<1>3. ASSUME NEW f \in Files, UploadMarkFailed(f) PROVE Goal
  <2>1. pc[f] = "none" /\ status[f] \in {"pending", "failed", "deleted"}
    BY <1>3 DEF UploadMarkFailed, UploadMarkFails, CalmInv, Placed
  <2> QED BY <1>3, <2>1 DEF UploadMarkFailed, UploadMarkFails, Allowed, OnlyOwn
<1>4. ASSUME NEW f \in Files, DeleteRow(f) PROVE Goal
  BY <1>4 DEF DeleteRow, Allowed, OnlyOwn, BInv
<1>5. ASSUME NEW f \in Files, Mark(f) PROVE Goal
  BY <1>5 DEF Mark, Goto, Allowed, OnlyOwn, CalmInv, TaskStatus
<1>6. ASSUME NEW f \in Files, Commit(f) PROVE Goal
  BY <1>6 DEF Commit, Goto, Allowed, OnlyOwn, CalmInv, TaskStatus, BInv
<1>10. ASSUME NEW f \in Files, CommitReplyLost(f) PROVE FALSE
  BY <1>10 DEF CommitReplyLost, Event, Calm
<1>7. ASSUME NEW f \in Files, Reset(f) PROVE Goal
  <2>1. status[f] \in {"pending", "processing", "deleted"} /\ pc'[f] # pc[f]
    BY <1>7 DEF Reset, Goto, CalmInv, TaskStatus
  <2> QED BY <1>7, <2>1 DEF Reset, Allowed, OnlyOwn
<1>8. ASSUME NEW f \in Files, FailFile(f) PROVE Goal
  BY <1>8 DEF FailFile, Goto, Allowed, OnlyOwn
<1>9. ASSUME NEW p \in Sweepers, SweepCommit(p) PROVE Goal
  <2>1. CASE p = App
    <3>1. app = "sweeping"
      BY <1>9, <2>1 DEF SweepCommit, SweepPhase
    <3>2. \A f \in Files : status[f] = "absent"
      BY <3>1 DEF CalmInv
    <3>3. UNCHANGED status
      BY <1>9, <3>2 DEF SweepCommit
    <3> QED BY <3>3, <1>1
  <2>2. CASE p # App
    <3>1. p \in Workers /\ wpc[p] = "sweeping"
      BY <1>9, <2>2 DEF SweepCommit, SweepPhase, Sweepers
    <3>2. \A f \in Files : pc[f] = "none"
      BY <3>1, SweepsAlone DEF Looping
    <3>3. \A f \in dead[p] : status[f] # "indexed"
      BY <3>1 DEF CalmInv
    <3>4. \A f \in Files : \/ status'[f] = status[f]
                           \/ f \in dead[p] /\ status[f] \in Row /\ status'[f] = "failed"
      BY <1>9 DEF SweepCommit
    <3> QED BY <3>2, <3>3, <3>4 DEF Allowed, OnlyOwn
  <2> QED BY <2>1, <2>2
<1> QED BY StatusWriters, <1>1, <1>2, <1>3, <1>4, <1>5, <1>6, <1>7, <1>8, <1>9, <1>10

LEMMA CalmStep == OneWorker /\ TInv /\ HInv /\ BInv /\ CalmInv /\ [Next]_vars => CalmInv'
<1> SUFFICES ASSUME OneWorker, TInv, HInv, BInv, CalmInv, [Next]_vars, Calm' PROVE CalmInv'
  BY DEF CalmInv
<1>0. Calm /\ \A f \in Files : Allowed(f)
  BY CalmFirst, CalmWrites
<1>1. TaskStatus'
  BY <1>0, CalmWrites, TaskStatusStep DEF CalmInv, Calm
<1>2. ASSUME app' # "up", NEW f \in Files PROVE status'[f] = "absent"
  <2>1. ~AppCrash
    BY DEF AppCrash, Event, Calm
  <2>2. app # "up"
    BY <1>2, <2>1, RequestWriters DEF TInv
  <2>3. status[f] = "absent" /\ ~(UploadCommit(f) \/ UploadReplyLost(f))
    BY <1>0, <2>2 DEF CalmInv, UploadCommit, UploadReplyLost
  <2>4. \A g \in Files : status[g] = "absent"
    BY <1>0, <2>2 DEF CalmInv
  <2>5. ~ \E g \in Files : UploadCommit(g) \/ UploadReplyLost(g) \/ UploadMarkFailed(g) \/ DeleteRow(g)
    BY <2>2, <2>4 DEF UploadCommit, UploadReplyLost, UploadMarkFailed, UploadMarkFails, DeleteRow,
        BInv, Row, Transient
  <2>6. ~ \E g \in Files : Mark(g) \/ Commit(g) \/ CommitReplyLost(g) \/ Reset(g) \/ FailFile(g)
    BY <2>4 DEF Mark, Commit, CommitReplyLost, Reset, FailFile, HInv
  <2>7. (\E p \in Sweepers : SweepCommit(p)) => UNCHANGED status
    BY <2>4 DEF SweepCommit, Row, Transient, TInv, TypeOK
  <2> QED BY <2>3, <2>5, <2>6, <2>7, StatusWriters
<1>3. ASSUME NEW f \in Files, upl'[f] = "markfailed" PROVE ~Placed(f)'
  <2>1. ~UploadCommit(f) /\ ~UploadReplyLost(f)
    <3>1. ~UploadCommit(f)
      BY <1>3 DEF UploadCommit, TInv, TypeOK
    <3>2. ~UploadReplyLost(f)
      BY DEF UploadReplyLost, Event, Calm
    <3> QED BY <3>1, <3>2
  <2>2. CASE upl[f] = "markfailed"
    <3>1. ~Placed(f)
      BY <1>0, <2>2 DEF CalmInv
    <3> QED BY <2>2, <3>1, NewPlace
  <2>3. CASE UploadEnqueueFails(f)
    <3>1. /\ upl[f] = "enqueue"
          /\ UNCHANGED <<queue, wpc, cur, pc>>
      BY <2>3 DEF UploadEnqueueFails, Event, Calm, redis, loopVars, taskVars
    <3>2. ~Placed(f)
      BY <3>1 DEF Placed, HInv, Carries
    <3> QED BY <3>1, <3>2 DEF Placed, Carries
  <2> QED BY <1>3, <2>1, <2>2, <2>3, RequestWriters DEF TInv
<1>4. ASSUME NEW f \in Files, upl'[f] # "none"
      PROVE  status'[f] \in {"pending", "failed", "deleted"}
  <2>1. CASE UploadCommit(f) \/ UploadReplyLost(f)
    BY <2>1 DEF UploadCommit, UploadReplyLost, TInv, TypeOK
  <2>2. CASE ~(UploadCommit(f) \/ UploadReplyLost(f))
    <3>1. upl[f] # "none"
      BY <1>4, <2>2, RequestWriters DEF TInv, UploadEnqueueFails
    <3>2. status[f] \in {"pending", "failed", "deleted"} /\ pc[f] = "none"
      BY <1>0, <3>1 DEF CalmInv, HInv, Placed, TInv, TypeOK
    <3>3. status'[f] # "processing"
      <4>1. \A g \in Files : ~UploadReplyLost(g) /\ ~CommitReplyLost(g)
        BY ReplyLost DEF Calm
      <4> QED BY <3>2, <4>1, StatusWriters DEF UploadCommit, UploadMarkFailed, DeleteRow, Mark,
          Commit,
         Reset, FailFile, SweepCommit, TInv, TypeOK
    <3> QED BY <1>0, <3>2, <3>3 DEF Allowed, Row, Transient
  <2> QED BY <2>1, <2>2
<1>5. ASSUME NEW w \in Workers, wpc'[w] = "sweeping", NEW f \in todo'[w] \cup dead'[w]
      PROVE  status'[f] # "indexed"
  <2>1. w \in Sweepers /\ SweepPhase(w) = wpc[w] /\ SweepPhase(w)' = wpc'[w]
    BY IndexingAssumption DEF Sweepers, SweepPhase
  <2>2. CASE wpc[w] = "sweeping" /\ todo'[w] \cup dead'[w] \subseteq todo[w] \cup dead[w]
    <3>1. status[f] # "indexed" /\ f \in Files
      BY <1>0, <1>5, <2>1, <2>2 DEF CalmInv, TInv, TypeOK
    <3>2. pc[f] = "none"
      BY <2>2, <3>1, SweepsAlone DEF Looping
    <3> QED BY <3>1, <3>2, CalmWrites
  <2>3. CASE wpc[w] = "down" /\ todo'[w] = TransientFiles /\ dead'[w] = dead[w] /\ UNCHANGED status
    <3>1. dead[w] = {}
      BY <2>1, <2>3 DEF BInv, SweepInv
    <3> QED BY <1>5, <2>3, <3>1 DEF TransientFiles, Transient
  <2> QED BY <1>5, <2>1, <2>2, <2>3, SweepSets DEF TInv
<1> QED BY <1>0, <1>1, <1>2, <1>3, <1>4, <1>5 DEF CalmInv

\* A step that is not calm: files appear by upload, go by delete, and a row that
\* stays is given some status.
LEMMA StaleRefines ==
  ASSUME TInv, HInv, BInv, [Next]_vars, ~Calm' PROVE Life!Next
<1> USE DEF TInv, TypeOK, Row, Transient, Life!Row
<1>1. \A f \in Files : UploadCommit(f) \/ UploadReplyLost(f) => Life!Upload(f)
  BY DEF UploadCommit, UploadReplyLost, Life!Upload, Life!Move
<1>2. \A f \in Files : DeleteRow(f) => Life!Delete(f)
  BY DEF DeleteRow, Life!Delete, Life!Move, BInv
<1>3. ASSUME \A f \in Files : status'[f] = status[f] \/ (status[f] \in Row /\ status'[f] \in Row)
      PROVE  Life!Overwrite({f \in Files : status'[f] # status[f]})
  BY <1>3 DEF Life!Overwrite
<1>4. ASSUME NEW f \in Files,
             \/ UploadMarkFailed(f) \/ Mark(f) \/ Commit(f) \/ CommitReplyLost(f) \/ Reset(f)
             \/ FailFile(f)
      PROVE  \A g \in Files : status'[g] = status[g] \/ (status[g] \in Row /\ status'[g] \in Row)
  <2>1. CASE Commit(f) \/ CommitReplyLost(f)
    BY <2>1 DEF Commit, CommitReplyLost, BInv
  <2> QED BY <1>4, <2>1 DEF UploadMarkFailed, Mark, Reset, FailFile
<1>5. ASSUME NEW p \in Sweepers, SweepCommit(p)
      PROVE  \A g \in Files : status'[g] = status[g] \/ (status[g] \in Row /\ status'[g] \in Row)
  BY <1>5 DEF SweepCommit
<1>6. \/ \E f \in Files : UploadCommit(f) \/ UploadReplyLost(f) \/ DeleteRow(f)
      \/ \A g \in Files : status'[g] = status[g] \/ (status[g] \in Row /\ status'[g] \in Row)
  BY <1>4, <1>5, StatusWriters
<1>7. {f \in Files : status'[f] # status[f]} \in SUBSET Files
  OBVIOUS
<1> QED BY <1>1, <1>2, <1>3, <1>6, <1>7 DEF Life!Next

\* A calm step: one step of FileLifecycle per writer.
LEMMA CalmRefines ==
  ASSUME OneWorker, TInv, HInv, BInv, CalmInv, [Next]_vars, Calm'
  PROVE  Life!Next \/ UNCHANGED <<status, Calm>>
<1>0. Calm /\ (Calm' <=> Calm) /\ \A f \in Files : Allowed(f)
  BY CalmFirst, CalmWrites
<1>s. UNCHANGED status => UNCHANGED <<status, Calm>>
  <2>1. Calm' = Calm
    BY <1>0 DEF Calm
  <2> QED BY <2>1
<1> DEFINE Goal == Life!Next \/ UNCHANGED <<status, Calm>>
<1> USE DEF TInv, TypeOK, Row, Transient, Life!Row, Life!Move
<1>f. ASSUME NEW F \in SUBSET Files, Life!Fail(F) PROVE Life!Next
  BY <1>0, <1>f DEF Life!Next
<1>1. ASSUME NEW f \in Files, UploadCommit(f) \/ UploadReplyLost(f) PROVE Goal
  <2>1. Life!Upload(f)
    BY <1>1 DEF UploadCommit, UploadReplyLost, Life!Upload
  <2> QED BY <1>0, <2>1 DEF Life!Next
<1>2. ASSUME NEW f \in Files, DeleteRow(f) PROVE Goal
  <2>1. Life!Delete(f)
    BY <1>2 DEF DeleteRow, Life!Delete, BInv
  <2> QED BY <1>0, <2>1 DEF Life!Next
<1>3. ASSUME NEW f \in Files, UploadMarkFailed(f) \/ FailFile(f) PROVE Goal
  <2>1. \/ UNCHANGED status
        \/ status[f] \in Row /\ status' = [status EXCEPT ![f] = "failed"]
    BY <1>3 DEF UploadMarkFailed, UploadMarkFails, FailFile
  <2>2. CASE status[f] \in Transient /\ status' = [status EXCEPT ![f] = "failed"]
    <3>1. Life!Fail({f})
      BY <2>2 DEF Life!Fail
    <3> QED BY <3>1, <1>f
  <2>3. CASE status[f] = "failed" /\ status' = [status EXCEPT ![f] = "failed"]
    <3>1. UNCHANGED status
      BY <2>3
    <3> QED BY <3>1, <1>s
  <2> QED BY <1>0, <1>s, <2>1, <2>2, <2>3 DEF Allowed
<1>4. ASSUME NEW f \in Files, Mark(f) PROVE Goal
  <2>1. Life!Process(f) \/ UNCHANGED status
    BY <1>0, <1>4 DEF Mark, CalmInv, TaskStatus, Life!Process
  <2> QED BY <1>0, <1>s, <2>1 DEF Life!Next
<1>5. ASSUME NEW f \in Files, Commit(f) \/ CommitReplyLost(f) PROVE Goal
  <2>1. Life!Index(f)
    BY <1>0, <1>5 DEF Commit, CommitReplyLost, Event, Calm, CalmInv, TaskStatus, Attempting, BInv,
        Life!Index
  <2> QED BY <1>0, <2>1 DEF Life!Next
<1>6. ASSUME NEW f \in Files, Reset(f) PROVE Goal
  <2>1. status[f] \in {"pending", "processing", "deleted"}
    BY <1>0, <1>6 DEF Reset, CalmInv, TaskStatus
  <2>2. CASE status[f] = "deleted"
    BY <1>6, <1>s, <2>2 DEF Reset
  <2>3. CASE status[f] = "processing" /\ retry[f]
    <3>1. Life!Retry(f)
      BY <1>6, <2>3 DEF Reset, Life!Retry
    <3> QED BY <1>0, <3>1 DEF Life!Next
  <2>4. CASE status[f] \in Transient /\ ~retry[f]
    <3>1. Life!Fail({f})
      BY <1>6, <2>4 DEF Reset, Life!Fail
    <3> QED BY <3>1, <1>f
  <2>5. CASE status[f] = "pending" /\ retry[f]
    <3>1. UNCHANGED status
      BY <1>6, <2>5 DEF Reset
    <3> QED BY <3>1, <1>s
  <2> QED BY <2>1, <2>2, <2>3, <2>4, <2>5
<1>7. ASSUME NEW p \in Sweepers, SweepCommit(p) PROVE Goal
  <2> DEFINE F == {f \in Files : f \in dead[p] /\ status[f] \in Transient}
  <2>1. \A f \in Files : f \notin F => status'[f] = status[f]
    BY <1>0, <1>7 DEF SweepCommit, Allowed
  <2>2. \A f \in F : status'[f] = "failed"
    BY <1>7 DEF SweepCommit
  <2>3. status' = [f \in Files |-> status'[f]]
    BY <1>7 DEF SweepCommit
  <2>4. Life!Fail(F)
    BY <2>1, <2>2, <2>3 DEF Life!Fail
  <2> QED BY <2>4, <1>f
<1> QED BY <1>s, <1>1, <1>2, <1>3, <1>4, <1>5, <1>6, <1>7, StatusWriters

\* With the one worker of docker-compose.yml, the protocol implements FileLifecycle: no
\* handler, sweep, retry, requeue or restart takes a file's status along any transition
\* but those that API clients are promised.
THEOREM LifecycleKept == OneWorker => (Spec => Lifecycle)
<1> SUFFICES ASSUME OneWorker PROVE Spec => Lifecycle
  OBVIOUS
<1>1. Init => CalmInv
  BY DEF Init, CalmInv, TaskStatus, Attempting
<1>2. TInv /\ HInv /\ BInv /\ CalmInv /\ [Next]_vars => CalmInv'
  BY CalmStep
<1>3. Spec => [](TInv /\ HInv /\ BInv /\ CalmInv)
  BY <1>1, <1>2, BaseInvariance, PTL DEF Spec
<1>4. Init => Life!Init
  <2>1. Init => Calm = TRUE
    BY DEF Init, Calm
  <2> QED BY <2>1 DEF Init, Life!Init
<1>5. TInv /\ HInv /\ BInv /\ CalmInv /\ [Next]_vars => [Life!Next]_<<status, Calm>>
  BY StaleRefines, CalmRefines
<1> QED BY <1>3, <1>4, <1>5, PTL DEF Spec, Lifecycle, Life!Spec

-----------------------------------------------------------------------------
(* The sweeps and the running tasks.                                        *)

\* While Redis answers and no heartbeat has failed, the job record of a file that
\* is still transient says where its job is.
Truthful(f) ==
    /\ OnList(queue, f) => meta[f] = "queued"
    /\ pc[f] # "none" => meta[f] \in {"queued", "running"}
    /\ \A w \in Workers : Carries(w, f) =>
          meta[f] = "queued" \/ (wpc[w] = "requeue" /\ meta[f] = "running")

Quiet == seen \cap {"redis", "redis_holding_queued", "redis_reply_lost", "heartbeat",
                    "db_reply_lost"} = {}

\* So the app's sweep finds dead only what nobody works on, and nobody takes it up
\* before the sweep has committed; and a report is about files already failed.
QuietInv == Quiet =>
    /\ TaskStatus
    /\ \A f \in Files :
          /\ pc[f] \in {"returned", "succeed", "golden"} => status[f] \notin Transient
          /\ status[f] \in Transient => Truthful(f)
    /\ \A p \in Sweepers : SweepPhase(p) = "reporting" =>
          \A f \in dead[p] : status[f] \notin Transient
    /\ app = "sweeping" => \A f \in dead[App] : status[f] \in Transient => ~Placed(f)

\* A file is found dead by a check of that sweep, and reported after its commit.
LEMMA SweepWriters ==
  ASSUME TypeOK, [Next]_vars, NEW p \in Sweepers
  PROVE  /\ \A f \in Files : f \in dead'[p] =>
                f \in dead[p] \/ SweepCheck(p, f) \/ SweepCheckFails(p, f)
         /\ SweepPhase(p)' = "reporting" =>
                SweepPhase(p) = "reporting" \/ SweepCommit(p) \/ SweepCommitFails(p)
<1> DEFINE Goal == /\ \A f \in Files : f \in dead'[p] =>
                          f \in dead[p] \/ SweepCheck(p, f) \/ SweepCheckFails(p, f)
                   /\ SweepPhase(p)' = "reporting" =>
                          SweepPhase(p) = "reporting" \/ SweepCommit(p) \/ SweepCommitFails(p)
<1> USE IndexingAssumption
    DEF TypeOK, appVars, loopVars, sweepVars, SetLoop, SweepPhase, Sweepers
<1>1. ASSUME NEW f \in Files, TaskStep(f) \/ Timeout(f) PROVE Goal
  <2>1. UNCHANGED <<app, todo, dead>> /\ (wpc' = wpc \/ wpc' = [wpc EXCEPT ![owner[f]] = "idle"])
    BY <1>1 DEF TaskStep, JobStart, Lookup, Mark, Prep, PrepRaises, EarlyDbRaises, Persist, Upsert,
      UpsertRaises, Commit, CommitRaises, CommitReplyLost, Cleanup, Reset, ResetRaises, Return,
      FailFile,
      FailFileClean, JobSucceeds, JobReturns, JobStatusRaises, JobFails, EndTask, TaskOnly, Timeout
  <2> QED BY <2>1
<1>2. ASSUME NEW f \in Files, UserStep(f) \/ RequestStep(f) PROVE Goal
  BY <1>2 DEF UserStep, UploadCommit, UploadReplyLost, DeleteStart, RequestStep, UploadEnqueue,
      UploadMarkFailed, UploadMarkFails, DeleteVectors, Unlink, DeleteRow
<1>3. ASSUME NEW w \in Workers, LoopStep(w) PROVE Goal
  BY <1>3 DEF LoopStep, WorkerStart, Pop, Dispatch, RequeueStatus, RequeuePush,
              LoopEnds, LeaveLoop, WorkerExits
<1>4. ASSUME NEW q \in Sweepers,
             SweepStep(q) \/ SweepCommitFails(q) \/ \E f \in Files : SweepCheckFails(q, f)
      PROVE Goal
  <2>1. ASSUME NEW f \in Files, SweepCheck(q, f) \/ SweepCheckFails(q, f) PROVE Goal
    <3>1. UNCHANGED <<app, wpc>> /\ \A g \in Files : g \in dead'[p] => g \in dead[p] \/ (g = f /\ p = q)
      BY <2>1 DEF SweepCheck, SweepCheckFails, SweepJudge
    <3> QED BY <2>1, <3>1
  <2>2. ASSUME NEW f \in Files, SweepReport(q, f) PROVE Goal
    BY <2>2 DEF SweepReport
  <2>3. CASE SweepCommit(q) \/ SweepCommitFails(q)
    <3>1. \A g \in Files : g \in dead'[p] => g \in dead[p]
      BY <2>3 DEF SweepCommit, SweepCommitFails
    <3>2. SweepPhase(p)' = "reporting" => SweepPhase(p) = "reporting" \/ p = q
      BY <2>3 DEF SweepCommit, SweepCommitFails, SetSweepPhase
    <3> QED BY <2>3, <3>1, <3>2
  <2>4. CASE SweepEnd(q)
    BY <2>4 DEF SweepEnd, SetSweepPhase
  <2> QED BY <1>4, <2>1, <2>2, <2>3, <2>4 DEF SweepStep
<1>5. ASSUME NEW f \in Files,
             UploadEnqueueFails(f) \/ DeleteVectorsFails(f) \/ DeleteRowFails(f)
      PROVE Goal
  BY <1>5 DEF UploadEnqueueFails, DeleteVectorsFails, DeleteRowFails
<1>6. ASSUME NEW w \in Workers,
             \/ DispatchFails(w) \/ Terminate(w) \/ WorkerCrash(w) \/ HeartbeatFails(w)
             \/ LoopRaises(w)
      PROVE Goal
  BY <1>6 DEF DispatchFails, Terminate, WorkerCrash, HeartbeatFails, LoopRaises, LeaveLoop
<1>7. CASE AppStart \/ AppCrash \/ HeartbeatExpires
  BY <1>7 DEF AppStart, AppCrash, HeartbeatExpires
<1>8. CASE (\E z \in zombies : ZombieEnds(z)) \/ UNCHANGED vars
  BY <1>8 DEF ZombieEnds, vars
<1> QED BY <1>1, <1>2, <1>3, <1>4, <1>5, <1>6, <1>7, <1>8 DEF Next, Disturbance

LEMMA QuietFirst == Quiet' /\ [Next]_vars => Quiet
BY SeenGrows DEF Quiet

\* A file becomes transient only by its upload; and a file that a running attempt
\* has found transient is written by nobody else.
LEMMA QuietWrites ==
  ASSUME OneWorker, TInv, HInv, BInv, QuietInv, [Next]_vars, Quiet'
  PROVE  /\ \A f \in Files : status'[f] \in Transient =>
                status[f] \in Transient \/ status[f] = "absent"
         /\ OnlyOwn
         /\ \A f \in Files : status[f] \in Transient /\ status'[f] = "failed" /\ pc[f] # "none" =>
                pc'[f] # pc[f]
<1>0. Quiet
  BY QuietFirst
<1> DEFINE Goal == /\ \A f \in Files : status'[f] \in Transient =>
                          status[f] \in Transient \/ status[f] = "absent"
                   /\ OnlyOwn
                   /\ \A f \in Files : status[f] \in Transient /\ status'[f] = "failed" /\ pc[f] # "none" =>
                          pc'[f] # pc[f]
<1> USE <1>0 DEF TInv, TypeOK, Row, Transient, Attempting
<1>1. CASE UNCHANGED status
  BY <1>1 DEF OnlyOwn
<1>2. ASSUME NEW f \in Files, UploadCommit(f) \/ UploadReplyLost(f) PROVE Goal
  BY <1>2 DEF UploadCommit, UploadReplyLost, OnlyOwn, HInv
<1>3. ASSUME NEW f \in Files, UploadMarkFailed(f) PROVE FALSE
  BY <1>3 DEF UploadMarkFailed, UploadMarkFails, BInv, Quiet
<1>4. ASSUME NEW f \in Files, DeleteRow(f) PROVE Goal
  BY <1>4 DEF DeleteRow, OnlyOwn
<1>5. ASSUME NEW f \in Files, Mark(f) PROVE Goal
  BY <1>5 DEF Mark, Goto, OnlyOwn, QuietInv, TaskStatus
<1>6. ASSUME NEW f \in Files, Commit(f) \/ CommitReplyLost(f) PROVE Goal
  BY <1>6 DEF Commit, CommitReplyLost, Event, Quiet, Goto, OnlyOwn
<1>7. ASSUME NEW f \in Files, Reset(f) PROVE Goal
  <2>1. status[f] \in {"pending", "processing", "deleted"} /\ pc'[f] # pc[f]
    BY <1>7 DEF Reset, Goto, QuietInv, TaskStatus
  <2> QED BY <1>7, <2>1 DEF Reset, OnlyOwn
<1>8. ASSUME NEW f \in Files, FailFile(f) PROVE Goal
  BY <1>8 DEF FailFile, Goto, OnlyOwn
<1>9. ASSUME NEW p \in Sweepers, SweepCommit(p) PROVE Goal
  <2>1. \A f \in Files : \/ status'[f] = status[f]
                         \/ f \in dead[p] /\ status[f] \in Row /\ status'[f] = "failed"
    BY <1>9 DEF SweepCommit
  <2>2. CASE p = App
    <3>1. app = "sweeping"
      BY <1>9, <2>2 DEF SweepCommit, SweepPhase
    <3>2. \A f \in dead[p] : status[f] \in Transient => pc[f] = "none"
      BY <2>2, <3>1 DEF QuietInv, Placed
    <3>3. \A f \in Files : pc[f] \in {"mark", "reset"} \cup Attempting => status[f] \in Transient \cup {"deleted"}
      BY DEF QuietInv, TaskStatus
    <3> QED BY <2>1, <3>2, <3>3 DEF OnlyOwn
  <2>3. CASE p # App
    <3>1. p \in Workers /\ wpc[p] = "sweeping"
      BY <1>9, <2>3 DEF SweepCommit, SweepPhase, Sweepers
    <3>2. \A f \in Files : pc[f] = "none"
      BY <3>1, SweepsAlone DEF Looping
    <3> QED BY <2>1, <3>2 DEF OnlyOwn
  <2> QED BY <2>2, <2>3
<1> QED BY StatusWriters, <1>1, <1>2, <1>3, <1>4, <1>5, <1>6, <1>7, <1>8, <1>9

\* An attempt that is over has left the file with a final status.
LEMMA ReturnedStep ==
  ASSUME OneWorker, TInv, HInv, BInv, QuietInv, [Next]_vars, Quiet', NEW f \in Files,
         pc'[f] \in {"returned", "succeed", "golden"}
  PROVE  status'[f] \notin Transient
<1>0. Quiet /\ pc'[f] # "none"
  BY QuietFirst
<1>1. CASE pc'[f] = pc[f]
  <2>1. status[f] \notin Transient /\ status[f] # "absent"
    BY <1>0, <1>1 DEF QuietInv, HInv
  <2> QED BY <2>1, QuietWrites
<1>2. CASE pc'[f] # pc[f]
  <2> USE <1>0, <1>2
      DEF TInv, TypeOK, db, taskVars, Goto, Raise, TaskOnly, Row, Transient
  <2>1. ASSUME NEW g \in Files, TaskStep(g) PROVE status'[f] \notin Transient
    <3>1. CASE Lookup(g)
      BY <3>1 DEF Lookup
    <3>2. CASE Mark(g)
      BY <3>2 DEF Mark
    <3>3. CASE Commit(g)
      BY <3>3 DEF Commit
    <3>4. CASE Reset(g)
      <4>1. g = f /\ ~retry[f]
        BY <3>4 DEF Reset
      <4> QED BY <3>4, <4>1 DEF Reset
    <3>5. CASE Return(g) \/ JobSucceeds(g)
      BY <3>5 DEF Return, JobSucceeds, QuietInv
    <3>6. CASE \/ JobStart(g) \/ Prep(g) \/ PrepRaises(g) \/ EarlyDbRaises(g) \/ Persist(g) \/ Upsert(g)
               \/ UpsertRaises(g) \/ CommitRaises(g) \/ CommitReplyLost(g) \/ Cleanup(g) \/ ResetRaises(g)
      BY <3>6 DEF JobStart, Prep, PrepRaises, EarlyDbRaises, Persist, Upsert, UpsertRaises,
          CommitRaises, CommitReplyLost,
          Cleanup, ResetRaises
    <3>7. CASE \/ FailFile(g) \/ FailFileClean(g) \/ JobReturns(g) \/ JobStatusRaises(g)
               \/ JobFails(g)
      BY <3>7 DEF FailFile, FailFileClean, JobReturns, JobStatusRaises, JobFails, EndTask
    <3> QED BY <2>1, <3>1, <3>2, <3>3, <3>4, <3>5, <3>6, <3>7 DEF TaskStep
  <2>2. ASSUME NEW w \in Workers,
               \/ WorkerStart(w) \/ Pop(w) \/ Dispatch(w) \/ RequeueStatus(w) \/ RequeuePush(w)
               \/ LoopEnds(w) \/ WorkerExits(w) \/ DispatchFails(w) \/ Terminate(w)
               \/ WorkerCrash(w) \/ HeartbeatFails(w) \/ LoopRaises(w)
        PROVE FALSE
    BY <2>2 DEF WorkerStart, Pop, Dispatch, RequeueStatus, RequeuePush, LoopEnds, LeaveLoop,
        WorkerExits, DispatchFails, Terminate, WorkerCrash, HeartbeatFails, LoopRaises
  <2>3. ASSUME NEW g \in Files,
               \/ UserStep(g) \/ RequestStep(g) \/ UploadEnqueueFails(g) \/ DeleteVectorsFails(g)
               \/ DeleteRowFails(g) \/ Timeout(g)
        PROVE FALSE
    BY <2>3 DEF UserStep, UploadCommit, UploadReplyLost, DeleteStart, RequestStep, UploadEnqueue,
        UploadMarkFailed, UploadMarkFails, DeleteVectors, Unlink, DeleteRow, UploadEnqueueFails,
        DeleteVectorsFails,
        DeleteRowFails, Timeout
  <2>4. ASSUME NEW p \in Sweepers,
               SweepStep(p) \/ SweepCommitFails(p) \/ \E g \in Files : SweepCheckFails(p, g)
        PROVE FALSE
    BY <2>4 DEF SweepStep, SweepCheck, SweepReport, SweepCommit, SweepEnd, SweepCommitFails,
        SweepCheckFails
  <2>5. CASE \/ AppStart \/ AppCrash \/ HeartbeatExpires \/ (\E z \in zombies : ZombieEnds(z))
             \/ UNCHANGED vars
    BY <2>5 DEF AppStart, AppCrash, HeartbeatExpires, ZombieEnds, vars
  <2> QED BY <2>1, <2>2, <2>3, <2>4, <2>5 DEF Next, Disturbance, LoopStep
<1> QED BY <1>1, <1>2

\* The job record of a transient file stays true.
LEMMA TruthfulStep ==
  ASSUME OneWorker, TInv, HInv, BInv, QuietInv, [Next]_vars, Quiet', NEW f \in Files,
         status'[f] \in Transient
  PROVE  Truthful(f)'
<1>0. \A w \in Workers : wpc[w] \in InHand => cur[w] \in Files
  BY DEF TInv, TypeOK, Holding
<1>n. Quiet
  BY QuietFirst
<1>t. /\ Truthful(f)
      /\ pc[f] \notin {"returned", "succeed", "golden"}
      /\ \A p \in Sweepers : SweepPhase(p) = "reporting" => f \notin dead[p]
      /\ OnList(queue, f) => pc[f] = "none" /\ \A w \in Workers : ~Carries(w, f)
      /\ \A v, w \in Workers : Carries(v, f) /\ Carries(w, f) => v = w
      /\ \A w \in Workers : Carries(w, f) => pc[f] = "none"
  <2>1. status[f] \in Transient \/ status[f] = "absent"
    BY QuietWrites
  <2>2. /\ OnList(queue, f) => pc[f] = "none" /\ \A w \in Workers : ~Carries(w, f)
        /\ \A w \in Workers : Carries(w, f) => pc[f] = "none"
        /\ \A v, w \in Workers : Carries(v, f) /\ Carries(w, f) => v = w
    BY DEF HInv, Carries
  <2>3. CASE status[f] \in Transient
    BY <1>n, <2>2, <2>3 DEF QuietInv
  <2>4. CASE status[f] = "absent"
    <3>1. ~OnList(queue, f) /\ pc[f] = "none" /\ \A w \in Workers : ~Carries(w, f)
      BY <2>4 DEF HInv, Carries
    <3>2. \A p \in Sweepers : f \notin dead[p]
      BY <2>4 DEF BInv, SweepInv
    <3> QED BY <2>2, <3>1, <3>2 DEF Truthful
  <2> QED BY <2>1, <2>3, <2>4
<1>q. ASSUME meta'[f] = meta[f],
             OnList(queue', f) => OnList(queue, f),
             pc'[f] # "none" => pc[f] # "none",
             \A w \in Workers : Carries(w, f)' => Carries(w, f) /\ wpc'[w] = wpc[w]
      PROVE  Truthful(f)'
  BY <1>q, <1>t DEF Truthful
<1>e. ASSUME pc'[f] = "none", ~OnList(queue', f), \A w \in Workers : ~Carries(w, f)'
      PROVE  Truthful(f)'
  BY <1>e DEF Truthful
<1> USE <1>0, IndexingAssumption
    DEF TInv, TypeOK, InHand, Carrying, redis, appVars, loopVars, taskVars, SetLoop
<1>1. ASSUME NEW g \in Files, UserStep(g) \/ RequestStep(g) PROVE Truthful(f)'
  <2>1. CASE UploadEnqueue(g)
    <3>1. CASE g = f
      BY <2>1, <3>1 DEF UploadEnqueue, Enqueue, Truthful
    <3>2. CASE g # f
      <4>1. OnList(queue', f) => OnList(queue, f)
        BY <2>1, <3>2 DEF UploadEnqueue, Enqueue, OnList
      <4>2. meta'[f] = meta[f]
        BY <2>1, <3>2 DEF UploadEnqueue, Enqueue
      <4> QED BY <1>q, <2>1, <4>1, <4>2 DEF UploadEnqueue, Carries
    <3> QED BY <3>1, <3>2
  <2>2. CASE \/ UploadCommit(g) \/ UploadReplyLost(g) \/ DeleteStart(g) \/ UploadMarkFailed(g)
             \/ UploadMarkFails(g) \/ DeleteVectors(g) \/ Unlink(g) \/ DeleteRow(g)
    BY <1>q, <2>2 DEF UploadCommit, UploadReplyLost, DeleteStart, UploadMarkFailed,
        UploadMarkFails, DeleteVectors, Unlink, DeleteRow,
        Carries
  <2> QED BY <1>1, <2>1, <2>2 DEF UserStep, RequestStep
<1>2. ASSUME NEW g \in Files, UploadEnqueueFails(g) PROVE FALSE
  BY <1>2 DEF UploadEnqueueFails, Event, Quiet
<1>3. ASSUME NEW g \in Files, TaskStep(g) \/ Timeout(g) PROVE Truthful(f)'
  <2> USE DEF Goto, TaskOnly, Raise
  <2>1. CASE JobReturns(g) \/ JobFails(g)
    <3>1. EndTask(g, Awaited(g)) /\ pc[g] # "none"
      BY <2>1 DEF JobReturns, JobFails
    <3>2. queue' = queue /\ \A w \in Workers : Carries(w, f)' => Carries(w, f) /\ wpc'[w] = wpc[w]
      BY <3>1 DEF EndTask, Carries
    <3>3. CASE g = f
      BY <1>e, <1>t, <3>1, <3>2, <3>3 DEF EndTask
    <3>4. CASE g # f
      BY <1>q, <2>1, <3>1, <3>2, <3>4 DEF EndTask, JobReturns, JobFails
    <3> QED BY <3>3, <3>4
  <2>2. CASE JobStart(g)
    <3>1. CASE g = f
      BY <1>t, <2>2, <3>1 DEF JobStart, Truthful, Carries
    <3>2. CASE g # f
      BY <1>q, <2>2, <3>2 DEF JobStart, Carries
    <3> QED BY <3>1, <3>2
  <2>3. CASE JobSucceeds(g)
    <3>1. g # f
      BY <1>t, <2>3 DEF JobSucceeds
    <3> QED BY <1>q, <2>3, <3>1 DEF JobSucceeds, Carries
  <2>4. CASE \/ Lookup(g) \/ Mark(g) \/ Prep(g) \/ PrepRaises(g) \/ EarlyDbRaises(g) \/ Persist(g)
             \/ Upsert(g) \/ UpsertRaises(g) \/ Commit(g) \/ CommitRaises(g) \/ CommitReplyLost(g)
    BY <1>q, <2>4 DEF Lookup, Mark, Prep, PrepRaises, EarlyDbRaises, Persist, Upsert,
        UpsertRaises, Commit,
        CommitRaises, CommitReplyLost, Carries
  <2>5. CASE \/ Cleanup(g) \/ Reset(g) \/ ResetRaises(g) \/ Return(g) \/ FailFile(g)
             \/ FailFileClean(g) \/ Timeout(g)
    BY <1>q, <2>5 DEF Cleanup, Reset, ResetRaises, Return, FailFile, FailFileClean,
        Timeout, Attempt, Carries
  <2>6. ~JobStatusRaises(g)
    BY DEF JobStatusRaises, Event, Quiet
  <2> QED BY <1>3, <2>1, <2>2, <2>3, <2>4, <2>5, <2>6 DEF TaskStep
<1>4. ASSUME NEW w \in Workers, LoopStep(w) PROVE Truthful(f)'
  <2>1. CASE Pop(w)
    <3>1. PICK h \in Files : h = Head(queue)
      BY <2>1, ListPop DEF Pop, HInv
    <3>2. /\ OnList(queue, h) /\ \A g \in Files : OnList(queue', g) => OnList(queue, g) /\ g # h
      BY <2>1, <3>1, ListPop DEF Pop, HInv
    <3>3. UNCHANGED <<meta, pc>> /\ wpc' = [wpc EXCEPT ![w] = "popped"] /\ cur' = [cur EXCEPT ![w] = h]
      BY <2>1, <3>1 DEF Pop
    <3>4. CASE h = f
      <4>1. meta[f] = "queued" /\ pc[f] = "none"
        BY <1>t, <3>2, <3>4 DEF Truthful
      <4> QED BY <3>3, <4>1 DEF Truthful
    <3>5. CASE h # f
      <4>1. \A v \in Workers : Carries(v, f)' => Carries(v, f) /\ wpc'[v] = wpc[v]
        BY <3>3, <3>5 DEF Carries
      <4> QED BY <1>q, <3>2, <3>3, <4>1
    <3> QED BY <3>4, <3>5
  <2>2. CASE Dispatch(w)
    <3>1. PICK h \in Files : h = cur[w]
      BY <2>2 DEF Dispatch
    <3>2. /\ wpc[w] = "popped" /\ UNCHANGED <<meta, queue>>
          /\ wpc' = [wpc EXCEPT ![w] = "busy"] /\ cur' = [cur EXCEPT ![w] = h]
          /\ pc' = [pc EXCEPT ![h] = "start"]
      BY <2>2, <3>1 DEF Dispatch
    <3>3. \A v \in Workers : Carries(v, f)' => Carries(v, f) /\ wpc'[v] = wpc[v]
      BY <3>2 DEF Carries
    <3>4. CASE h = f
      <4>1. Carries(w, f)
        BY <3>1, <3>2, <3>4 DEF Carries
      <4>2. meta[f] = "queued"
        BY <1>t, <3>2, <4>1 DEF Truthful
      <4> QED BY <3>2, <4>2 DEF Truthful
    <3>5. CASE h # f
      BY <1>q, <3>2, <3>3, <3>5
    <3> QED BY <3>4, <3>5
  <2>3. CASE RequeueStatus(w)
    <3>1. CASE cur[w] = f
      <4>1. meta'[f] = "queued"
        BY <2>3, <3>1 DEF RequeueStatus
      <4> QED BY <4>1 DEF Truthful
    <3>2. CASE cur[w] # f
      <4>1. meta'[f] = meta[f] /\ UNCHANGED <<queue, pc, cur>>
        BY <2>3, <3>2 DEF RequeueStatus
      <4>2. \A v \in Workers : Carries(v, f)' => Carries(v, f) /\ wpc'[v] = wpc[v]
        BY <2>3, <3>2 DEF RequeueStatus, Carries
      <4> QED BY <1>q, <4>1, <4>2
    <3> QED BY <3>1, <3>2
  <2>4. CASE RequeuePush(w)
    <3>1. PICK h \in Files : h = cur[w]
      BY <2>4 DEF RequeuePush
    <3>2. wpc[w] = "lpush" /\ queue' = <<h>> \o queue /\ UNCHANGED meta
      BY <2>4, <3>1 DEF RequeuePush
    <3>3. \A v \in Workers : Carries(v, f)' => Carries(v, f) /\ wpc'[v] = wpc[v]
      BY <2>4 DEF RequeuePush, LeaveLoop, Carries
    <3>4. pc'[f] # "none" => pc[f] # "none"
      BY <2>4 DEF RequeuePush, LeaveLoop
    <3>5. CASE h = f
      <4>1. Carries(w, f)
        BY <3>1, <3>2, <3>5 DEF Carries
      <4>2. meta[f] = "queued"
        BY <1>t, <3>2, <4>1 DEF Truthful
      <4> QED BY <3>2, <4>2 DEF Truthful
    <3>6. CASE h # f
      <4>1. ~OnList(queue, h) /\ Distinct(queue)
        BY <3>1, <3>2 DEF HInv
      <4>2. OnList(queue', f) => OnList(queue, f)
        BY <3>2, <3>6, <4>1, ListPush
      <4> QED BY <1>q, <3>2, <3>3, <3>4, <4>2
    <3> QED BY <3>5, <3>6
  <2>5. CASE LoopEnds(w) \/ WorkerStart(w) \/ WorkerExits(w)
    BY <1>q, <2>5 DEF LoopEnds, LeaveLoop, WorkerStart, WorkerExits, Carries
  <2> QED BY <1>4, <2>1, <2>2, <2>3, <2>4, <2>5 DEF LoopStep
<1>5. ASSUME NEW w \in Workers, DispatchFails(w) \/ WorkerCrash(w) PROVE Truthful(f)'
  BY <1>q, <1>5 DEF DispatchFails, WorkerCrash, Carries
<1>6. ASSUME NEW w \in Workers, HeartbeatFails(w) \/ LoopRaises(w) PROVE FALSE
  BY <1>6, LoopRaisesFacts DEF HeartbeatFails, Event, Quiet
<1>7. ASSUME NEW w \in Workers, Terminate(w) PROVE Truthful(f)'
  <2>1. CASE wpc[w] = "busy" /\ pc[cur[w]] # "jobfail"
    <3>1. PICK h \in Files : h = cur[w]
      BY <2>1
    <3>2. /\ pc[h] # "none" /\ UNCHANGED <<meta, queue, cur>>
          /\ wpc' = [wpc EXCEPT ![w] = "requeue"] /\ pc' = [pc EXCEPT ![h] = "none"]
      BY <1>7, <2>1, <3>1 DEF Terminate, HInv
    <3>3. CASE h = f
      <4>1. meta[f] \in {"queued", "running"} /\ ~OnList(queue, f) /\ \A v \in Workers : ~Carries(v, f)
        BY <1>t, <3>2, <3>3 DEF Truthful
      <4>2. \A v \in Workers : Carries(v, f)' => wpc'[v] = "requeue"
        BY <3>2, <4>1 DEF Carries
      <4> QED BY <3>2, <3>3, <4>1, <4>2 DEF Truthful
    <3>4. CASE h # f
      <4>1. \A v \in Workers : Carries(v, f)' => Carries(v, f) /\ wpc'[v] = wpc[v]
        BY <3>1, <3>2, <3>4 DEF Carries
      <4> QED BY <1>q, <3>2, <3>4, <4>1
    <3> QED BY <3>3, <3>4
  <2>2. CASE ~(wpc[w] = "busy" /\ pc[cur[w]] # "jobfail")
    BY <1>q, <1>7, <2>2 DEF Terminate, Carries
  <2> QED BY <2>1, <2>2
<1>8. ASSUME NEW p \in Sweepers,
             SweepStep(p) \/ SweepCommitFails(p) \/ \E g \in Files : SweepCheckFails(p, g)
      PROVE Truthful(f)'
  <2>1. /\ UNCHANGED <<queue, pc>>
        /\ \A w \in Workers : Carries(w, f)' => Carries(w, f) /\ wpc'[w] = wpc[w]
    BY <1>8 DEF SweepStep, SweepCheck, SweepReport, SweepCommit, SweepEnd, SweepCommitFails,
      SweepCheckFails, SetSweepPhase, SweepPhase, Sweepers, Carries
  <2>2. meta'[f] = meta[f]
    <3>1. ASSUME NEW g \in Files, SweepReport(p, g) PROVE meta'[f] = meta[f]
      <4>1. g # f
        BY <1>t, <3>1 DEF SweepReport
      <4> QED BY <3>1, <4>1 DEF SweepReport
    <3>2. CASE UNCHANGED meta
      BY <3>2
    <3> QED BY <1>8, <3>1, <3>2 DEF SweepStep, SweepCheck, SweepCommit, SweepEnd,
        SweepCommitFails, SweepCheckFails
  <2> QED BY <1>q, <2>1, <2>2
<1>9. ASSUME NEW g \in Files, DeleteVectorsFails(g) \/ DeleteRowFails(g) PROVE Truthful(f)'
  BY <1>9, <1>q DEF DeleteVectorsFails, DeleteRowFails, Carries
<1>10. CASE AppStart \/ AppCrash \/ HeartbeatExpires
  BY <1>10, <1>q DEF AppStart, AppCrash, HeartbeatExpires, Carries
<1>11. CASE (\E z \in zombies : ZombieEnds(z)) \/ UNCHANGED vars
  BY <1>11, <1>q DEF ZombieEnds, vars, Carries
<1> QED BY <1>1, <1>2, <1>3, <1>4, <1>5, <1>6, <1>7, <1>8, <1>9, <1>10, <1>11
        DEF Next, Disturbance

LEMMA QuietStep == OneWorker /\ TInv /\ HInv /\ BInv /\ QuietInv /\ [Next]_vars => QuietInv'
<1> SUFFICES ASSUME OneWorker, TInv, HInv, BInv, QuietInv, [Next]_vars, Quiet' PROVE QuietInv'
  BY DEF QuietInv
<1>0. Quiet /\ OnlyOwn
  BY QuietFirst, QuietWrites
<1>1. TaskStatus'
  BY <1>0, TaskStatusStep DEF QuietInv, Quiet
<1>2. \A f \in Files :
         /\ pc'[f] \in {"returned", "succeed", "golden"} => status'[f] \notin Transient
         /\ status'[f] \in Transient => Truthful(f)'
  BY ReturnedStep, TruthfulStep
<1>3. ASSUME NEW p \in Sweepers, SweepPhase(p)' = "reporting", NEW f \in dead'[p]
      PROVE  status'[f] \notin Transient
  <2>0. f \in Files
    BY TypeStep DEF TInv, TypeOK
  <2>1. CASE SweepCommit(p)
    BY <1>3, <2>0, <2>1 DEF SweepCommit, Row, Transient, sweepVars
  <2>2. CASE SweepCommitFails(p)
    BY <1>3, <2>2 DEF SweepCommitFails, TInv, TypeOK
  <2>3. CASE SweepPhase(p) = "reporting"
    <3>1. todo[p] = {}
      BY <2>3 DEF BInv, SweepInv
    <3>2. f \in dead[p]
      BY <1>3, <2>0, <3>1, SweepWriters DEF TInv, SweepCheck, SweepCheckFails
    <3>3. status[f] \notin Transient /\ status[f] # "absent"
      BY <1>0, <2>3, <3>2 DEF QuietInv, BInv, SweepInv
    <3> QED BY <2>0, <3>3, QuietWrites
  <2> QED BY <1>3, <2>1, <2>2, <2>3, SweepWriters DEF TInv
<1>4. ASSUME app' = "sweeping", NEW f \in dead'[App], status'[f] \in Transient
      PROVE  ~Placed(f)'
  <2>0. App \in Sweepers /\ SweepPhase(App) = app /\ SweepPhase(App)' = app'
    BY DEF Sweepers, SweepPhase
  <2>1. f \in Files /\ app # "up"
    BY <1>4, <2>0, TypeStep, SweepSets DEF TInv, TypeOK
  <2>2. upl[f] # "enqueue"
    BY <2>1 DEF BInv
  <2> SUFFICES ~Placed(f)
    BY <2>1, <2>2, NewPlace
  <2>3. CASE f \in dead[App]
    <3>1. app = "sweeping"
      BY <1>4, <2>0, <2>3, SweepSets DEF TInv, BInv, SweepInv
    <3>2. status[f] \in Transient
      BY <1>4, <2>0, <2>1, <2>3, QuietWrites DEF BInv, SweepInv
    <3> QED BY <1>0, <2>3, <3>1, <3>2 DEF QuietInv
  <2>4. CASE SweepCheck(App, f) /\ f \notin dead[App]
    <3>1. status[f] \in Transient /\ ~JobIsLive(App, f) /\ UNCHANGED meta
      BY <1>4, <2>4 DEF SweepCheck, SweepJudge, TInv, TypeOK, db, redis
    <3>2. Truthful(f)
      BY <1>0, <2>1, <3>1 DEF QuietInv
    <3>3. meta[f] # "queued" /\ (meta[f] = "running" => ~alive)
      BY <3>1 DEF JobIsLive
    <3>4. \A w \in Workers : wpc[w] \in Looping => meta[f] # "running"
      BY <3>3 DEF BInv
    <3>5. pc[f] # "none" => \E w \in Workers : wpc[w] \in Looping
      BY <2>1 DEF BInv, TInv, TypeOK
    <3> QED BY <3>2, <3>3, <3>4, <3>5 DEF Truthful, Placed, Carries, Looping, Carrying
  <2>5. CASE SweepCheckFails(App, f)
    BY <2>5 DEF SweepCheckFails, Event, Quiet
  <2> QED BY <1>4, <2>0, <2>1, <2>3, <2>4, <2>5, SweepWriters DEF TInv
<1> QED BY <1>0, <1>1, <1>2, <1>3, <1>4 DEF QuietInv

\* With the one worker, and while Redis answers: a startup sweep of either process never
\* fails a file that a live worker is indexing, whatever has crashed before.  Proved for
\* environments in which no commit of Postgres loses its reply.
THEOREM SweepsSpareRunning ==
    OneWorker /\ "db_reply_lost" \notin Events => (Spec => SweepSparesRunning)
<1> SUFFICES ASSUME OneWorker, "db_reply_lost" \notin Events PROVE Spec => SweepSparesRunning
  OBVIOUS
<1>1. Init => QuietInv
  BY DEF Init, QuietInv, TaskStatus, Attempting, Transient
<1>2. TInv /\ HInv /\ BInv /\ QuietInv /\ [Next]_vars => QuietInv'
  BY QuietStep
<1>3. Spec => [](TInv /\ HInv /\ BInv /\ QuietInv)
  BY <1>1, <1>2, BaseInvariance, PTL DEF Spec
<1>4. TInv /\ HInv /\ BInv /\ QuietInv /\ [Next]_vars =>
        [seen' \cap {"redis", "redis_holding_queued", "redis_reply_lost", "heartbeat"} = {} =>
          \A f \in Files :
             status[f] \in Transient /\ status'[f] = "failed" /\ pc[f] # "none"
                 => pc'[f] # pc[f]]_vars
  <2>1. TInv /\ [Next]_vars => "db_reply_lost" \notin seen'
    BY TypeStep DEF TypeOK
  <2> QED BY <2>1, QuietWrites DEF Quiet
<1> QED BY <1>3, <1>4, PTL DEF Spec, SweepSparesRunning

-----------------------------------------------------------------------------
(* Stray vectors.                                                           *)

Mild == seen \subseteq {"db", "sigterm"}

\* The file has vectors, or a thread is about to write them.
Writes(f) == vec[f] \/ \E z \in zombies : z.file = f /\ z.call = "upsert"

\* Where a job is past the point at which it could still remove vectors, or has
\* found that there are none.
Past == {"reset", "jobfail", "returned", "succeed", "golden"}

\* When only Postgres fails and only signals stop the worker, a file with vectors is
\* indexed, or its job is somewhere and will come to index it or to clean up.
VecInv == Mild =>
    /\ \A f \in Files :
          /\ status[f] # "deleted" /\ del[f] = "none"
          /\ status[f] # "absent" => disk[f]
          /\ f \in Bad => ~Writes(f) /\ pc[f] \notin {"persist", "upsert", "commit", "cleanup"}
          /\ Writes(f) /\ status[f] # "indexed" =>
                status[f] \in Transient /\ Placed(f) /\ pc[f] \notin Past
    /\ \A w \in Workers : wpc[w] = "sweeping" => \A f \in dead[w] : ~Writes(f)

\* Only an upsert adds vectors, of its own thread or of one left behind.
LEMMA WritesStep ==
  ASSUME TInv, HInv, [Next]_vars, NEW f \in Files, Writes(f)'
  PROVE  Writes(f) \/ pc[f] = "upsert"
<1> DEFINE Goal == Writes(f) \/ pc[f] = "upsert"
<1>0. \A w \in Workers : wpc[w] \in InHand => cur[w] \in Files
  BY DEF TInv, TypeOK, Holding
<1>o. \A g \in Files : \A z \in Orphaned(g) :
         z.file = f /\ z.call = "upsert" => g = f /\ pc[f] = "upsert"
  BY DEF Orphaned
<1>q. ASSUME zombies' \subseteq zombies, vec'[f] => vec[f] PROVE Goal
  BY <1>q DEF Writes
<1>z. ASSUME vec'[f] => vec[f], NEW G \in SUBSET Files, NEW Z, Z \subseteq zombies,
             zombies' = Z \cup UNION {Orphaned(g) : g \in G}
      PROVE  Goal
  BY <1>o, <1>z DEF Writes
<1> USE <1>0 DEF TInv, TypeOK, InHand, store, taskVars
<1>1. ASSUME NEW g \in Files, UserStep(g) \/ RequestStep(g) PROVE Goal
  <2>1. CASE DeleteVectors(g)
    <3>1. vec'[f] => vec[f]
      BY <2>1 DEF DeleteVectors
    <3> QED BY <1>q, <2>1, <3>1 DEF DeleteVectors
  <2>2. CASE UNCHANGED <<vec, zombies>>
    BY <1>q, <2>2
  <2> QED BY <1>1, <2>1, <2>2 DEF UserStep, UploadCommit, UploadReplyLost, DeleteStart, RequestStep,
      UploadEnqueue, UploadMarkFailed, UploadMarkFails, Unlink, DeleteRow
<1>2. ASSUME NEW g \in Files, TaskStep(g) PROVE Goal
  <2>1. CASE Upsert(g) \/ UpsertRaises(g)
    <3>1. g # f => vec'[f] = vec[f]
      BY <2>1 DEF Upsert, UpsertRaises
    <3>2. pc[g] = "upsert" /\ UNCHANGED zombies
      BY <2>1 DEF Upsert, UpsertRaises, TaskOnly
    <3> QED BY <1>q, <3>1, <3>2
  <2>2. CASE Cleanup(g) \/ FailFileClean(g)
    <3>1. vec'[f] => vec[f]
      BY <2>2 DEF Cleanup, FailFileClean
    <3> QED BY <1>q, <2>2, <3>1 DEF Cleanup, FailFileClean
  <2>3. CASE UNCHANGED <<vec, zombies>>
    BY <1>q, <2>3
  <2> QED
    BY <1>2, <2>1, <2>2, <2>3
    DEF TaskStep, JobStart, Lookup, Mark, Prep, PrepRaises, EarlyDbRaises, Persist, Commit,
        CommitRaises, CommitReplyLost,
        Reset, ResetRaises, Return, FailFile, JobSucceeds, JobReturns, JobStatusRaises,
        JobFails, EndTask, TaskOnly
<1>3. ASSUME NEW w \in Workers, RequeuePush(w) \/ LoopEnds(w) \/ LoopRaises(w) PROVE Goal
  <2>1. /\ UNCHANGED vec /\ OwnTasks(w) \in SUBSET Files
        /\ zombies' = zombies \cup UNION {Orphaned(g) : g \in OwnTasks(w)}
    BY <1>3 DEF RequeuePush, LoopEnds, LoopRaises, LeaveLoop, OwnTasks
  <2> QED BY <1>z, <2>1
<1>4. ASSUME NEW w \in Workers, Terminate(w) PROVE Goal
  <2>1. CASE wpc[w] = "busy" /\ pc[cur[w]] # "jobfail"
    <3>1. UNCHANGED vec /\ cur[w] \in Files /\ zombies' = zombies \cup Orphaned(cur[w])
      BY <1>4, <2>1 DEF Terminate
    <3> QED BY <1>o, <3>1 DEF Writes
  <2>2. CASE ~(wpc[w] = "busy" /\ pc[cur[w]] # "jobfail")
    BY <1>q, <1>4, <2>2 DEF Terminate
  <2> QED BY <2>1, <2>2
<1>5. ASSUME NEW g \in Files, Timeout(g) PROVE Goal
  <2>1. UNCHANGED vec /\ zombies' = zombies \cup Orphaned(g)
    BY <1>5 DEF Timeout
  <2> QED BY <1>o, <2>1 DEF Writes
<1>6. ASSUME NEW w \in Workers, WorkerCrash(w) PROVE Goal
  BY <1>q, <1>6 DEF WorkerCrash
<1>7. ASSUME NEW z \in zombies, ZombieEnds(z) PROVE Goal
  <2>1. CASE z.file = f /\ z.call = "upsert"
    BY <2>1 DEF Writes
  <2>2. CASE ~(z.file = f /\ z.call = "upsert")
    <3>1. vec'[f] => vec[f]
      BY <1>7, <2>2 DEF ZombieEnds
    <3> QED BY <1>q, <1>7, <3>1 DEF ZombieEnds
  <2> QED BY <2>1, <2>2
<1>8. CASE UNCHANGED <<vec, zombies>>
  BY <1>q, <1>8
<1>9. ASSUME NEW w \in Workers, LoopStep(w) PROVE Goal
  BY <1>3, <1>8, <1>9 DEF LoopStep, WorkerStart, Pop, Dispatch, RequeueStatus, WorkerExits
<1>10. ASSUME NEW p \in Sweepers, SweepStep(p) PROVE Goal
  BY <1>8, <1>10 DEF SweepStep, SweepCheck, SweepReport, SweepCommit, SweepEnd
<1>11. CASE Disturbance
  <2>1. ASSUME NEW g \in Files, DeleteVectorsFails(g) PROVE Goal
    <3>1. vec'[f] => vec[f]
      BY <2>1 DEF DeleteVectorsFails
    <3> QED BY <1>q, <2>1, <3>1 DEF DeleteVectorsFails
  <2> QED BY <1>3, <1>4, <1>5, <1>6, <1>8, <1>11, <2>1 DEF Disturbance, AppCrash,
      HeartbeatExpires, UploadEnqueueFails, DeleteRowFails, DispatchFails,
      HeartbeatFails, SweepCommitFails, SweepCheckFails
<1>12. CASE AppStart \/ UNCHANGED vars
  BY <1>8, <1>12 DEF AppStart, vars
<1> QED BY <1>1, <1>2, <1>7, <1>9, <1>10, <1>11, <1>12 DEF Next

\* A job is not lost but by a fault, or by its end.
LEMMA PlaceKept ==
  ASSUME TInv, HInv, QInv, [Next]_vars, Mild', NEW f \in Files, Placed(f),
         pc[f] \notin {"golden", "jobfail"}
  PROVE  Placed(f)'
<1>0. \A w \in Workers : wpc[w] \in InHand => cur[w] \in Files
  BY DEF TInv, TypeOK, Holding
<1>a. \A g \in Files : pc[g] # "none" => Attended(g)
  BY SeenGrows DEF QInv, Mild
<1>q. ASSUME OnList(queue, f) => OnList(queue', f), pc[f] # "none" => pc'[f] # "none",
             \A w \in Workers : Carries(w, f) => Carries(w, f)'
      PROVE  Placed(f)'
  BY <1>q DEF Placed
<1> USE <1>0, IndexingAssumption
    DEF TInv, TypeOK, InHand, Carrying, redis, appVars, loopVars, taskVars, SetLoop
<1>1. ASSUME NEW g \in Files,
             \/ UserStep(g) \/ RequestStep(g) \/ DeleteVectorsFails(g) \/ DeleteRowFails(g)
      PROVE Placed(f)'
  <2>1. CASE UploadEnqueue(g)
    <3>1. OnList(queue, f) => OnList(queue', f)
      BY <2>1, ListKeeps DEF UploadEnqueue, Enqueue
    <3> QED BY <1>q, <2>1, <3>1 DEF UploadEnqueue, Carries
  <2>2. CASE UNCHANGED <<queue, pc, wpc, cur>>
    BY <1>q, <2>2 DEF Carries
  <2> QED BY <1>1, <2>1, <2>2 DEF UserStep, UploadCommit, UploadReplyLost, DeleteStart, RequestStep,
      UploadMarkFailed, UploadMarkFails, DeleteVectors, Unlink, DeleteRow, DeleteVectorsFails,
      DeleteRowFails
<1>2. ASSUME NEW g \in Files, TaskStep(g) PROVE Placed(f)'
  <2> USE DEF Goto, TaskOnly, Raise
  <2>1. CASE JobReturns(g) \/ JobFails(g)
    <3>1. EndTask(g, Awaited(g)) /\ g # f /\ pc[g] # "none"
      BY <2>1 DEF JobReturns, JobFails
    <3>2. Attended(g)
      BY <1>a, <3>1
    <3>3. queue' = queue /\ pc'[f] = pc[f]
      BY <3>1 DEF EndTask
    <3>4. \A w \in Workers : Carries(w, f) => Carries(w, f)'
      BY <3>1, <3>2 DEF EndTask, Carries, Attended
    <3> QED BY <1>q, <3>3, <3>4
  <2>2. CASE \/ JobStart(g) \/ Lookup(g) \/ Mark(g) \/ Prep(g) \/ PrepRaises(g) \/ EarlyDbRaises(g) \/ Persist(g)
             \/ Upsert(g) \/ UpsertRaises(g) \/ Commit(g) \/ CommitRaises(g) \/ CommitReplyLost(g)
    BY <1>q, <2>2 DEF JobStart, Lookup, Mark, Prep, PrepRaises, EarlyDbRaises, Persist, Upsert,
        UpsertRaises,
        Commit, CommitRaises, CommitReplyLost, Carries
  <2>3. CASE \/ Cleanup(g) \/ Reset(g) \/ ResetRaises(g) \/ Return(g) \/ FailFile(g)
             \/ FailFileClean(g) \/ JobSucceeds(g) \/ JobStatusRaises(g)
    BY <1>q, <2>3 DEF Cleanup, Reset, ResetRaises, Return, FailFile, FailFileClean,
        JobSucceeds, JobStatusRaises, Carries
  <2> QED BY <1>2, <2>1, <2>2, <2>3 DEF TaskStep
<1>3. ASSUME NEW w \in Workers, LoopStep(w) PROVE Placed(f)'
  <2>1. CASE Pop(w)
    <3>1. PICK h \in Files : h = Head(queue)
      BY <2>1, ListPop DEF Pop, HInv
    <3>2. /\ wpc[w] = "idle" /\ wpc' = [wpc EXCEPT ![w] = "popped"]
          /\ cur' = [cur EXCEPT ![w] = h] /\ UNCHANGED pc
      BY <2>1, <3>1 DEF Pop
    <3>3. OnList(queue, f) => OnList(queue', f) \/ f = h
      BY <2>1, <3>1, ListKeeps DEF Pop
    <3>4. Carries(w, h)' /\ \A v \in Workers : Carries(v, f) => Carries(v, f)'
      BY <3>2 DEF Carries
    <3> QED BY <3>2, <3>3, <3>4 DEF Placed
  <2>2. CASE Dispatch(w)
    <3>1. PICK h \in Files : h = cur[w]
      BY <2>2 DEF Dispatch
    <3>2. /\ wpc[w] = "popped" /\ UNCHANGED queue
          /\ wpc' = [wpc EXCEPT ![w] = "busy"] /\ cur' = [cur EXCEPT ![w] = h]
          /\ pc' = [pc EXCEPT ![h] = "start"]
      BY <2>2, <3>1 DEF Dispatch
    <3>3. CASE h = f
      BY <3>2, <3>3 DEF Placed
    <3>4. CASE h # f
      BY <1>q, <3>1, <3>2, <3>4 DEF Carries
    <3> QED BY <3>3, <3>4
  <2>3. CASE RequeueStatus(w) \/ WorkerStart(w) \/ WorkerExits(w)
    BY <1>q, <2>3 DEF RequeueStatus, WorkerStart, WorkerExits, Carries
  <2>4. CASE RequeuePush(w) \/ LoopEnds(w)
    <3>1. \A g \in Files : g \notin OwnTasks(w)
      BY <1>a, <2>4 DEF OwnTasks, Attended, RequeuePush, LoopEnds
    <3>2. pc'[f] = pc[f] /\ wpc' = [wpc EXCEPT ![w] = "exit"] /\ cur' = [cur EXCEPT ![w] = NoFile]
      BY <2>4, <3>1 DEF RequeuePush, LoopEnds, LeaveLoop
    <3>3. \A v \in Workers : v # w /\ Carries(v, f) => Carries(v, f)'
      BY <3>2 DEF Carries
    <3>4. CASE LoopEnds(w)
      <4>1. ~Carries(w, f)
        BY <3>4 DEF LoopEnds, Carries
      <4> QED BY <1>q, <3>2, <3>3, <3>4, <4>1 DEF LoopEnds
    <3>5. CASE RequeuePush(w)
      <4>1. PICK h \in Files : h = cur[w]
        BY <3>5 DEF RequeuePush
      <4>2. OnList(queue', h) /\ (OnList(queue, f) => OnList(queue', f))
        BY <3>5, <4>1, ListKeeps DEF RequeuePush
      <4>3. Carries(w, f) => h = f
        BY <4>1 DEF Carries
      <4> QED BY <3>2, <3>3, <4>2, <4>3 DEF Placed
    <3> QED BY <2>4, <3>4, <3>5
  <2> QED BY <1>3, <2>1, <2>2, <2>3, <2>4 DEF LoopStep
<1>4. ASSUME NEW w \in Workers, Terminate(w) PROVE Placed(f)'
  <2>1. CASE wpc[w] = "busy" /\ pc[cur[w]] # "jobfail"
    <3>1. PICK h \in Files : h = cur[w]
      BY <2>1
    <3>2. /\ UNCHANGED <<queue, cur>> /\ wpc[w] = "busy"
          /\ wpc' = [wpc EXCEPT ![w] = "requeue"] /\ pc' = [pc EXCEPT ![h] = "none"]
      BY <1>4, <2>1, <3>1 DEF Terminate
    <3>3. Carries(w, h)' /\ \A v \in Workers : Carries(v, f) => Carries(v, f)'
      BY <3>1, <3>2 DEF Carries
    <3> QED BY <3>2, <3>3 DEF Placed
  <2>2. CASE ~(wpc[w] = "busy" /\ pc[cur[w]] # "jobfail")
    BY <1>q, <1>4, <2>2 DEF Terminate, Carries
  <2> QED BY <2>1, <2>2
<1>5. ASSUME NEW w \in Workers,
             DispatchFails(w) \/ WorkerCrash(w) \/ HeartbeatFails(w) \/ LoopRaises(w)
      PROVE  FALSE
  BY <1>5 DEF DispatchFails, WorkerCrash, HeartbeatFails, LoopRaises, Event, Mild
<1>6. ASSUME NEW g \in Files, UploadEnqueueFails(g) \/ Timeout(g) PROVE FALSE
  BY <1>6 DEF UploadEnqueueFails, Timeout, Event, Mild
<1>7. ASSUME NEW p \in Sweepers,
             SweepStep(p) \/ SweepCommitFails(p) \/ \E g \in Files : SweepCheckFails(p, g)
      PROVE Placed(f)'
  <2>1. /\ UNCHANGED <<queue, pc>>
        /\ \A w \in Workers : Carries(w, f) => Carries(w, f)'
    BY <1>7 DEF SweepStep, SweepCheck, SweepReport, SweepCommit, SweepEnd, SweepCommitFails,
      SweepCheckFails, SetSweepPhase, SweepPhase, Sweepers, Carries
  <2> QED BY <1>q, <2>1
<1>8. CASE AppStart \/ AppCrash \/ HeartbeatExpires
  BY <1>8, <1>q DEF AppStart, AppCrash, HeartbeatExpires, Carries
<1>9. CASE (\E z \in zombies : ZombieEnds(z)) \/ UNCHANGED vars
  BY <1>9, <1>q DEF ZombieEnds, vars, Carries
<1> QED BY <1>1, <1>2, <1>3, <1>4, <1>5, <1>6, <1>7, <1>8, <1>9 DEF Next, Disturbance

\* What the steps of mild behaviours may do to the row, the bytes and the requests.
LEMMA MildRow ==
  ASSUME OneWorker, TInv, HInv, BInv, CalmInv, VecInv, [Next]_vars, Mild', Mild, NEW f \in Files
  PROVE  /\ status'[f] # "deleted" /\ del'[f] = "none"
         /\ status'[f] # "absent" => disk'[f]
<1>1. \A g \in Files : status[g] # "deleted" /\ del[g] = "none" /\ (status[g] # "absent" => disk[g])
  BY DEF VecInv
<1>2. \A g \in Files : ~DeleteStart(g) /\ ~DeleteVectors(g) /\ ~Unlink(g) /\ ~DeleteRow(g)
  BY <1>1 DEF DeleteStart, DeleteVectors, Unlink, DeleteRow, Event, Mild
<1>r. \A g \in Files : ~UploadReplyLost(g) /\ ~CommitReplyLost(g)
  BY ReplyLost DEF Mild
<1>3. status'[f] # "deleted"
  BY <1>1, <1>2, <1>r, StatusWriters DEF UploadCommit, UploadMarkFailed, Mark, Commit, Reset,
     FailFile, SweepCommit, TInv, TypeOK
<1>4. \/ UNCHANGED <<disk, del>>
      \/ \E g \in Files : UploadCommit(g)
      \/ \A g \in Files : disk'[g] = disk[g] /\ del'[g] = "none"
  <2> USE DEF store, appVars
  <2>1. ASSUME NEW g \in Files, TaskStep(g) PROVE UNCHANGED <<disk, del>>
    BY <2>1 DEF TaskStep, JobStart, Lookup, Mark, Prep, PrepRaises, EarlyDbRaises, Persist, Upsert,
      UpsertRaises, Commit, CommitRaises, CommitReplyLost, Cleanup, Reset, ResetRaises, Return,
      FailFile,
      FailFileClean, JobSucceeds, JobReturns, JobStatusRaises, JobFails, EndTask, TaskOnly
  <2>2. ASSUME NEW g \in Files, UserStep(g) \/ RequestStep(g)
        PROVE  UploadCommit(g) \/ UNCHANGED <<disk, del>>
    BY <1>2, <1>r, <2>2 DEF UserStep, RequestStep, UploadEnqueue, UploadMarkFailed, UploadMarkFails
  <2>3. ASSUME NEW w \in Workers, LoopStep(w) PROVE UNCHANGED <<disk, del>>
    BY <2>3 DEF LoopStep, WorkerStart, Pop, Dispatch, RequeueStatus, RequeuePush,
      LoopEnds, WorkerExits
  <2>4. ASSUME NEW p \in Sweepers, SweepStep(p) PROVE UNCHANGED <<disk, del>>
    BY <2>4 DEF SweepStep, SweepCheck, SweepReport, SweepCommit, SweepEnd
  <2>5. CASE Disturbance
    <3>1. \A g \in Files : ~DeleteVectorsFails(g) /\ ~DeleteRowFails(g)
      BY <1>1 DEF DeleteVectorsFails, DeleteRowFails
    <3>2. ~AppCrash
      BY DEF AppCrash, Event, Mild
    <3> QED BY <2>5, <3>1, <3>2 DEF Disturbance, HeartbeatExpires, UploadEnqueueFails,
      Timeout, DispatchFails, Terminate, WorkerCrash, HeartbeatFails, LoopRaises,
      SweepCommitFails, SweepCheckFails
  <2>6. CASE AppStart \/ (\E z \in zombies : ZombieEnds(z)) \/ UNCHANGED vars
    BY <2>6 DEF AppStart, ZombieEnds, vars
  <2> QED BY <2>1, <2>2, <2>3, <2>4, <2>5, <2>6 DEF Next
<1>5. CASE \E g \in Files : UploadCommit(g)
  BY <1>1, <1>3, <1>5 DEF UploadCommit, TInv, TypeOK, appVars
<1>6. CASE \A g \in Files : disk'[g] = disk[g] /\ del'[g] = "none"
  <2>1. status'[f] # "absent" => status[f] # "absent" \/ (\E g \in Files : UploadCommit(g))
    <3> USE DEF TInv, TypeOK, Row, Transient
    <3>1. CASE status[f] # "absent"
      BY <3>1
    <3>2. ASSUME status[f] = "absent", NEW g \in Files,
                 UploadMarkFailed(g) \/ Mark(g) \/ Commit(g) \/ Reset(g) \/ FailFile(g)
          PROVE  status'[f] = status[f]
      BY <3>2 DEF UploadMarkFailed, Mark, Commit, Reset, FailFile, BInv
    <3>3. ASSUME status[f] = "absent", NEW p \in Sweepers, SweepCommit(p)
          PROVE  status'[f] = status[f]
      BY <3>3 DEF SweepCommit
    <3> QED BY <1>2, <1>r, <3>1, <3>2, <3>3, StatusWriters
  <2> QED BY <1>1, <1>3, <1>5, <1>6, <2>1
<1>7. CASE UNCHANGED <<disk, del>>
  BY <1>1, <1>6, <1>7
<1> QED BY <1>4, <1>5, <1>6, <1>7

\* A file with vectors, or whose upsert is under way, and not yet indexed, is not given up:
\* neither its job nor a sweep makes it failed, and its job does not go past the cleanup.
LEMMA NotGivenUp ==
  ASSUME OneWorker, TInv, HInv, RInv, BInv, QInv, ZInv, CalmInv, QuietInv, VecInv, [Next]_vars,
         Mild', Mild, NEW f \in Files, Writes(f)', status'[f] # "indexed"
  PROVE  status'[f] \in Transient /\ Placed(f)' /\ pc'[f] \notin Past
<1>0. Calm' /\ Calm /\ Quiet' /\ Quiet /\ Sane
  BY DEF Mild, Calm, Quiet, Sane
<1>1. /\ \A g \in Files : status[g] # "deleted" /\ del[g] = "none" /\ (status[g] # "absent" => disk[g])
      /\ status'[f] # "deleted"
      /\ Allowed(f)
  BY <1>0, MildRow, CalmWrites DEF VecInv
<1>2. status[f] # "indexed"
  BY <1>1 DEF Allowed, Row, Transient
<1>3. status[f] \in Transient /\ Placed(f) /\ pc[f] \notin Past /\ f \notin Bad
  <2>1. CASE Writes(f)
    BY <1>2, <2>1 DEF VecInv
  <2>2. CASE pc[f] = "upsert"
    <3>1. status[f] = "processing"
      BY <1>0, <1>1, <2>2 DEF CalmInv, TaskStatus, Attempting
    <3> QED BY <2>2, <3>1 DEF VecInv, Placed, Past, Transient
  <2> QED BY <2>1, <2>2, WritesStep
<1>4. Placed(f)'
  BY <1>3, PlaceKept DEF Past
<1>5. status'[f] # "failed"
  <2>1. status'[f] = "failed" => status'[f] # status[f]
    BY <1>3 DEF Transient
  <2>2. (UploadMarkFailed(f) \/ FailFile(f) \/ Reset(f) \/ Mark(f)) => status'[f] # "failed"
    <3>1. ~UploadMarkFailed(f)
      BY <1>0 DEF UploadMarkFailed, UploadMarkFails, BInv, Quiet
    <3>2. ~FailFile(f)
      BY <1>0 DEF FailFile, ZInv
    <3>3. ~Reset(f)
      BY <1>3 DEF Reset, Past
    <3>4. Mark(f) => status'[f] # "failed"
      BY <1>3 DEF Mark, TInv, TypeOK, Row, Transient
    <3> QED BY <3>1, <3>2, <3>3, <3>4
  <2>3. ASSUME NEW p \in Sweepers, SweepCommit(p) PROVE status'[f] = status[f]
    <3>1. CASE p = App
      <4>1. app = "sweeping"
        BY <2>3, <3>1 DEF SweepCommit, SweepPhase
      <4> QED BY <1>0, <1>3, <4>1 DEF CalmInv, Transient
    <3>2. CASE p # App
      <4>1. p \in Workers /\ wpc[p] = "sweeping"
        BY <2>3, <3>2 DEF SweepCommit, SweepPhase, Sweepers
      <4>2. pc[f] = "none"
        BY <4>1, SweepsAlone DEF Looping
      <4>3. f \notin dead[p]
        BY <4>1, <4>2, WritesStep DEF VecInv
      <4> QED BY <2>3, <4>3 DEF SweepCommit
    <3> QED BY <3>1, <3>2
  <2>4. \A g \in Files : \/ UploadCommit(g) \/ DeleteRow(g) \/ Commit(g)
                         \/ (g # f /\ (UploadMarkFailed(g) \/ Mark(g) \/ Reset(g) \/ FailFile(g)))
           => status'[f] # "failed"
    BY <1>3 DEF UploadCommit, DeleteRow, Commit, UploadMarkFailed,
        Mark, Reset, FailFile, TInv, TypeOK, Transient
  <2>5. \A g \in Files : ~UploadReplyLost(g) /\ ~CommitReplyLost(g)
    BY ReplyLost DEF Mild
  <2> QED BY <2>1, <2>2, <2>3, <2>4, <2>5, StatusWriters
<1>6. status'[f] \in Transient
  BY <1>1, <1>3, <1>5 DEF Allowed, Transient
<1>7. pc'[f] \notin Past
  <2>1. CASE pc'[f] = pc[f]
    BY <1>3, <2>1
  <2>2. CASE pc'[f] # pc[f]
    <3> USE <1>0, <1>1, <1>3, <2>2 DEF TInv, TypeOK, Past, db, taskVars, Goto, TaskOnly, Raise,
        Row, Transient
    <3>1. ASSUME NEW g \in Files, TaskStep(g) PROVE pc'[f] \notin Past
      <4>1. CASE JobStart(g) \/ Lookup(g) \/ Mark(g) \/ Prep(g) \/ Upsert(g)
        BY <4>1 DEF JobStart, Lookup, Mark, Prep, Upsert
      <4>2. CASE PrepRaises(g) \/ EarlyDbRaises(g)
        BY <4>2 DEF PrepRaises, EarlyDbRaises, Event, Mild
      <4>3. CASE Persist(g)
        BY <4>3 DEF Persist, RInv, NoRowsYet, Sane
      <4>4. CASE Commit(g)
        BY <4>4 DEF Commit
      <4>5. CASE UpsertRaises(g)
        BY <4>5 DEF UpsertRaises, Event, Mild
      <4>6. CASE CommitRaises(g) \/ CommitReplyLost(g)
        BY <4>6 DEF CommitRaises, CommitReplyLost
      <4>7. CASE Cleanup(g)
        <5>1. g = f /\ pc[f] = "cleanup"
          BY <4>7 DEF Cleanup
        <5>2. vec'[f] = FALSE /\ UNCHANGED zombies
          BY <4>7, <5>1 DEF Cleanup, Event, Mild
        <5>3. \A z \in zombies : z.file # f
          BY <5>1 DEF ZInv, ThreadInv
        <5> QED BY <5>2, <5>3 DEF Writes
      <4>8. CASE Reset(g) \/ ResetRaises(g) \/ Return(g) \/ JobSucceeds(g) \/ JobReturns(g) \/ JobFails(g)
        BY <4>8 DEF Reset, ResetRaises, Return, JobSucceeds, JobReturns, JobFails, EndTask, ZInv
      <4>9. CASE FailFile(g) \/ FailFileClean(g) \/ JobStatusRaises(g)
        BY <4>9 DEF FailFile, FailFileClean, JobStatusRaises, ZInv, Event, Mild
      <4> QED BY <3>1, <4>1, <4>2, <4>3, <4>4, <4>5, <4>6, <4>7, <4>8, <4>9 DEF TaskStep
    <3>2. ASSUME NEW w \in Workers,
                 \/ WorkerStart(w) \/ Pop(w) \/ Dispatch(w) \/ RequeueStatus(w) \/ RequeuePush(w)
                 \/ LoopEnds(w) \/ WorkerExits(w) \/ DispatchFails(w) \/ Terminate(w)
                 \/ WorkerCrash(w) \/ HeartbeatFails(w) \/ LoopRaises(w)
          PROVE pc'[f] \notin Past
      BY <3>2 DEF WorkerStart, Pop, Dispatch, RequeueStatus, RequeuePush, LoopEnds, LeaveLoop,
          WorkerExits, DispatchFails, Terminate, WorkerCrash, HeartbeatFails, LoopRaises
    <3>3. ASSUME NEW g \in Files,
                 \/ UserStep(g) \/ RequestStep(g) \/ UploadEnqueueFails(g) \/ DeleteVectorsFails(g)
                 \/ DeleteRowFails(g) \/ Timeout(g)
          PROVE pc'[f] \notin Past
      BY <3>3 DEF UserStep, UploadCommit, UploadReplyLost, DeleteStart, RequestStep, UploadEnqueue,
          UploadMarkFailed, UploadMarkFails, DeleteVectors, Unlink, DeleteRow, UploadEnqueueFails,
          DeleteVectorsFails,
          DeleteRowFails, Timeout
    <3>4. ASSUME NEW p \in Sweepers,
                 SweepStep(p) \/ SweepCommitFails(p) \/ \E g \in Files : SweepCheckFails(p, g)
          PROVE pc'[f] \notin Past
      BY <3>4 DEF SweepStep, SweepCheck, SweepReport, SweepCommit, SweepEnd, SweepCommitFails,
          SweepCheckFails
    <3>5. CASE \/ AppStart \/ AppCrash \/ HeartbeatExpires \/ (\E z \in zombies : ZombieEnds(z))
               \/ UNCHANGED vars
      BY <3>5 DEF AppStart, AppCrash, HeartbeatExpires, ZombieEnds, vars
    <3> QED BY <3>1, <3>2, <3>3, <3>4, <3>5 DEF Next, Disturbance, LoopStep
  <2> QED BY <2>1, <2>2
<1> QED BY <1>4, <1>6, <1>7

LEMMA VecStep ==
  OneWorker /\ TInv /\ HInv /\ RInv /\ BInv /\ QInv /\ ZInv /\ CalmInv /\ QuietInv /\ VecInv
     /\ [Next]_vars => VecInv'
<1> SUFFICES ASSUME OneWorker, TInv, HInv, RInv, BInv, QInv, ZInv, CalmInv, QuietInv, VecInv,
                    [Next]_vars, Mild'
             PROVE  VecInv'
  BY DEF VecInv
<1>0. Mild /\ Calm /\ Quiet
  BY SeenGrows DEF Mild, Calm, Quiet
<1>1. ASSUME NEW f \in Files, f \in Bad
      PROVE  ~Writes(f)' /\ pc'[f] \notin {"persist", "upsert", "commit", "cleanup"}
  <2>1. ~Writes(f) /\ pc[f] \notin {"persist", "upsert", "commit", "cleanup"}
    BY <1>0, <1>1 DEF VecInv
  <2>2. ~Writes(f)'
    BY <2>1, WritesStep
  <2>3. CASE pc'[f] \in {"persist", "upsert", "commit", "cleanup"}
    <3> USE <1>1, <2>1, <2>3 DEF TInv, TypeOK, taskVars, Goto, TaskOnly, Raise
    <3>1. ASSUME NEW g \in Files, TaskStep(g) PROVE FALSE
      <4>1. CASE \/ JobStart(g) \/ Lookup(g) \/ Mark(g) \/ Prep(g) \/ PrepRaises(g) \/ EarlyDbRaises(g) \/ Persist(g)
                 \/ Upsert(g) \/ UpsertRaises(g) \/ Commit(g) \/ CommitRaises(g) \/ CommitReplyLost(g)
        BY <4>1 DEF JobStart, Lookup, Mark, Prep, PrepRaises, EarlyDbRaises, Persist, Upsert,
            UpsertRaises,
            Commit, CommitRaises, CommitReplyLost
      <4>2. CASE \/ Cleanup(g) \/ Reset(g) \/ ResetRaises(g) \/ Return(g) \/ FailFile(g)
                 \/ FailFileClean(g) \/ JobSucceeds(g) \/ JobStatusRaises(g) \/ JobReturns(g)
                 \/ JobFails(g)
        BY <4>2 DEF Cleanup, Reset, ResetRaises, Return, FailFile, FailFileClean,
            JobSucceeds, JobStatusRaises, JobReturns, JobFails, EndTask
      <4> QED BY <3>1, <4>1, <4>2 DEF TaskStep
    <3>2. ASSUME NEW w \in Workers,
                 \/ WorkerStart(w) \/ Pop(w) \/ Dispatch(w) \/ RequeueStatus(w) \/ RequeuePush(w)
                 \/ LoopEnds(w) \/ WorkerExits(w) \/ DispatchFails(w) \/ Terminate(w)
                 \/ WorkerCrash(w) \/ HeartbeatFails(w) \/ LoopRaises(w)
          PROVE FALSE
      BY <3>2 DEF WorkerStart, Pop, Dispatch, RequeueStatus, RequeuePush, LoopEnds, LeaveLoop,
          WorkerExits, DispatchFails, Terminate, WorkerCrash, HeartbeatFails, LoopRaises
    <3>3. ASSUME NEW g \in Files,
                 \/ UserStep(g) \/ RequestStep(g) \/ UploadEnqueueFails(g) \/ DeleteVectorsFails(g)
                 \/ DeleteRowFails(g) \/ Timeout(g)
          PROVE FALSE
      BY <3>3 DEF UserStep, UploadCommit, UploadReplyLost, DeleteStart, RequestStep, UploadEnqueue,
          UploadMarkFailed, UploadMarkFails, DeleteVectors, Unlink, DeleteRow, UploadEnqueueFails,
          DeleteVectorsFails,
          DeleteRowFails, Timeout
    <3>4. ASSUME NEW p \in Sweepers,
                 SweepStep(p) \/ SweepCommitFails(p) \/ \E g \in Files : SweepCheckFails(p, g)
          PROVE FALSE
      BY <3>4 DEF SweepStep, SweepCheck, SweepReport, SweepCommit, SweepEnd, SweepCommitFails,
          SweepCheckFails
    <3>5. CASE \/ AppStart \/ AppCrash \/ HeartbeatExpires \/ (\E z \in zombies : ZombieEnds(z))
               \/ UNCHANGED vars
      BY <3>5 DEF AppStart, AppCrash, HeartbeatExpires, ZombieEnds, vars
    <3> QED BY <3>1, <3>2, <3>3, <3>4, <3>5 DEF Next, Disturbance, LoopStep
  <2> QED BY <2>2, <2>3
<1>2. ASSUME NEW w \in Workers, wpc'[w] = "sweeping", NEW f \in dead'[w] PROVE ~Writes(f)'
  <2>1. w \in Sweepers /\ SweepPhase(w) = wpc[w] /\ SweepPhase(w)' = wpc'[w] /\ w # App
    BY IndexingAssumption DEF Sweepers, SweepPhase
  <2>2. f \in Files
    BY <2>1, TypeStep DEF TInv, TypeOK
  <2>3. wpc[w] \in {"sweeping", "down"}
    BY <1>2, <2>1, SweepSets DEF TInv
  <2>4. pc[f] = "none"
    BY <2>2, <2>3, SweepsAlone DEF Looping
  <2> SUFFICES ~Writes(f)
    BY <2>2, <2>4, WritesStep
  <2>5. CASE f \in dead[w]
    <3>1. wpc[w] = "sweeping"
      BY <2>1, <2>3, <2>5 DEF BInv, SweepInv
    <3> QED BY <1>0, <2>5, <3>1 DEF VecInv
  <2>6. CASE (SweepCheck(w, f) \/ SweepCheckFails(w, f)) /\ f \notin dead[w]
    <3>1. SweepCheck(w, f) /\ f \in todo[w]
      <4>1. ~SweepCheckFails(w, f)
        BY DEF SweepCheckFails, SweepJudge, Event, Mild
      <4> QED BY <2>6, <4>1 DEF SweepCheck
    <3>2. wpc[w] = "sweeping" /\ status[f] # "absent"
      BY <2>1, <2>3, <3>1 DEF BInv, SweepInv
    <3>3. status[f] # "indexed"
      BY <1>0, <3>1, <3>2 DEF CalmInv
    <3>4. ~JobIsLive(w, f)
      BY <1>2, <2>1, <2>6, <3>1 DEF SweepCheck, SweepJudge, TInv, TypeOK
    <3>5. meta[f] # "queued"
      BY <3>4 DEF JobIsLive
    <3>6. \A v \in Workers : ~Carries(v, f)
      BY <3>2 DEF OneWorker, Carries, Carrying
    <3> SUFFICES ASSUME Writes(f) PROVE FALSE
      OBVIOUS
    <3>7. status[f] \in Transient /\ Placed(f)
      BY <1>0, <2>2, <3>3 DEF VecInv
    <3>8. Truthful(f)
      BY <1>0, <2>2, <3>7 DEF QuietInv
    <3> QED BY <2>4, <3>5, <3>6, <3>7, <3>8 DEF Truthful, Placed
  <2> QED BY <2>1, <2>2, <2>5, <2>6, SweepWriters DEF TInv
<1> QED BY <1>0, <1>1, <1>2, MildRow, NotGivenUp DEF VecInv

\* When nothing goes wrong but Postgres, wherever it does: no task is ever cancelled, so
\* vectors belong to an indexed file or to an attempt that will index or remove them.
Undisturbed == seen \subseteq {"db", "db_early"}

EarlyInv == Undisturbed =>
    /\ zombies = {}
    /\ \A w \in Workers : ~shutdown[w] /\ wpc[w] \notin {"requeue", "lpush"}
    /\ \A f \in Files : vec[f] => status[f] = "indexed" \/ pc[f] \in {"commit", "cleanup"}

LEMMA EarlyStep ==
  OneWorker /\ TInv /\ HInv /\ BInv /\ Deleting /\ CalmInv /\ EarlyInv /\ [Next]_vars => EarlyInv'
<1> SUFFICES ASSUME OneWorker, TInv, HInv, BInv, Deleting, CalmInv, EarlyInv, [Next]_vars, Undisturbed'
             PROVE  EarlyInv'
  BY DEF EarlyInv
<1>0. Undisturbed /\ Calm' /\ \A f \in Files : del[f] = "none"
  BY SeenGrows DEF Undisturbed, Calm, Deleting
<1>1. /\ zombies = {}
      /\ \A w \in Workers : ~shutdown[w] /\ wpc[w] \notin {"requeue", "lpush"}
      /\ \A f \in Files : vec[f] => status[f] = "indexed" \/ pc[f] \in {"commit", "cleanup"}
  BY <1>0 DEF EarlyInv
<1>2. \A f \in Files : status[f] = "indexed" => status'[f] = "indexed"
  <2>1. \A f \in Files : ~DeleteRow(f)
    BY <1>0 DEF DeleteRow
  <2>2. \A f \in Files : Allowed(f)
    BY <1>0, CalmWrites
  <2>3. \A f \in Files : status[f] = "indexed" => status'[f] # "deleted"
    <3> USE DEF TInv, TypeOK
    <3>1. ASSUME NEW g \in Files,
                 \/ UploadCommit(g) \/ UploadReplyLost(g) \/ UploadMarkFailed(g) \/ Mark(g)
                 \/ Commit(g) \/ CommitReplyLost(g) \/ Reset(g) \/ FailFile(g)
          PROVE  \A f \in Files : status'[f] = status[f] \/ status'[f] # "deleted"
      BY <3>1 DEF UploadCommit, UploadReplyLost, UploadMarkFailed, Mark, Commit, CommitReplyLost,
                  Reset, FailFile
    <3>2. ASSUME NEW p \in Sweepers, SweepCommit(p)
          PROVE  \A f \in Files : status'[f] = status[f] \/ status'[f] # "deleted"
      BY <3>2 DEF SweepCommit
    <3> QED BY <2>1, <3>1, <3>2, StatusWriters
  <2> QED BY <2>2, <2>3 DEF Allowed, Transient
<1> DEFINE Goal == /\ zombies' = {}
                   /\ \A w \in Workers : ~shutdown'[w] /\ wpc'[w] \notin {"requeue", "lpush"}
                   /\ \A f \in Files : vec'[f] => status'[f] = "indexed" \/ pc'[f] \in {"commit", "cleanup"}
<1> USE <1>1, <1>2, IndexingAssumption DEF TInv, TypeOK, store, taskVars, loopVars, appVars, SetLoop
<1>q. ASSUME UNCHANGED <<zombies, shutdown, vec>>,
             \A w \in Workers : wpc'[w] \notin {"requeue", "lpush"},
             \A f \in Files : pc'[f] = pc[f] \/ pc[f] \notin {"commit", "cleanup"}
      PROVE  Goal
  BY <1>q
<1>3. ASSUME NEW f \in Files, UserStep(f) \/ RequestStep(f) PROVE Goal
  <2>1. ~DeleteStart(f) /\ ~DeleteVectors(f) /\ ~Unlink(f) /\ ~DeleteRow(f)
    BY <1>0 DEF DeleteStart, DeleteVectors, Unlink, DeleteRow, Event, Undisturbed
  <2> QED BY <1>3, <1>q, <2>1 DEF UserStep, RequestStep, UploadCommit, UploadReplyLost,
      UploadEnqueue, UploadMarkFailed, UploadMarkFails
<1>4. ASSUME NEW f \in Files, TaskStep(f) PROVE Goal
  <2> USE DEF Goto, TaskOnly, Raise
  <2>1. CASE \/ JobStart(f) \/ Lookup(f) \/ Mark(f) \/ Prep(f) \/ PrepRaises(f) \/ EarlyDbRaises(f)
             \/ Persist(f)
    <3>1. /\ UNCHANGED <<zombies, shutdown, vec, wpc>> /\ pc[f] \notin {"commit", "cleanup"}
          /\ \E l : pc' = [pc EXCEPT ![f] = l]
      BY <2>1 DEF JobStart, Lookup, Mark, Prep, PrepRaises, EarlyDbRaises, Persist
    <3> QED BY <1>q, <3>1
  <2>2. CASE Upsert(f)
    BY <2>2 DEF Upsert
  <2>3. CASE UpsertRaises(f) \/ JobStatusRaises(f)
    BY <2>3 DEF UpsertRaises, JobStatusRaises, Event, Undisturbed
  <2>4. CASE Commit(f) \/ CommitRaises(f) \/ CommitReplyLost(f)
    BY <2>4 DEF Commit, CommitRaises, CommitReplyLost
  <2>5. CASE Cleanup(f) \/ FailFileClean(f)
    BY <2>5 DEF Cleanup, FailFileClean, Event, Undisturbed
  <2>6. CASE Reset(f) \/ ResetRaises(f) \/ Return(f) \/ FailFile(f) \/ JobSucceeds(f)
    <3>1. /\ UNCHANGED <<zombies, shutdown, vec, wpc>> /\ pc[f] \notin {"commit", "cleanup"}
          /\ \E l : pc' = [pc EXCEPT ![f] = l]
      BY <2>6 DEF Reset, ResetRaises, Return, FailFile, JobSucceeds
    <3> QED BY <1>q, <3>1
  <2>7. CASE JobReturns(f) \/ JobFails(f)
    BY <2>7, <1>q DEF JobReturns, JobFails, EndTask
  <2> QED BY <1>4, <2>1, <2>2, <2>3, <2>4, <2>5, <2>6, <2>7 DEF TaskStep
<1>5. ASSUME NEW w \in Workers, LoopStep(w) PROVE Goal
  <2>1. ~RequeueStatus(w) /\ ~RequeuePush(w) /\ ~LoopEnds(w)
    BY DEF RequeueStatus, RequeuePush, LoopEnds
  <2>2. CASE Dispatch(w)
    <3>1. wpc[w] = "popped" /\ cur[w] \in Files
      BY <2>2 DEF Dispatch, Holding, InHand
    <3>2. pc[cur[w]] = "none"
      BY <3>1 DEF HInv, Carrying
    <3> QED BY <1>q, <2>2, <3>1, <3>2 DEF Dispatch
  <2>3. CASE WorkerStart(w) \/ Pop(w) \/ WorkerExits(w)
    BY <2>3 DEF WorkerStart, Pop, WorkerExits
  <2> QED BY <1>5, <2>1, <2>2, <2>3 DEF LoopStep
<1>6. ASSUME NEW p \in Sweepers,
             SweepStep(p) \/ SweepCommitFails(p) \/ \E f \in Files : SweepCheckFails(p, f)
      PROVE Goal
  <2>1. UNCHANGED <<zombies, shutdown, vec, pc>>
    BY <1>6 DEF SweepStep, SweepCheck, SweepReport, SweepCommit, SweepEnd, SweepCommitFails,
      SweepCheckFails
  <2>2. \A w \in Workers : wpc'[w] \notin {"requeue", "lpush"}
    BY <1>6 DEF SweepStep, SweepCheck, SweepReport, SweepCommit, SweepEnd, SweepCommitFails,
      SweepCheckFails, SetSweepPhase, SweepPhase, Sweepers
  <2> QED BY <1>q, <2>1, <2>2
<1>7. ASSUME Disturbance PROVE Goal
  <2>1. ASSUME NEW f \in Files,
               \/ UploadEnqueueFails(f) \/ DeleteVectorsFails(f) \/ DeleteRowFails(f) \/ Timeout(f)
        PROVE FALSE
    BY <1>0, <2>1 DEF UploadEnqueueFails, DeleteVectorsFails, DeleteRowFails, Timeout, Event,
        Undisturbed
  <2>e. ASSUME NEW e, Event(e), e \notin {"db", "db_early"} PROVE FALSE
    BY <2>e DEF Event, Undisturbed
  <2>2. ASSUME NEW w \in Workers, DispatchFails(w) \/ Terminate(w) \/ HeartbeatFails(w)
        PROVE FALSE
    BY <2>2, <2>e DEF DispatchFails, Terminate, HeartbeatFails
  <2>3. ASSUME NEW w \in Workers, WorkerCrash(w) PROVE FALSE
    BY <2>3, <2>e DEF WorkerCrash
  <2>4. ASSUME NEW w \in Workers, LoopRaises(w) PROVE FALSE
    <3>1. \E e : Event(e) /\ e \notin {"db", "db_early"}
      BY <2>4 DEF LoopRaises
    <3> QED BY <2>e, <3>1
  <2>5. CASE AppCrash
    BY <2>5, <2>e DEF AppCrash
  <2>6. CASE HeartbeatExpires
    <3>1. UNCHANGED <<zombies, shutdown, vec, wpc, pc>>
      BY <2>6 DEF HeartbeatExpires
    <3>2. /\ \A w \in Workers : wpc'[w] \notin {"requeue", "lpush"}
          /\ \A f \in Files : pc'[f] = pc[f]
      BY <3>1
    <3> QED BY <1>q, <3>1, <3>2
  <2>7. CASE \E p \in Sweepers : SweepCommitFails(p) \/ \E f \in Files : SweepCheckFails(p, f)
    BY <1>6, <2>7
  <2> QED BY <1>7, <2>1, <2>2, <2>3, <2>4, <2>5, <2>6, <2>7 DEF Disturbance
<1>8. ASSUME AppStart \/ UNCHANGED vars PROVE Goal
  <2>1. UNCHANGED <<zombies, shutdown, vec, wpc, pc>>
    BY <1>8 DEF AppStart, vars
  <2>2. /\ \A w \in Workers : wpc'[w] \notin {"requeue", "lpush"}
        /\ \A f \in Files : pc'[f] = pc[f]
    BY <2>1
  <2> QED BY <1>q, <2>1, <2>2
<1> QED BY <1>3, <1>4, <1>5, <1>6, <1>7, <1>8 DEF Next, EarlyInv

\* With the one worker: when nothing goes wrong but commits to Postgres and signals that
\* stop the worker, and when nothing goes wrong but Postgres, before the upsert or after it,
\* a file that ended failed leaves no vectors behind, through any sequence of failed
\* commits, retries, requeues and restarts.
THEOREM StrayVectorsGo == OneWorker => (Spec => []CleansUp)
<1> SUFFICES ASSUME OneWorker PROVE Spec => []CleansUp
  OBVIOUS
<1> DEFINE All == TInv /\ HInv /\ RInv /\ BInv /\ QInv /\ ZInv /\ CalmInv /\ QuietInv /\ VecInv
<1>1. Init => QInv /\ ZInv /\ CalmInv /\ QuietInv /\ VecInv /\ EarlyInv
  <2>1. Init => QInv /\ ZInv
    BY DEF Init, QInv, ZInv
  <2>2. Init => CalmInv /\ QuietInv
    BY DEF Init, CalmInv, QuietInv, TaskStatus, Attempting, Transient
  <2>3. Init => VecInv
    BY DEF Init, VecInv, Writes
  <2>4. Init => EarlyInv
    BY DEF Init, EarlyInv
  <2> QED BY <2>1, <2>2, <2>3, <2>4
<1>2. TInv /\ HInv /\ QInv /\ [Next]_vars => QInv'
  BY QueuedStep
<1>3. TInv /\ HInv /\ RInv /\ BInv /\ Deleting /\ ZInv /\ [Next]_vars => ZInv'
  BY SearchableStep
<1>4. TInv /\ HInv /\ BInv /\ CalmInv /\ [Next]_vars => CalmInv'
  BY CalmStep
<1>5. TInv /\ HInv /\ BInv /\ QuietInv /\ [Next]_vars => QuietInv'
  BY QuietStep
<1>6. All /\ [Next]_vars => VecInv'
  BY VecStep
<1>7. TInv /\ HInv /\ BInv /\ Deleting /\ CalmInv /\ EarlyInv /\ [Next]_vars => EarlyInv'
  BY EarlyStep
<1>8. VecInv /\ EarlyInv => CleansUp
  <2>1. VecInv /\ Mild => NoStrayVectors
    BY DEF VecInv, NoStrayVectors, Writes, Transient
  <2>2. EarlyInv /\ Undisturbed => NoStrayVectors
    <3> SUFFICES ASSUME EarlyInv, Undisturbed, NEW f \in Files, Settled(f),
                        status[f] \in {"failed", "deleted"}
                 PROVE  ~vec[f]
      BY DEF NoStrayVectors
    <3>1. pc[f] = "none"
      <4>1. pc[f] # "none" => <<"task", f>> \in Places(f)
        BY DEF Places
      <4> QED BY <4>1 DEF Settled
    <3> QED BY <3>1 DEF EarlyInv
  <2> QED BY <2>1, <2>2 DEF CleansUp, Mild, Undisturbed
<1> QED BY <1>1, <1>2, <1>3, <1>4, <1>5, <1>6, <1>7, <1>8, BaseInvariance, PTL DEF Spec, All
=============================================================================
