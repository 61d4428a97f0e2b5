-------------------------- MODULE ModelCache_proofs --------------------------
(***************************************************************************)
(* Proofs about module ModelCache, for any requests, variants, costs, caps *)
(* and budgets: which lock guards which Llama, and hence that a Llama is   *)
(* called by one thread at a time, cancelled streams excepted; and that    *)
(* the cache stays within its cap and its budget while a model is built.   *)
(***************************************************************************)
EXTENDS ModelCache, FiniteSetTheorems, WellFoundedInduction, TLAPS

\* The types the argument needs; the order of the LRU plays no part in it.
HTypes ==
    /\ inst \in [Keys -> Insts \cup {None}]
    /\ lock \in [Keys -> Reqs \cup {None}]
    /\ loader \in Reqs \cup {None}
    /\ rpc \in [Reqs -> Pc]
    /\ kind \in [Reqs -> {"chat", "stream"}]
    /\ stage \in [Reqs -> {"condense", "main"}]
    /\ key \in [Reqs -> Keys]
    /\ hInst \in [Reqs -> Insts \cup {None}]
    /\ hLock \in [Reqs -> Reqs \cup {None}]
    /\ holder \in [Reqs -> Calls \cup {None}]
    /\ running \in SUBSET Calls
    /\ bound \in Keys

\* Requests that have no handle yet.
Fresh == {"new", "prepare", "wait", "loading"}

\* A fresh request has built nothing and holds nothing; the one that is loading
\* has the load lock, and its key stays absent meanwhile.
FreshInv ==
    \A r \in Reqs :
        /\ rpc[r] \in Fresh =>
              /\ hInst[r] = None
              /\ \A k \in Keys : inst[k] # r
              /\ \A s \in Reqs : hInst[s] # r
        /\ rpc[r] = "loading" => loader = r /\ inst[key[r]] = None

\* A cached Llama belongs to one key, and the lock in _infer_locks is the one every
\* handle on it carries; an evicted one keeps whatever its handles carry.
LockInv ==
    /\ \A j, k \in Keys : inst[k] # None /\ inst[j] = inst[k] => j = k
    /\ \A k \in Keys : lock[k] # None => inst[k] # None
    /\ \A r \in Reqs : hInst[r] # None => hLock[r] # None
    /\ \A r \in Reqs, k \in Keys :
          hInst[r] # None /\ hInst[r] = inst[k] => lock[k] = hLock[r]

LInv == HTypes /\ FreshInv /\ LockInv /\ InstanceHasOneLock

\* The two ways the cache changes hands: entries leave with their locks ...
LEMMA DropKeeps ==
  ASSUME LInv, NEW E, Drop(E)
  PROVE  /\ inst' \in [Keys -> Insts \cup {None}] /\ lock' \in [Keys -> Reqs \cup {None}]
         /\ \A k \in Keys : \/ inst'[k] = inst[k] /\ lock'[k] = lock[k]
                            \/ inst'[k] = None /\ lock'[k] = None
BY DEF LInv, HTypes, Drop

\* ... or a request takes the cached Llama of its key and the lock that goes with it.
LEMMA HitKeeps ==
  ASSUME LInv, NEW r \in Reqs, HitCache(r), rpc[r] \in {"prepare", "wait"},
         inst[key[r]] # None, loader' = loader, UNCHANGED <<callVars, bound>>
  PROVE  LInv'
<1> DEFINE k == key[r]
           l == IF lock[k] = None THEN r ELSE lock[k]
<1>1. /\ hInst' = [hInst EXCEPT ![r] = inst[k]]
      /\ hLock' = [hLock EXCEPT ![r] = l]
      /\ rpc' = [rpc EXCEPT ![r] = "ready"]
      /\ lock' = [lock EXCEPT ![k] = l]
      /\ \E x \in {"condense", "main"} : stage' = [stage EXCEPT ![r] = x]
      /\ UNCHANGED <<inst, kind, key>>
  BY DEF HitCache, TakeHandle, KeepLock, LInv, HTypes
<1>2. k \in Keys /\ l \in Reqs /\ l # None
  BY ModelCacheAssumption DEF LInv, HTypes
<1>3. HTypes'
  BY <1>1, <1>2 DEF LInv, HTypes, callVars, Pc
<1>4. FreshInv'
  BY <1>1, <1>2 DEF LInv, HTypes, FreshInv, Fresh
<1>5. \A s \in Reqs : hInst[s] = inst[k] => hLock[s] = l
  BY <1>2 DEF LInv, LockInv
<1>6. LockInv'
  BY <1>1, <1>2, <1>5 DEF LInv, HTypes, LockInv
<1>7. InstanceHasOneLock'
  BY <1>1, <1>2, <1>5 DEF LInv, HTypes, InstanceHasOneLock
<1> QED BY <1>3, <1>4, <1>6, <1>7 DEF LInv

LEMMA LockStep == LInv /\ [Next]_vars => LInv'
<1> SUFFICES ASSUME LInv, [Next]_vars PROVE LInv'
  OBVIOUS
<1> USE ModelCacheAssumption DEF Goto, cacheVars, loadVars, callVars, bindVars, Pc
<1>1. ASSUME UNCHANGED <<inst, lock, key, hInst, hLock, loader>>,
             HTypes',
             \A r \in Reqs : rpc'[r] \in Fresh => rpc[r] \in Fresh,
             \A r \in Reqs : rpc'[r] = "loading" => rpc[r] = "loading"
      PROVE  LInv'
  BY <1>1 DEF LInv, FreshInv, LockInv, InstanceHasOneLock
<1>2. ASSUME NEW r \in Reqs, Resolve(r) PROVE LInv'
  BY <1>2 DEF Resolve, LInv, HTypes, FreshInv, Fresh, LockInv, InstanceHasOneLock
<1>3. ASSUME NEW r \in Reqs, EnsureHit(r) \/ LoadHit(r) PROVE LInv'
  BY <1>3, HitKeeps DEF EnsureHit, LoadHit
<1>4. ASSUME NEW r \in Reqs, EnsureWaits(r) \/ LoadRefused(r) \/ Leave(r) PROVE LInv'
  BY <1>1, <1>4 DEF EnsureWaits, LoadRefused, Leave, LInv, HTypes, Fresh
<1>5. ASSUME NEW r \in Reqs, LoadBegin(r) PROVE LInv'
  <2>1. PICK E : Drop(E)
    BY <1>5, Zenon DEF LoadBegin, EvictOldest
  <2>2. /\ rpc[r] \in {"prepare", "wait"} /\ loader = None /\ inst[key[r]] = None
        /\ loader' = r /\ rpc' = [rpc EXCEPT ![r] = "loading"]
        /\ UNCHANGED <<kind, stage, key, hInst, hLock, holder, running, bound>>
    BY <1>5 DEF LoadBegin, InLoad, Turn
  <2>3. /\ inst' \in [Keys -> Insts \cup {None}] /\ lock' \in [Keys -> Reqs \cup {None}]
        /\ \A k \in Keys : \/ inst'[k] = inst[k] /\ lock'[k] = lock[k]
                           \/ inst'[k] = None /\ lock'[k] = None
    BY <2>1, DropKeeps
  <2>4. HTypes'
    BY <2>2, <2>3 DEF LInv, HTypes
  <2>5. FreshInv'
    BY <2>2, <2>3 DEF LInv, HTypes, FreshInv, Fresh
  <2>6. LockInv' /\ InstanceHasOneLock'
    BY <2>2, <2>3 DEF LInv, HTypes, LockInv, InstanceHasOneLock
  <2> QED BY <2>4, <2>5, <2>6 DEF LInv
<1>6. ASSUME NEW r \in Reqs, LoadEnd(r) PROVE LInv'
  <2> DEFINE k == key[r]
  <2>1. k \in Keys /\ inst[k] = None /\ lock[k] = None /\ loader = r /\ rpc[r] = "loading"
    BY <1>6 DEF LoadEnd, LInv, HTypes, FreshInv, LockInv
  <2>2. /\ rpc' = [rpc EXCEPT ![r] = "ready"] /\ loader' = None
        /\ hInst' = [hInst EXCEPT ![r] = r]
        /\ hLock' = [hLock EXCEPT ![r] = r]
        /\ \E x \in {"condense", "main"} : stage' = [stage EXCEPT ![r] = x]
        /\ UNCHANGED <<kind, key, holder, running, bound>>
    BY <1>6, <2>1 DEF LoadEnd, TakeHandle
  <2>3. PICK E : /\ inst' = [j \in Keys |-> IF j = k THEN r
                                            ELSE IF j \in E THEN None ELSE inst[j]]
                 /\ lock' = KeepLock(r, [j \in Keys |-> IF j \in E THEN None ELSE lock[j]])
    BY <1>6, Zenon DEF LoadEnd
  <2>4. /\ inst'[k] = r /\ lock'[k] = r
        /\ \A j \in Keys : j # k => \/ inst'[j] = inst[j] /\ lock'[j] = lock[j]
                                    \/ inst'[j] = None /\ lock'[j] = None
        /\ inst' \in [Keys -> Insts \cup {None}] /\ lock' \in [Keys -> Reqs \cup {None}]
    BY <2>1, <2>3 DEF KeepLock, LInv, HTypes, Insts
  <2>5. HTypes'
    BY <2>2, <2>4 DEF LInv, HTypes, Insts
  <2>6. FreshInv'
    BY <2>1, <2>2, <2>4 DEF LInv, HTypes, FreshInv, Fresh
  <2>7. LockInv'
    <3>1. (\A j \in Keys : inst[j] # r) /\ (\A s \in Reqs : hInst[s] # r)
      BY <2>1 DEF LInv, FreshInv, Fresh
    <3>2. \A i, j \in Keys : inst'[j] # None /\ inst'[i] = inst'[j] => i = j
      BY <2>4, <3>1 DEF LInv, LockInv
    <3>3. \A j \in Keys : lock'[j] # None => inst'[j] # None
      BY <2>4 DEF LInv, LockInv
    <3>4. \A s \in Reqs : hInst'[s] # None => hLock'[s] # None
      BY <2>2 DEF LInv, HTypes, LockInv
    <3>5. ASSUME NEW s \in Reqs, NEW j \in Keys, hInst'[s] # None, hInst'[s] = inst'[j]
          PROVE  lock'[j] = hLock'[s]
      <4>1. CASE s = r
        BY <2>1, <2>2, <2>4, <3>1, <3>5, <4>1 DEF LInv, HTypes
      <4>2. CASE s # r
        BY <2>1, <2>2, <2>4, <3>1, <3>5, <4>2 DEF LInv, HTypes, LockInv
      <4> QED BY <4>1, <4>2
    <3> QED BY <3>2, <3>3, <3>4, <3>5 DEF LockInv
  <2>8. InstanceHasOneLock'
    BY <2>1, <2>2 DEF LInv, HTypes, FreshInv, Fresh, InstanceHasOneLock
  <2> QED BY <2>5, <2>6, <2>7, <2>8 DEF LInv
<1>7. ASSUME NEW r \in Reqs, LoadFails(r) PROVE LInv'
  BY <1>7 DEF LoadFails, LInv, HTypes, FreshInv, Fresh, LockInv, InstanceHasOneLock
<1>8. ASSUME NEW r \in Reqs, StartCall(r) \/ StreamNext(r) \/ StreamStops(r) PROVE LInv'
  <2>1. Call(r) \in Calls
    BY DEF Call, Calls, LInv, HTypes
  <2>2. holder' \in [Reqs -> Calls \cup {None}] /\ running' \in SUBSET Calls
    BY <1>8, <2>1 DEF StartCall, StreamNext, StreamStops, LInv, HTypes
  <2>3. HTypes'
    BY <1>8, <2>2 DEF StartCall, StreamNext, StreamStops, LInv, HTypes
  <2> QED BY <1>1, <1>8, <2>3 DEF StartCall, StreamNext, StreamStops, LInv, HTypes, Fresh
<1>9. ASSUME NEW r \in Reqs, TimesOut(r) PROVE LInv'
  <2>1. HTypes'
    BY <1>9 DEF TimesOut, AfterCall, LInv, HTypes
  <2> QED BY <1>1, <1>9, <2>1 DEF TimesOut, AfterCall, LInv, HTypes, Fresh
<1>10. ASSUME NEW r \in Reqs, Cancel(r) PROVE LInv'
  <2>1. HTypes'
    BY <1>10 DEF Cancel, LInv, HTypes
  <2> QED
    BY <1>10, <2>1 DEF Cancel, LInv, HTypes, FreshInv, Fresh, LockInv, InstanceHasOneLock
<1>11. ASSUME NEW c \in running, CallEnds(c) PROVE LInv'
  <2>1. c[1] \in Reqs
    BY DEF LInv, HTypes, Calls
  <2>2. HTypes'
    BY <1>11, <2>1 DEF CallEnds, AfterCall, LInv, HTypes
  <2> QED BY <1>1, <1>11, <2>1, <2>2 DEF CallEnds, AfterCall, LInv, HTypes, Fresh
<1>12. CASE PromoteEvict
  <2>1. PICK E : Drop(E)
    BY <1>12, Zenon DEF PromoteEvict
  <2>2. UNCHANGED <<loader, reqVars, callVars, bound>>
    BY <1>12 DEF PromoteEvict
  <2> QED
    BY <2>1, <2>2, DropKeeps
    DEF reqVars, LInv, HTypes, FreshInv, LockInv, InstanceHasOneLock
<1>13. CASE \/ PromoteCommit \/ PromoteWaits \/ UNCHANGED vars
            \/ \E r \in Reqs : OrphanEnds(r)
  <2>1. HTypes'
    BY <1>13 DEF PromoteCommit, PromoteWaits, OrphanEnds, vars, reqVars, LInv, HTypes
  <2> QED
    BY <1>1, <1>13, <2>1
    DEF PromoteCommit, PromoteWaits, OrphanEnds, vars, reqVars, LInv
<1> QED
  BY <1>2, <1>3, <1>4, <1>5, <1>6, <1>7, <1>8, <1>9, <1>10, <1>11, <1>12, <1>13
  DEF Next, GetModel

LEMMA LockInit == Init => LInv
BY ModelCacheAssumption
DEF Init, LInv, HTypes, FreshInv, Fresh, LockInv, InstanceHasOneLock, Insts, Pc, Range

\* One Llama, one lock, in every reachable state: evicting and reloading a variant
\* never lets two requests use the same object under different locks.
THEOREM OneLock == Spec => []InstanceHasOneLock
<1>1. LInv => InstanceHasOneLock
  BY DEF LInv
<1> QED BY <1>1, LockInit, LockStep, PTL DEF Spec

-----------------------------------------------------------------------------
(* One call at a time.                                                      *)

\* An inference lock is held for the call that runs under it, past its time-out,
\* unless its stream was cancelled; a stream keeps it between two tokens.
CallInv ==
    /\ \A c \in running : hInst[c[1]] # None /\ rpc[c[1]] \notin Fresh
    /\ \A c \in running : ~Abandoned(c) => holder[hLock[c[1]]] = c
    /\ \A c \in running :
          Streams(c) => rpc[c[1]] \in {"calling", "done"} /\ Call(c[1]) = c
    /\ \A r \in Reqs : rpc[r] \in {"ready", "calling", "between"} => hInst[r] # None
    /\ \A r \in Reqs : rpc[r] = "calling" => Call(r) \in running
    /\ \A r \in Reqs : rpc[r] = "between" =>
          Streams(Call(r)) /\ holder[hLock[r]] = Call(r) /\ Call(r) \notin running

LEMMA CallStep == LInv /\ CallInv /\ [Next]_vars => CallInv'
<1> SUFFICES ASSUME LInv, CallInv, [Next]_vars PROVE CallInv'
  OBVIOUS
<1>0. /\ \A c \in running : c[1] \in Reqs /\ c = <<c[1], c[2]>> /\ c # None
      /\ \A r \in Reqs : Call(r) = <<r, stage[r]>> /\ Call(r)[1] = r /\ Call(r) # None
      /\ \A c \in running : hLock[c[1]] \in Reqs
      /\ \A r \in Reqs : hInst[r] # None => hLock[r] \in Reqs
  BY ModelCacheAssumption DEF CallInv, LInv, HTypes, LockInv, Calls, Call
<1> USE <1>0 DEF Goto, cacheVars, loadVars, callVars, bindVars, Abandoned
\* Steps of a request that has no handle touch no call, and give it at most one.
<1>1. ASSUME NEW r \in Reqs, rpc[r] \in Fresh,
             UNCHANGED <<holder, running>>,
             \E l \in Fresh \cup {"ready", "done"} : rpc' = [rpc EXCEPT ![r] = l],
             \A s \in Reqs \ {r} : /\ hInst'[s] = hInst[s] /\ hLock'[s] = hLock[s]
                                   /\ kind'[s] = kind[s] /\ stage'[s] = stage[s],
             rpc'[r] = "ready" => hInst'[r] # None
      PROVE  CallInv'
  <2>1. \A c \in running : c[1] # r
    BY <1>1 DEF CallInv
  <2>2. \A s \in Reqs \ {r} : rpc'[s] = rpc[s] /\ Call(s)' = Call(s)
    BY <1>1 DEF Call, LInv, HTypes
  <2>3. \A c \in running : Streams(c)' <=> Streams(c)
    BY <1>1, <2>1 DEF Streams
  <2>4. \A s \in Reqs \ {r} : Streams(Call(s))' <=> Streams(Call(s))
    BY <1>1, <2>2 DEF Streams, Call
  <2>5. rpc'[r] \in Fresh \cup {"ready", "done"}
    BY <1>1 DEF LInv, HTypes
  <2> QED BY <1>1, <2>1, <2>2, <2>3, <2>4, <2>5 DEF CallInv, Fresh
<1>2. ASSUME NEW r \in Reqs, Resolve(r) PROVE CallInv'
  BY <1>1, <1>2 DEF Resolve, Fresh, LInv, HTypes
<1>3. ASSUME NEW r \in Reqs, GetModel(r) \/ LoadFails(r) PROVE CallInv'
  <2>1. CASE EnsureHit(r) \/ LoadHit(r)
    BY <1>1, <2>1 DEF EnsureHit, LoadHit, HitCache, TakeHandle, Fresh, LInv, HTypes
  <2>2. CASE EnsureWaits(r) \/ LoadRefused(r) \/ LoadFails(r)
    BY <1>1, <2>2 DEF EnsureWaits, LoadRefused, LoadFails, InLoad, Fresh, LInv, HTypes
  <2>3. CASE LoadBegin(r)
    <3>1. /\ rpc[r] \in Fresh /\ rpc' = [rpc EXCEPT ![r] = "loading"]
          /\ UNCHANGED <<holder, running, hInst, hLock, kind, stage>>
      BY <2>3 DEF LoadBegin, InLoad, Fresh
    <3>2. rpc'[r] = "loading"
      BY <3>1 DEF LInv, HTypes
    <3> QED BY <1>1, <3>1, <3>2 DEF Fresh
  <2>4. CASE LoadEnd(r)
    <3>1. /\ rpc[r] \in Fresh /\ rpc' = [rpc EXCEPT ![r] = "ready"]
          /\ hInst' = [hInst EXCEPT ![r] = r]
          /\ \E l : hLock' = [hLock EXCEPT ![r] = l]
          /\ \E x : stage' = [stage EXCEPT ![r] = x]
          /\ UNCHANGED <<holder, running, kind>>
      BY <2>4, Zenon DEF LoadEnd, TakeHandle, Fresh
    <3>2. hInst'[r] # None
      BY <3>1, ModelCacheAssumption DEF LInv, HTypes
    <3>3. \A s \in Reqs \ {r} : /\ hInst'[s] = hInst[s] /\ hLock'[s] = hLock[s]
                                 /\ stage'[s] = stage[s]
      BY <3>1 DEF LInv, HTypes
    <3> QED BY <1>1, <3>1, <3>2, <3>3
  <2> QED BY <1>3, <2>1, <2>2, <2>3, <2>4 DEF GetModel
<1>4. ASSUME NEW r \in Reqs, StartCall(r) PROVE CallInv'
  <2>1. /\ hInst[r] # None /\ hLock[r] \in Reqs
        /\ \A c \in running : ~Abandoned(c) => hLock[c[1]] # hLock[r]
    BY <1>4 DEF StartCall, CallInv
  <2> QED
    BY <1>4, <2>1 DEF StartCall, CallInv, LInv, HTypes, Fresh, Streams, Call
<1>5. ASSUME NEW c \in running, CallEnds(c) PROVE CallInv'
  <2> DEFINE r == c[1]
  <2>1. r \in Reqs /\ hLock[r] \in Reqs /\ hInst[r] # None
    BY DEF CallInv
  <2>2. CASE Streams(c)
    <3>1. rpc[r] \in {"calling", "done"} /\ Call(r) = c
      BY <2>2 DEF CallInv
    <3>2. /\ UNCHANGED <<kind, stage, hInst, hLock, holder>> /\ running' = running \ {c}
          /\ IF rpc[r] = "calling" THEN rpc' = [rpc EXCEPT ![r] = "between"] ELSE rpc' = rpc
      BY <1>5, <2>2, <3>1, Zenon DEF CallEnds
    <3>3. rpc[r] = "calling" => holder[hLock[r]] = c
      BY <2>2 DEF CallInv
    <3> QED
      BY <2>1, <2>2, <3>1, <3>2, <3>3
      DEF CallInv, LInv, HTypes, Fresh, Streams, Call
  <2>3. CASE ~Streams(c)
    <3>0. holder[hLock[r]] = c
      BY <2>3 DEF CallInv
    <3>1. \A d \in running : ~Abandoned(d) /\ d # c => hLock[d[1]] # hLock[r]
      BY <3>0 DEF CallInv
    <3>2. \A s \in Reqs : rpc[s] = "between" => hLock[s] # hLock[r] /\ s # r
      BY <2>3, <3>0 DEF CallInv
    <3>3. /\ holder' = [holder EXCEPT ![hLock[r]] = None] /\ running' = running \ {c}
          /\ UNCHANGED <<kind, hInst, hLock>>
      BY <1>5, <2>3 DEF CallEnds
    <3>4. \/ UNCHANGED <<rpc, stage>> /\ ~(rpc[r] = "calling" /\ Call(r) = c)
          \/ rpc[r] = "calling" /\ Call(r) = c /\ AfterCall(r)
      BY <1>5, <2>3, Zenon DEF CallEnds
    <3>5. CASE UNCHANGED <<rpc, stage>> /\ ~(rpc[r] = "calling" /\ Call(r) = c)
      BY <2>1, <2>3, <3>1, <3>2, <3>3, <3>5
      DEF CallInv, LInv, HTypes, Fresh, Streams, Call
    <3>6. CASE rpc[r] = "calling" /\ Call(r) = c /\ AfterCall(r)
      <4>1. /\ rpc' \in {[rpc EXCEPT ![r] = "ready"], [rpc EXCEPT ![r] = "done"]}
            /\ stage' \in {stage, [stage EXCEPT ![r] = "main"]}
        BY <3>6 DEF AfterCall
      <4>2. \A d \in running : Streams(d) => d[1] # r
        BY <2>3, <3>6 DEF CallInv
      <4>3. \A s \in Reqs \ {r} : /\ rpc'[s] = rpc[s] /\ Call(s)' = Call(s)
                                  /\ Streams(Call(s))' <=> Streams(Call(s))
        BY <3>3, <4>1 DEF LInv, HTypes, Streams, Call
      <4>4. /\ \A d \in running : Streams(d)' <=> Streams(d)
            /\ rpc'[r] \in {"ready", "done"}
        BY <3>3, <4>1 DEF LInv, HTypes, Streams
      <4> QED
        BY <2>1, <2>3, <3>1, <3>2, <3>3, <4>2, <4>3, <4>4
        DEF CallInv, LInv, HTypes, Fresh
    <3> QED BY <3>4, <3>5, <3>6
  <2> QED BY <2>2, <2>3
<1>6. ASSUME NEW r \in Reqs, StreamNext(r) PROVE CallInv'
  BY <1>6 DEF StreamNext, CallInv, LInv, HTypes, Fresh, Streams, Call
<1>7. ASSUME NEW r \in Reqs, StreamStops(r) PROVE CallInv'
  <2>1. /\ hLock[r] \in Reqs
        /\ \A c \in running : ~Abandoned(c) => hLock[c[1]] # hLock[r]
        /\ \A s \in Reqs : rpc[s] = "between" /\ s # r => hLock[s] # hLock[r]
        /\ \A c \in running : Streams(c) => c[1] # r
    BY <1>7 DEF StreamStops, CallInv
  <2> QED
    BY <1>7, <2>1 DEF StreamStops, CallInv, LInv, HTypes, Fresh, Streams, Call
<1>8. ASSUME NEW r \in Reqs, TimesOut(r) \/ Leave(r) PROVE CallInv'
  <2>1. \A c \in running : Streams(c) => c[1] # r
    BY <1>8 DEF TimesOut, Leave, CallInv
  <2> QED
    BY <1>8, <2>1
    DEF TimesOut, AfterCall, Leave, CallInv, LInv, HTypes, Fresh, Streams, Call
<1>9. CASE \/ PromoteCommit \/ PromoteWaits \/ PromoteEvict \/ UNCHANGED vars
           \/ \E r \in Reqs : OrphanEnds(r)
  <2>1. UNCHANGED <<rpc, kind, stage, hInst, hLock, holder, running>>
    BY <1>9 DEF PromoteCommit, PromoteWaits, PromoteEvict, OrphanEnds, vars, reqVars
  <2> QED BY <2>1 DEF CallInv, Streams, Call
<1>10. ASSUME NEW r \in Reqs, Cancel(r) PROVE CallInv'
  <2>1. /\ rpc[r] # "between" /\ rpc[r] # "done"
        /\ rpc' = [rpc EXCEPT ![r] = "done"]
        /\ UNCHANGED <<kind, stage, hInst, hLock>>
    BY <1>10 DEF Cancel
  <2>2. CASE UNCHANGED callVars
    BY <2>1, <2>2 DEF CallInv, LInv, HTypes, Fresh, Streams, Call
  <2>3. CASE rpc[r] = "calling" /\ Streams(Call(r))
    <3>1. /\ holder' = [holder EXCEPT ![hLock[r]] = None]
          /\ running' \in {running, running \ {Call(r)}}
      BY <1>10, <2>3 DEF Cancel
    <3>2. /\ hLock[r] \in Reqs
          /\ \A c \in running : ~Abandoned(c) /\ c # Call(r) => hLock[c[1]] # hLock[r]
          /\ \A s \in Reqs : rpc[s] = "between" => hLock[s] # hLock[r]
      BY <2>1, <2>3 DEF CallInv
    <3>3. \A s \in Reqs : rpc'[s] = IF s = r THEN "done" ELSE rpc[s]
      BY <2>1 DEF LInv, HTypes
    <3>4. /\ \A c \in running : Streams(c)' <=> Streams(c)
          /\ \A s \in Reqs : Call(s)' = Call(s) /\ (Streams(Call(s))' <=> Streams(Call(s)))
      BY <2>1 DEF Streams, Call
    <3> QED BY <2>1, <2>3, <3>1, <3>2, <3>3, <3>4 DEF CallInv, LInv, HTypes, Fresh
  <2> QED BY <1>10, <2>2, <2>3 DEF Cancel
<1> QED
  BY <1>2, <1>3, <1>4, <1>5, <1>6, <1>7, <1>8, <1>9, <1>10 DEF Next

\* No Llama is ever called by two threads, whatever times out, is evicted,
\* reloaded or promoted, but for the calls that cancelled streams leave behind.
THEOREM OneCall == Spec => []OneAttendedCall
<1>1. Init => CallInv
  BY DEF Init, CallInv
<1>2. LInv /\ CallInv => OneAttendedCall
  BY DEF LInv, HTypes, Calls, CallInv, InstanceHasOneLock, OneAttendedCall
<1> QED BY <1>1, <1>2, CallStep, LockInit, LockStep, PTL DEF Spec

-----------------------------------------------------------------------------
(* What a set of models costs.                                              *)

\* A set of numbers that is not empty has a least one.
LEMMA NatMin ==
  ASSUME NEW T, T \subseteq Nat, T # {}
  PROVE  \E n \in T : \A k \in T : n <= k
<1> DEFINE R == {ss \in Nat \X Nat : ss[1] < ss[2]}
<1>1. IsWellFoundedOn(R, Nat)
  BY NatLessThanWellFounded DEF OpToRel
<1> HIDE DEF R
<1>2. PICK n \in T : \A k \in T : ~(<<k, n>> \in R)
  BY <1>1, WFMin
<1>3. \A k \in T : ~(k < n)
  BY <1>2 DEF R
<1> QED BY <1>2, <1>3

\* The sum over a set of keys is a fold, which takes its elements in some order.
One(s) == CHOOSE k \in s : TRUE

Folds(g, D) == g = [s \in D |-> IF s = {} THEN 0 ELSE Cost[One(s)] + g[s \ {One(s)}]]

LEMMA OneOf == ASSUME NEW s, s # {} PROVE One(s) \in s
BY DEF One

LEMMA SumIsFold == ASSUME NEW S PROVE TotalCost(S) = (CHOOSE g : Folds(g, SUBSET S))[S]
BY Zenon DEF TotalCost, SumFunctionOnSet, FoldFunctionOnSet, MapThenFoldSet, Folds, One

\* One element less.
LEMMA Smaller ==
  ASSUME NEW S, IsFiniteSet(S), NEW s \in SUBSET S, NEW k \in s
  PROVE  /\ s \ {k} \in SUBSET S /\ IsFiniteSet(s) /\ IsFiniteSet(s \ {k})
         /\ Cardinality(s) \in Nat /\ Cardinality(s \ {k}) \in Nat
         /\ Cardinality(s \ {k}) = Cardinality(s) - 1
<1>1. IsFiniteSet(s)
  BY FS_Subset
<1>2. IsFiniteSet(s \ {k}) /\ Cardinality(s \ {k}) = Cardinality(s) - 1
  BY <1>1, FS_RemoveElement
<1> QED BY <1>1, <1>2, FS_CardinalityType

LEMMA FoldExists == ASSUME NEW S, IsFiniteSet(S) PROVE \E g : Folds(g, SUBSET S)
<1> DEFINE D(n) == {s \in SUBSET S : Cardinality(s) <= n}
           Bad == {n \in Nat : ~ \E g : Folds(g, D(n))}
<1>0. \A s \in SUBSET S : IsFiniteSet(s) /\ Cardinality(s) \in Nat
  BY FS_Subset, FS_CardinalityType
<1>1. 0 \notin Bad
  <2>1. \A s \in D(0) : s = {}
    BY <1>0, FS_EmptySet
  <2>2. Folds([s \in D(0) |-> 0], D(0))
    BY <2>1 DEF Folds
  <2> QED BY <2>2
<1>2. ASSUME NEW n \in Nat, n \notin Bad PROVE n + 1 \notin Bad
  <2>1. PICK g : Folds(g, D(n))
    BY <1>2
  <2>2. PICK h : h = [s \in D(n + 1) |-> IF s = {} THEN 0 ELSE Cost[One(s)] + g[s \ {One(s)}]]
    OBVIOUS
  <2>3. \A s \in D(n) : g[s] = IF s = {} THEN 0 ELSE Cost[One(s)] + g[s \ {One(s)}]
    BY <2>1, Zenon DEF Folds
  <2>4. \A s \in D(n) : s \in D(n + 1) /\ h[s] = g[s]
    BY <1>0, <2>2, <2>3
  <2>5. \A s \in D(n + 1) : s # {} => s \ {One(s)} \in D(n)
    <3> SUFFICES ASSUME NEW s \in D(n + 1), s # {} PROVE s \ {One(s)} \in D(n)
      OBVIOUS
    <3>1. PICK k \in s : k = One(s)
      BY OneOf
    <3>2. s \in SUBSET S /\ Cardinality(s) <= n + 1
      OBVIOUS
    <3>3. s \ {k} \in SUBSET S /\ Cardinality(s \ {k}) <= n
      BY <3>2, Smaller
    <3> QED BY <3>1, <3>3
  <2>6. Folds(h, D(n + 1))
    <3> HIDE DEF D
    <3>1. \A s \in D(n + 1) : s # {} => h[s \ {One(s)}] = g[s \ {One(s)}]
      BY <2>4, <2>5
    <3> QED BY <2>2, <3>1 DEF Folds
  <2> QED BY <2>6
<1>3. Bad = {}
  <2> SUFFICES ASSUME Bad # {} PROVE FALSE
    OBVIOUS
  <2>1. PICK n \in Bad : \A k \in Bad : n <= k
    BY NatMin, Bad \subseteq Nat
  <2>2. n \in Nat /\ n # 0
    BY <1>1
  <2>3. n - 1 \in Nat /\ n - 1 \notin Bad /\ n - 1 + 1 = n
    <3> HIDE DEF Bad
    <3> QED BY <2>1, <2>2
  <2> QED BY <1>2, <2>3
<1>4. Cardinality(S) \in Nat
  BY <1>0
<1>5. SUBSET S = D(Cardinality(S))
  BY <1>0, FS_Subset
<1> QED BY <1>3, <1>4, <1>5

\* What is summed does not depend on the set it is a part of.
LEMMA FoldUnique ==
  ASSUME NEW S, IsFiniteSet(S), NEW T \in SUBSET S,
         NEW g, Folds(g, SUBSET S), NEW h, Folds(h, SUBSET T)
  PROVE  g[T] = h[T]
<1> DEFINE Bad == {n \in Nat : \E s \in SUBSET T : Cardinality(s) = n /\ g[s] # h[s]}
<1>0. IsFiniteSet(T)
  BY FS_Subset
<1>1. \A s \in SUBSET T : /\ g[s] = IF s = {} THEN 0 ELSE Cost[One(s)] + g[s \ {One(s)}]
                          /\ h[s] = IF s = {} THEN 0 ELSE Cost[One(s)] + h[s \ {One(s)}]
  <2>1. \A s \in SUBSET S : g[s] = IF s = {} THEN 0 ELSE Cost[One(s)] + g[s \ {One(s)}]
    BY Zenon DEF Folds
  <2>2. \A s \in SUBSET T : h[s] = IF s = {} THEN 0 ELSE Cost[One(s)] + h[s \ {One(s)}]
    BY Zenon DEF Folds
  <2>3. SUBSET T \subseteq SUBSET S
    OBVIOUS
  <2> QED BY <2>1, <2>2, <2>3
<1>2. Bad = {}
  <2> SUFFICES ASSUME Bad # {} PROVE FALSE
    OBVIOUS
  <2>1. PICK n \in Bad : \A k \in Bad : n <= k
    BY NatMin, Bad \subseteq Nat
  <2>2. PICK s \in SUBSET T : Cardinality(s) = n /\ g[s] # h[s]
    BY <2>1
  <2>3. s # {}
    BY <1>1, <2>2
  <2>4. PICK t \in SUBSET T : t = s \ {One(s)} /\ Cardinality(t) \in Nat /\ Cardinality(t) < n
    <3>1. PICK k \in s : k = One(s)
      BY <2>3, OneOf
    <3> HIDE DEF Bad
    <3>2. /\ s \ {k} \in SUBSET T /\ Cardinality(s) \in Nat /\ Cardinality(s \ {k}) \in Nat
          /\ Cardinality(s \ {k}) = Cardinality(s) - 1
      BY <1>0, Smaller
    <3>3. Cardinality(s \ {k}) < n
      BY <2>2, <3>2
    <3> QED BY <3>1, <3>2, <3>3
  <2>5. Cardinality(t) \notin Bad
    <3> HIDE DEF Bad
    <3>1. n \in Nat
      BY <2>1 DEF Bad
    <3> QED BY <2>1, <2>4, <3>1
  <2>6. g[t] = h[t]
    BY <2>4, <2>5
  <2> QED BY <1>1, <2>2, <2>3, <2>4, <2>6
<1>3. Cardinality(T) \in Nat
  BY <1>0, FS_CardinalityType
<1> QED BY <1>2, <1>3

LEMMA SumUnfold ==
  ASSUME NEW S, IsFiniteSet(S)
  PROVE  TotalCost(S) = IF S = {} THEN 0 ELSE Cost[One(S)] + TotalCost(S \ {One(S)})
<1>1. \A T \in SUBSET S : \E g : Folds(g, SUBSET T) /\ TotalCost(T) = g[T]
  <2> SUFFICES ASSUME NEW T \in SUBSET S PROVE \E g : Folds(g, SUBSET T) /\ TotalCost(T) = g[T]
    OBVIOUS
  <2>1. \E g : Folds(g, SUBSET T)
    BY FS_Subset, FoldExists
  <2> QED BY <2>1, SumIsFold
<1>2. PICK g : Folds(g, SUBSET S) /\ TotalCost(S) = g[S]
  BY <1>1
<1>3. g[S] = IF S = {} THEN 0 ELSE Cost[One(S)] + g[S \ {One(S)}]
  <2>1. \A s \in SUBSET S : g[s] = IF s = {} THEN 0 ELSE Cost[One(s)] + g[s \ {One(s)}]
    BY <1>2, Zenon DEF Folds
  <2> QED BY <2>1
<1>4. g[S \ {One(S)}] = TotalCost(S \ {One(S)})
  <2>1. PICK T \in SUBSET S : T = S \ {One(S)}
    OBVIOUS
  <2>2. PICK h : Folds(h, SUBSET T) /\ TotalCost(T) = h[T]
    BY <1>1
  <2>3. g[T] = h[T]
    BY <1>2, <2>2, FoldUnique
  <2> QED BY <2>1, <2>2, <2>3
<1> QED BY <1>2, <1>3, <1>4

LEMMA SumType ==
  ASSUME NEW S \in SUBSET Keys, IsFiniteSet(S)
  PROVE  TotalCost(S) \in Nat
<1> DEFINE Bad == {n \in Nat : \E s \in SUBSET S : Cardinality(s) = n /\ TotalCost(s) \notin Nat}
<1>1. Bad = {}
  <2> SUFFICES ASSUME Bad # {} PROVE FALSE
    OBVIOUS
  <2>1. PICK n \in Bad : \A k \in Bad : n <= k
    BY NatMin, Bad \subseteq Nat
  <2>2. PICK s \in SUBSET S : Cardinality(s) = n /\ TotalCost(s) \notin Nat
    BY <2>1
  <2>3. IsFiniteSet(s)
    BY FS_Subset
  <2>4. s # {} /\ TotalCost(s) = Cost[One(s)] + TotalCost(s \ {One(s)})
    BY <2>2, <2>3, SumUnfold
  <2>5. One(s) \in s /\ Cost[One(s)] \in Nat
    BY <2>4, OneOf, ModelCacheAssumption
  <2>6. PICK t \in SUBSET S : t = s \ {One(s)} /\ Cardinality(t) \in Nat /\ Cardinality(t) < n
    <3>1. One(s) \in s
      BY <2>5
    <3>2. s \ {One(s)} \in SUBSET S /\ Cardinality(s \ {One(s)}) \in Nat /\ Cardinality(s \ {One(s)}) < n
      BY <2>2, <3>1, Smaller
    <3> QED BY <3>2
  <2>7. Cardinality(t) \notin Bad
    <3>1. n \in Nat
      OBVIOUS
    <3> HIDE DEF Bad
    <3> QED BY <2>1, <2>6, <3>1
  <2> QED BY <2>2, <2>4, <2>5, <2>6, <2>7
<1> QED BY <1>1, FS_CardinalityType

LEMMA SumOfNone == TotalCost({}) = 0
BY FS_EmptySet, SumUnfold

\* Any element may be taken first.
LEMMA SumRemove ==
  ASSUME NEW S \in SUBSET Keys, IsFiniteSet(S), NEW k \in S
  PROVE  TotalCost(S) = Cost[k] + TotalCost(S \ {k})
<1> DEFINE Ok(s) == \A j \in s : TotalCost(s) = Cost[j] + TotalCost(s \ {j})
           Bad == {n \in Nat : \E s \in SUBSET S : Cardinality(s) = n /\ ~Ok(s)}
<1>1. Bad = {}
  <2> SUFFICES ASSUME Bad # {} PROVE FALSE
    OBVIOUS
  <2>1. PICK n \in Bad : \A i \in Bad : n <= i
    BY NatMin, Bad \subseteq Nat
  <2>2. PICK s \in SUBSET S : Cardinality(s) = n /\ ~Ok(s)
    BY <2>1
  <2>3. PICK j \in s : TotalCost(s) # Cost[j] + TotalCost(s \ {j})
    BY <2>2
  <2>4. PICK c \in s : TotalCost(s) = Cost[c] + TotalCost(s \ {c})
    BY FS_Subset, OneOf, SumUnfold
  <2>5. ASSUME NEW i \in s PROVE Ok(s \ {i})
    <3>1. s \ {i} \in SUBSET S /\ Cardinality(s \ {i}) \in Nat /\ Cardinality(s \ {i}) < n
      BY <2>2, Smaller
    <3>2. n \in Nat
      OBVIOUS
    <3>3. Cardinality(s \ {i}) \notin Bad
      <4> HIDE DEF Bad
      <4> QED BY <2>1, <3>1, <3>2
    <3> QED BY <3>1, <3>3
  <2>6. c # j
    BY <2>3, <2>4
  <2>7. TotalCost(s \ {c}) = Cost[j] + TotalCost((s \ {c}) \ {j})
    BY <2>5, <2>6
  <2>8. TotalCost(s \ {j}) = Cost[c] + TotalCost((s \ {j}) \ {c})
    BY <2>5, <2>6
  <2>9. (s \ {j}) \ {c} = (s \ {c}) \ {j}
    OBVIOUS
  <2>10. PICK x \in Nat : x = TotalCost((s \ {c}) \ {j})
    BY FS_Subset, SumType
  <2>11. Cost[c] \in Nat /\ Cost[j] \in Nat
    BY ModelCacheAssumption
  <2>12. TotalCost(s \ {c}) = Cost[j] + x /\ TotalCost(s \ {j}) = Cost[c] + x
    BY <2>7, <2>8, <2>9, <2>10
  <2> QED BY <2>3, <2>4, <2>11, <2>12
<1>2. Cardinality(S) \in Nat /\ S \in SUBSET S
  BY FS_CardinalityType
<1>3. Ok(S)
  <2> HIDE DEF Ok
  <2> QED BY <1>1, <1>2
<1> QED BY <1>3

\* A part costs no more than the whole.
LEMMA SumPart ==
  ASSUME NEW S \in SUBSET Keys, IsFiniteSet(S), NEW T \in SUBSET S
  PROVE  TotalCost(T) <= TotalCost(S)
<1> DEFINE Ok(s) == T \subseteq s => TotalCost(T) <= TotalCost(s)
           Bad == {n \in Nat : \E s \in SUBSET S : Cardinality(s) = n /\ ~Ok(s)}
<1>0. TotalCost(T) \in Nat
  BY FS_Subset, SumType
<1>1. Bad = {}
  <2> SUFFICES ASSUME Bad # {} PROVE FALSE
    OBVIOUS
  <2>1. PICK n \in Bad : \A i \in Bad : n <= i
    BY NatMin, Bad \subseteq Nat
  <2>2. PICK s \in SUBSET S : Cardinality(s) = n /\ ~Ok(s)
    BY <2>1
  <2>3. T \subseteq s /\ ~(TotalCost(T) <= TotalCost(s)) /\ IsFiniteSet(s)
    BY <2>2, FS_Subset
  <2>4. PICK j \in s : j \notin T
    BY <1>0, <2>3
  <2>5. TotalCost(s) = Cost[j] + TotalCost(s \ {j}) /\ Cost[j] \in Nat
    BY <2>3, SumRemove, ModelCacheAssumption
  <2>6. /\ s \ {j} \in SUBSET S /\ IsFiniteSet(s \ {j})
        /\ Cardinality(s \ {j}) \in Nat /\ Cardinality(s \ {j}) < n
    <3> HIDE DEF Bad, Ok
    <3>1. /\ s \ {j} \in SUBSET S /\ IsFiniteSet(s \ {j})
          /\ Cardinality(s) \in Nat /\ Cardinality(s \ {j}) \in Nat
          /\ Cardinality(s \ {j}) = Cardinality(s) - 1
      BY Smaller
    <3> QED BY <2>2, <3>1
  <2>7. n \in Nat
    OBVIOUS
  <2>8. Cardinality(s \ {j}) \notin Bad
    <3> HIDE DEF Bad
    <3> QED BY <2>1, <2>6, <2>7
  <2>9. TotalCost(T) <= TotalCost(s \ {j})
    BY <2>3, <2>4, <2>6, <2>8
  <2>10. TotalCost(s \ {j}) \in Nat
    <3>1. s \ {j} \in SUBSET Keys
      OBVIOUS
    <3> QED BY <2>6, <3>1, SumType
  <2> QED BY <1>0, <2>3, <2>5, <2>9, <2>10
<1>2. Cardinality(S) \in Nat /\ S \in SUBSET S
  BY FS_CardinalityType
<1> QED BY <1>1, <1>2

-----------------------------------------------------------------------------
(* The order of the cache.                                                  *)

Order(s) == s \in Seq(Keys) /\ \A i, j \in DOMAIN s : s[i] = s[j] => i = j

LEMMA OrderFacts ==
  ASSUME NEW s, Order(s)
  PROVE  /\ Len(s) \in Nat /\ DOMAIN s = 1..Len(s) /\ Range(s) \in SUBSET Keys
         /\ \A i \in 1..Len(s) : s[i] \in Keys
         /\ IsFiniteSet(Range(s))
<1>1. Len(s) \in Nat /\ DOMAIN s = 1..Len(s) /\ \A i \in 1..Len(s) : s[i] \in Keys
  BY DEF Order
<1>2. Range(s) \in SUBSET Keys
  BY <1>1 DEF Range
<1>3. IsFiniteSet(Range(s))
  <2>1. IsFiniteSet(1..Len(s))
    BY <1>1, FS_Interval
  <2>2. s \in [1..Len(s) -> Range(s)] /\ \A k \in Range(s) : \E i \in 1..Len(s) : s[i] = k
    BY <1>1 DEF Range, Order
  <2>3. s \in Surjection(1..Len(s), Range(s))
    BY <2>2 DEF Surjection
  <2> QED BY <2>1, <2>3, FS_Surjection
<1> QED BY <1>1, <1>2, <1>3

LEMMA PlaceOf ==
  ASSUME NEW s, Order(s), NEW k \in Range(s)
  PROVE  Place(s, k) \in 1..Len(s) /\ s[Place(s, k)] = k
<1>1. \E j \in DOMAIN s : s[j] = k
  BY DEF Range
<1> QED BY <1>1, OrderFacts DEF Place

LEMMA MoveKeepsOrder ==
  ASSUME NEW s, Order(s), NEW k \in Range(s)
  PROVE  /\ Order(MoveToEnd(s, k)) /\ Range(MoveToEnd(s, k)) = Range(s)
         /\ Len(MoveToEnd(s, k)) = Len(s)
<1>1. PICK n \in Nat : n = Len(s) /\ DOMAIN s = 1..n /\ \A i \in 1..n : s[i] \in Keys
  BY OrderFacts
<1>2. PICK p \in 1..n : p = Place(s, k) /\ s[p] = k
  BY <1>1, PlaceOf
<1>3. PICK t : t = [j \in 1..n |-> IF j < p THEN s[j] ELSE IF j = n THEN k ELSE s[j + 1]]
  OBVIOUS
<1>4. MoveToEnd(s, k) = t
  BY <1>1, <1>2, <1>3 DEF MoveToEnd
<1>5. k \in Keys
  BY <1>1, <1>2
<1>6. \A j \in 1..n : t[j] \in Keys
  BY <1>1, <1>2, <1>3, <1>5
<1>7. t \in Seq(Keys) /\ Len(t) = n /\ DOMAIN t = 1..n
  BY <1>3, <1>6
<1>8. \A i, j \in 1..n : s[i] = s[j] => i = j
  BY <1>1 DEF Order
<1>9. \A i, j \in 1..n : t[i] = t[j] => i = j
  BY <1>2, <1>3, <1>8
<1>10. \A j \in 1..n : \E i \in 1..n : s[i] = t[j]
  BY <1>2, <1>3
<1>11. \A i \in 1..n : \E j \in 1..n : t[j] = s[i]
  <2> SUFFICES ASSUME NEW i \in 1..n PROVE \E j \in 1..n : t[j] = s[i]
    OBVIOUS
  <2>1. CASE i < p
    BY <1>3, <2>1
  <2>2. CASE i = p
    <3>1. n \in 1..n /\ t[n] = k
      BY <1>2, <1>3
    <3> QED BY <1>2, <2>2, <3>1
  <2>3. CASE i > p
    <3>1. i - 1 \in 1..n /\ i - 1 >= p /\ i - 1 # n /\ i - 1 + 1 = i
      BY <1>2, <2>3
    <3>2. t[i - 1] = s[i]
      BY <1>2, <1>3, <3>1
    <3> QED BY <3>1, <3>2
  <2> QED BY <1>2, <2>1, <2>2, <2>3
<1>12. Range(t) = Range(s)
  <2>1. ASSUME NEW x \in Range(t) PROVE x \in Range(s)
    <3>1. PICK j \in 1..n : x = t[j]
      BY <1>7 DEF Range
    <3> QED BY <1>1, <1>10, <3>1 DEF Range
  <2>2. ASSUME NEW x \in Range(s) PROVE x \in Range(t)
    <3>1. PICK i \in 1..n : x = s[i]
      BY <1>1 DEF Range
    <3> QED BY <1>7, <1>11, <3>1 DEF Range
  <2> QED BY <2>1, <2>2
<1> QED BY <1>1, <1>4, <1>7, <1>9, <1>12 DEF Order

LEMMA WithoutKeepsOrder ==
  ASSUME NEW s, Order(s), NEW k \in Range(s)
  PROVE  /\ Order(Without(s, k)) /\ Range(Without(s, k)) = Range(s) \ {k}
         /\ Len(Without(s, k)) <= Len(s)
<1>1. PICK n \in Nat : n = Len(s) /\ DOMAIN s = 1..n /\ \A i \in 1..n : s[i] \in Keys
  BY OrderFacts
<1>2. PICK p \in 1..n : p = Place(s, k) /\ s[p] = k
  BY <1>1, PlaceOf
<1>3. PICK t : t = [j \in 1..n - 1 |-> IF j < p THEN s[j] ELSE s[j + 1]]
  OBVIOUS
<1>4. Without(s, k) = t
  BY <1>1, <1>2, <1>3 DEF Without
<1>5. \A j \in 1..n - 1 : t[j] \in Keys
  BY <1>1, <1>2, <1>3
<1>6. n - 1 \in Nat
  BY <1>2
<1>7. t \in Seq(Keys) /\ Len(t) = n - 1 /\ DOMAIN t = 1..n - 1
  BY <1>3, <1>5, <1>6
<1>8. \A i, j \in 1..n : s[i] = s[j] => i = j
  BY <1>1 DEF Order
<1>9. \A i, j \in 1..n - 1 : t[i] = t[j] => i = j
  BY <1>2, <1>3, <1>8
<1>10. \A j \in 1..n - 1 : \E i \in 1..n : s[i] = t[j] /\ i # p
  BY <1>2, <1>3
<1>11. \A i \in 1..n : i # p => \E j \in 1..n - 1 : t[j] = s[i]
  <2> SUFFICES ASSUME NEW i \in 1..n, i # p PROVE \E j \in 1..n - 1 : t[j] = s[i]
    OBVIOUS
  <2>1. CASE i < p
    <3>1. i \in 1..n - 1
      BY <1>2, <2>1
    <3> QED BY <1>3, <2>1, <3>1
  <2>2. CASE i > p
    <3>1. i - 1 \in 1..n - 1 /\ i - 1 >= p /\ i - 1 + 1 = i
      BY <1>2, <2>2
    <3>2. t[i - 1] = s[i]
      BY <1>2, <1>3, <3>1
    <3> QED BY <3>1, <3>2
  <2> QED BY <1>2, <2>1, <2>2
<1>12. \A i \in 1..n : s[i] = k <=> i = p
  BY <1>2, <1>8
<1>13. Range(t) = Range(s) \ {k}
  <2>1. ASSUME NEW x \in Range(t) PROVE x \in Range(s) /\ x # k
    <3>1. PICK j \in 1..n - 1 : x = t[j]
      BY <1>7 DEF Range
    <3> QED BY <1>1, <1>10, <1>12, <3>1 DEF Range
  <2>2. ASSUME NEW x \in Range(s), x # k PROVE x \in Range(t)
    <3>1. PICK i \in 1..n : x = s[i] /\ i # p
      BY <1>1, <1>2, <2>2 DEF Range
    <3> QED BY <1>7, <1>11, <3>1 DEF Range
  <2> QED BY <2>1, <2>2
<1> QED BY <1>1, <1>4, <1>7, <1>9, <1>13 DEF Order

LEMMA NewestKeepsOrder ==
  ASSUME Order(lru), NEW n \in 0..Len(lru)
  PROVE  /\ Order(Newest(n)) /\ Len(Newest(n)) = Len(lru) - n
         /\ Range(Newest(n)) = Range(lru) \ {lru[i] : i \in 1..n}
         /\ n = 0 => Newest(n) = lru
<1>1. PICK l \in Nat : l = Len(lru) /\ DOMAIN lru = 1..l /\ \A i \in 1..l : lru[i] \in Keys
  BY OrderFacts
<1>2. PICK t : t = [j \in 1..l - n |-> lru[n + j]]
  OBVIOUS
<1>3. Newest(n) = t
  BY <1>1, <1>2 DEF Newest, Order
<1>4. l - n \in Nat /\ \A j \in 1..l - n : t[j] \in Keys
  BY <1>1, <1>2
<1>5. t \in Seq(Keys) /\ Len(t) = l - n /\ DOMAIN t = 1..l - n
  BY <1>2, <1>4
<1>6. \A i, j \in 1..l : lru[i] = lru[j] => i = j
  BY <1>1 DEF Order
<1>7. \A i, j \in 1..l - n : t[i] = t[j] => i = j
  BY <1>1, <1>2, <1>6
<1>8. \A j \in 1..l - n : n + j \in 1..l /\ n + j \notin 1..n /\ t[j] = lru[n + j]
  BY <1>1, <1>2
<1>9. \A i \in 1..l : i \notin 1..n => i - n \in 1..l - n /\ t[i - n] = lru[i]
  BY <1>1, <1>2
<1>10. 1..n \subseteq 1..l
  BY <1>1
<1>11. Range(t) = Range(lru) \ {lru[i] : i \in 1..n}
  <2>1. ASSUME NEW x \in Range(t) PROVE x \in Range(lru) /\ x \notin {lru[i] : i \in 1..n}
    <3>1. PICK j \in 1..l - n : x = t[j]
      BY <1>5 DEF Range
    <3>2. n + j \in 1..l /\ n + j \notin 1..n /\ x = lru[n + j]
      BY <1>8, <3>1
    <3> QED BY <1>1, <1>6, <1>10, <3>2 DEF Range
  <2>2. ASSUME NEW x \in Range(lru), x \notin {lru[i] : i \in 1..n} PROVE x \in Range(t)
    <3>1. PICK i \in 1..l : x = lru[i] /\ i \notin 1..n
      BY <1>1, <2>2 DEF Range
    <3>2. i - n \in 1..l - n /\ t[i - n] = x
      BY <1>9, <3>1
    <3> QED BY <1>5, <3>2 DEF Range
  <2> QED BY <2>1, <2>2
<1>12. n = 0 => t = lru
  BY <1>1, <1>2 DEF Order
<1> QED BY <1>1, <1>3, <1>5, <1>7, <1>11, <1>12 DEF Order

LEMMA AppendKeepsOrder ==
  ASSUME NEW s, Order(s), NEW k \in Keys, k \notin Range(s)
  PROVE  /\ Order(Append(s, k)) /\ Range(Append(s, k)) = Range(s) \cup {k}
         /\ Len(Append(s, k)) = Len(s) + 1
<1>1. PICK n \in Nat : n = Len(s) /\ DOMAIN s = 1..n /\ s \in Seq(Keys)
  BY OrderFacts DEF Order
<1>2. PICK t : t = Append(s, k)
  OBVIOUS
<1>3. /\ t \in Seq(Keys) /\ Len(t) = n + 1 /\ DOMAIN t = 1..n + 1 /\ t[n + 1] = k
      /\ \A i \in 1..n : t[i] = s[i]
  BY <1>1, <1>2
<1>4. \A i \in 1..n : s[i] # k
  BY <1>1 DEF Range
<1>5. n + 1 \in 1..n + 1 /\ \A i \in 1..n + 1 : i = n + 1 \/ i \in 1..n
  BY <1>1
<1>6. \A i, j \in 1..n + 1 : t[i] = t[j] => i = j
  <2>1. \A i, j \in 1..n : s[i] = s[j] => i = j
    BY <1>1 DEF Order
  <2> QED BY <1>3, <1>4, <1>5, <2>1
<1>7. Range(t) = Range(s) \cup {k}
  BY <1>1, <1>3, <1>5 DEF Range
<1> QED BY <1>1, <1>2, <1>3, <1>6, <1>7 DEF Order

-----------------------------------------------------------------------------
(* The cache stays within its cap and its budget.                           *)

Affordable(c) == Budget = NoBudget \/ c <= Budget

\* The room that was made for a load is still there when it ends: whoever loads
\* keeps the load lock, and a hit only reorders the cache.
CInv ==
    /\ Order(lru)
    /\ \A k \in Keys : inst[k] # None <=> k \in Range(lru)
    /\ Len(lru) <= Cap
    /\ Affordable(TotalCost(Range(lru)))
    /\ loaded \in [Bases -> BOOLEAN]
    /\ LoadedIsCached
    /\ loader # None =>
          /\ rpc[loader] = "loading"
          /\ Len(lru) < Cap
          /\ Affordable(TotalCost(Range(lru)) + Cost[key[loader]])

\* A hit, or a step that does not touch the cache.
LEMMA CacheReordered ==
  ASSUME LInv, CInv, UNCHANGED <<inst, loaded>>,
         Order(lru'), Range(lru') = Range(lru), Len(lru') = Len(lru),
         loader' \in {loader, None},
         loader' # None => rpc'[loader] = "loading" /\ key'[loader] = key[loader]
  PROVE  CInv'
BY DEF CInv, LoadedIsCached, Affordable

LEMMA CacheUntouched ==
  ASSUME LInv, CInv, UNCHANGED cacheVars, loader' \in {loader, None},
         loader' # None => rpc'[loader] = "loading" /\ key'[loader] = key[loader]
  PROVE  CInv'
BY CacheReordered DEF CInv, cacheVars

LEMMA CacheHit ==
  ASSUME LInv, CInv, NEW r \in Reqs, HitCache(r), inst[key[r]] # None,
         rpc[r] # "loading", loader' = loader
  PROVE  CInv'
<1>1. key[r] \in Range(lru)
  BY DEF LInv, HTypes, CInv
<1>2. /\ lru' = MoveToEnd(lru, key[r]) /\ UNCHANGED <<inst, loaded, key>>
      /\ rpc' = [rpc EXCEPT ![r] = "ready"]
  BY DEF HitCache, TakeHandle
<1>3. Order(lru') /\ Range(lru') = Range(lru) /\ Len(lru') = Len(lru)
  BY <1>1, <1>2, MoveKeepsOrder DEF CInv
<1>4. loader # None => rpc'[loader] = "loading"
  BY <1>2 DEF LInv, HTypes, CInv
<1> QED BY <1>2, <1>3, <1>4, CacheReordered

\* Entries leave.
LEMMA CacheDrop ==
  ASSUME LInv, CInv, NEW E, Drop(E), Order(lru'), Range(lru') = Range(lru) \ E
  PROVE  /\ \A k \in Keys : inst'[k] # None <=> k \in Range(lru')
         /\ loaded' \in [Bases -> BOOLEAN] /\ LoadedIsCached'
         /\ TotalCost(Range(lru)) \in Nat /\ TotalCost(Range(lru')) \in Nat
         /\ TotalCost(Range(lru')) <= TotalCost(Range(lru))
<1>1. \A k \in Keys : inst'[k] # None <=> k \in Range(lru')
  BY DEF Drop, LInv, HTypes, CInv
<1>2. loaded' \in [Bases -> BOOLEAN]
  BY DEF Drop, CInv
<1>3. LoadedIsCached'
  <2> SUFFICES ASSUME NEW b \in Bases, loaded'[b] PROVE \E k \in Range(lru') : BaseOf[k] = b
    BY DEF LoadedIsCached
  <2>1. loaded[b] /\ \A k \in E : BaseOf[k] # b
    BY DEF Drop, CInv
  <2> QED BY <2>1 DEF CInv, LoadedIsCached
<1>4. Range(lru) \in SUBSET Keys /\ IsFiniteSet(Range(lru)) /\ Range(lru') \in SUBSET Range(lru)
  BY OrderFacts DEF CInv
<1>5. Range(lru') \in SUBSET Keys /\ IsFiniteSet(Range(lru'))
  BY <1>4, OrderFacts
<1> QED BY <1>1, <1>2, <1>3, <1>4, <1>5, SumType, SumPart

\* The eviction loop of _make_room_for ends, and ends with room for k.
LEMMA RoomIsMade ==
  ASSUME LInv, CInv, NEW k \in Keys, ~TooLarge(k),
         NEW n,
         n = CHOOSE i \in 0..Len(lru) : RoomFor(i, k) /\ \A j \in 0..i - 1 : ~RoomFor(j, k)
  PROVE  n \in 0..Len(lru) /\ RoomFor(n, k)
<1> DEFINE S == {i \in 0..Len(lru) : RoomFor(i, k)}
<1>0. Len(lru) \in Nat
  BY OrderFacts DEF CInv
<1>1. Len(lru) \in S
  <2>1. Len(lru) \in 0..Len(lru)
    BY <1>0
  <2>2. Newest(Len(lru)) = <<>> /\ Range(<<>>) = {}
    <3>1. Len(Newest(Len(lru))) = 0 /\ Newest(Len(lru)) \in Seq(Keys)
      BY <1>0, <2>1, NewestKeepsOrder DEF CInv, Order
    <3> QED BY <3>1 DEF Range
  <2>3. CountFits(Len(lru))
    BY <1>0, ModelCacheAssumption DEF CountFits
  <2>4. Budget = NoBudget \/ 0 + Cost[k] <= Budget
    BY ModelCacheAssumption DEF TooLarge
  <2>5. TotalCost(Range(Newest(Len(lru)))) = 0
    BY <2>2, SumOfNone
  <2>6. RoomFor(Len(lru), k)
    BY <2>3, <2>4, <2>5 DEF RoomFor
  <2> QED BY <2>1, <2>6
<1>2. S \subseteq Nat
  BY <1>0
<1>3. PICK m \in S : \A i \in S : m <= i
  BY <1>1, <1>2, NatMin
<1>4. \E i \in 0..Len(lru) : RoomFor(i, k) /\ \A j \in 0..i - 1 : ~RoomFor(j, k)
  <2>1. m \in 0..Len(lru) /\ RoomFor(m, k)
    OBVIOUS
  <2>2. ASSUME NEW j \in 0..m - 1 PROVE ~RoomFor(j, k)
    <3>1. j \in 0..Len(lru) /\ ~(m <= j)
      BY <1>0, <2>1
    <3>2. j \notin S
      <4> HIDE DEF S
      <4> QED BY <1>3, <3>1
    <3> QED BY <3>1, <3>2
  <2> QED BY <2>1, <2>2
<1> QED BY <1>4

LEMMA CacheLoadBegin == ASSUME LInv, CInv, NEW r \in Reqs, LoadBegin(r) PROVE CInv'
<1>1. PICK k \in Keys : k = key[r]
  BY DEF LInv, HTypes
<1>2. PICK n : n = CHOOSE i \in 0..Len(lru) : RoomFor(i, k) /\ \A j \in 0..i - 1 : ~RoomFor(j, k)
  OBVIOUS
<1>3. /\ ~TooLarge(k) /\ loader' = r /\ rpc' = [rpc EXCEPT ![r] = "loading"] /\ UNCHANGED key
  BY <1>1 DEF LoadBegin, Goto
<1>4. EvictOldest(n)
  <2>1. EvictOldest(CHOOSE i \in 0..Len(lru) :
                       RoomFor(i, key[r]) /\ \A j \in 0..i - 1 : ~RoomFor(j, key[r]))
    BY Zenon DEF LoadBegin, Least
  <2> QED BY <1>1, <1>2, <2>1, Zenon
<1>5. n \in 0..Len(lru) /\ RoomFor(n, k)
  BY <1>2, <1>3, RoomIsMade
<1>6. /\ Order(Newest(n)) /\ Len(Newest(n)) = Len(lru) - n
      /\ Range(Newest(n)) = Range(lru) \ {lru[i] : i \in 1..n}
  BY <1>5, NewestKeepsOrder DEF CInv
<1>7. lru' = Newest(n) /\ Drop({lru[i] : i \in 1..n})
  BY <1>4 DEF EvictOldest
<1>8. Order(lru') /\ Len(lru') = Len(lru) - n /\ Range(lru') = Range(lru) \ {lru[i] : i \in 1..n}
  BY <1>6, <1>7
<1>9. /\ \A j \in Keys : inst'[j] # None <=> j \in Range(lru')
      /\ loaded' \in [Bases -> BOOLEAN] /\ LoadedIsCached'
      /\ TotalCost(Range(lru)) \in Nat /\ TotalCost(Range(lru')) \in Nat
      /\ TotalCost(Range(lru')) <= TotalCost(Range(lru))
  BY <1>7, <1>8, CacheDrop
<1>10. Len(lru') < Cap /\ Len(lru') <= Cap
  BY <1>5, <1>8, OrderFacts, ModelCacheAssumption DEF RoomFor, CountFits, CInv
<1>11. Affordable(TotalCost(Range(lru')) + Cost[k])
  BY <1>5, <1>7 DEF RoomFor, Affordable
<1>12. Affordable(TotalCost(Range(lru')))
  BY <1>9, <1>11, ModelCacheAssumption DEF Affordable
<1>13. rpc'[r] = "loading" /\ key'[r] = k
  BY <1>1, <1>3 DEF LInv, HTypes
<1>14. Affordable(TotalCost(Range(lru')) + Cost[key'[loader']])
  BY <1>3, <1>11, <1>13
<1> QED BY <1>3, <1>8, <1>9, <1>10, <1>12, <1>13, <1>14 DEF CInv, Affordable

LEMMA CacheLoadEnd == ASSUME LInv, CInv, NEW r \in Reqs, LoadEnd(r) PROVE CInv'
<1>1. PICK k \in Keys : k = key[r]
  BY DEF LInv, HTypes
<1>2. rpc[r] = "loading" /\ loader = r /\ inst[k] = None /\ loader' = None
  BY <1>1 DEF LoadEnd, LInv, FreshInv
<1>3. loader # None
  BY <1>2, ModelCacheAssumption
<1>4. k \notin Range(lru) /\ Order(lru) /\ Len(lru) < Cap /\ Len(lru) \in Nat
  BY <1>2, <1>3, OrderFacts DEF CInv
<1>5. CountFits(0)
  BY <1>4, ModelCacheAssumption DEF CountFits
<1>6. /\ lru' = Append(Newest(0), k)
      /\ inst' = [j \in Keys |-> IF j = k THEN r
                                 ELSE IF j \in {lru[i] : i \in 1..0} THEN None ELSE inst[j]]
      /\ loaded' = [b \in Bases |->
            b = BaseOf[k] \/ (loaded[b] /\ \A j \in {lru[i] : i \in 1..0} : BaseOf[j] # b)]
  <2>1. PICK n : n = IF CountFits(0) THEN 0 ELSE Least(CountFits)
    OBVIOUS
  <2>2. /\ lru' = Append(Newest(n), key[r])
        /\ inst' = [j \in Keys |-> IF j = key[r] THEN r
                                   ELSE IF j \in {lru[i] : i \in 1..n} THEN None ELSE inst[j]]
        /\ loaded' = [b \in Bases |->
              b = BaseOf[key[r]] \/ (loaded[b] /\ \A j \in {lru[i] : i \in 1..n} : BaseOf[j] # b)]
    BY <2>1, Zenon DEF LoadEnd
  <2>3. n = 0
    BY <1>5, <2>1
  <2> QED BY <1>1, <2>2, <2>3
<1>7. {lru[i] : i \in 1..0} = {}
  OBVIOUS
<1>8. Newest(0) = lru
  BY <1>4, NewestKeepsOrder
<1>9. Order(lru') /\ Range(lru') = Range(lru) \cup {k} /\ Len(lru') = Len(lru) + 1
  BY <1>4, <1>6, <1>8, AppendKeepsOrder
<1>10. \A j \in Keys : inst'[j] # None <=> j \in Range(lru')
  BY <1>6, <1>7, <1>9, ModelCacheAssumption DEF CInv
<1>11. Len(lru') <= Cap
  BY <1>4, <1>9, ModelCacheAssumption
<1>12. loaded' \in [Bases -> BOOLEAN]
  BY <1>6
<1>13. LoadedIsCached'
  <2> SUFFICES ASSUME NEW b \in Bases, loaded'[b] PROVE \E j \in Range(lru') : BaseOf[j] = b
    BY DEF LoadedIsCached
  <2>1. b = BaseOf[k] \/ loaded[b]
    BY <1>6, <1>7
  <2> QED BY <1>9, <2>1 DEF CInv, LoadedIsCached
<1>14. TotalCost(Range(lru')) = Cost[k] + TotalCost(Range(lru))
  <2>1. Range(lru') \in SUBSET Keys /\ IsFiniteSet(Range(lru')) /\ k \in Range(lru')
    BY <1>9, OrderFacts
  <2>2. Range(lru') \ {k} = Range(lru)
    BY <1>4, <1>9
  <2> QED BY <2>1, <2>2, SumRemove
<1>15. TotalCost(Range(lru)) \in Nat /\ Cost[k] \in Nat
  BY <1>4, OrderFacts, SumType, ModelCacheAssumption
<1>16. Affordable(TotalCost(Range(lru)) + Cost[k])
  BY <1>1, <1>2, <1>3 DEF CInv
<1>17. Affordable(TotalCost(Range(lru')))
  <2>1. TotalCost(Range(lru')) = TotalCost(Range(lru)) + Cost[k]
    BY <1>14, <1>15
  <2> QED BY <1>16, <2>1
<1> QED BY <1>2, <1>9, <1>10, <1>11, <1>12, <1>13, <1>17 DEF CInv, Affordable

LEMMA CachePromote == ASSUME LInv, CInv, PromoteEvict PROVE CInv'
<1> DEFINE E == {OldKey} \cap Range(lru)
<1>1. /\ lru' = IF OldKey \in Range(lru) THEN Without(lru, OldKey) ELSE lru
      /\ Drop(E) /\ loader = None /\ loader' = loader
  BY DEF PromoteEvict, Turn
<1>2. Order(lru) /\ Len(lru) \in Nat /\ Len(lru) <= Cap
  BY OrderFacts DEF CInv
<1>3. Order(lru') /\ Range(lru') = Range(lru) \ E /\ Len(lru') <= Len(lru)
  <2>1. CASE OldKey \in Range(lru)
    BY <1>1, <1>2, <2>1, WithoutKeepsOrder
  <2>2. CASE OldKey \notin Range(lru)
    BY <1>1, <1>2, <2>2
  <2> QED BY <2>1, <2>2
<1> HIDE DEF E
<1>4. /\ \A k \in Keys : inst'[k] # None <=> k \in Range(lru')
      /\ loaded' \in [Bases -> BOOLEAN] /\ LoadedIsCached'
      /\ TotalCost(Range(lru)) \in Nat /\ TotalCost(Range(lru')) \in Nat
      /\ TotalCost(Range(lru')) <= TotalCost(Range(lru))
  BY <1>1, <1>3, CacheDrop
<1>5. Len(lru') <= Cap
  BY <1>2, <1>3, OrderFacts, ModelCacheAssumption
<1>6. Affordable(TotalCost(Range(lru')))
  BY <1>4, ModelCacheAssumption DEF CInv, Affordable
<1> QED BY <1>1, <1>3, <1>4, <1>5, <1>6 DEF CInv, Affordable

LEMMA CacheStep == LInv /\ CInv /\ [Next]_vars => CInv'
<1> SUFFICES ASSUME LInv, CInv, [Next]_vars PROVE CInv'
  OBVIOUS
<1>0. loader # None => loader \in Reqs /\ rpc[loader] = "loading"
  BY DEF LInv, HTypes, CInv
<1>1. ASSUME UNCHANGED <<cacheVars, loader, key>>,
             \A q \in Reqs : rpc[q] = "loading" => rpc'[q] = "loading"
      PROVE  CInv'
  BY <1>0, <1>1, CacheUntouched
<1>2. ASSUME UNCHANGED <<cacheVars, key>>, loader' = None PROVE CInv'
  BY <1>2, CacheUntouched
<1>3. ASSUME NEW r \in Reqs, rpc[r] # "loading", NEW l, rpc' = [rpc EXCEPT ![r] = l]
      PROVE  \A q \in Reqs : rpc[q] = "loading" => rpc'[q] = "loading"
  BY <1>3 DEF LInv, HTypes
<1>4. ASSUME NEW r \in Reqs, Resolve(r) PROVE CInv'
  <2>1. PICK k : key' = [key EXCEPT ![r] = k]
    BY <1>4 DEF Resolve
  <2>2. /\ rpc[r] = "new" /\ rpc' = [rpc EXCEPT ![r] = "prepare"]
        /\ UNCHANGED cacheVars /\ loader' = loader
    BY <1>4 DEF Resolve, Goto, loadVars
  <2>3. loader # None => rpc'[loader] = "loading" /\ key'[loader] = key[loader]
    BY <1>0, <2>1, <2>2 DEF LInv, HTypes
  <2> QED BY <2>2, <2>3, CacheUntouched
<1>5. ASSUME NEW r \in Reqs, EnsureHit(r) \/ LoadHit(r) PROVE CInv'
  BY <1>5, CacheHit DEF EnsureHit, LoadHit, loadVars
<1>6. ASSUME NEW r \in Reqs, EnsureWaits(r) \/ LoadRefused(r) \/ Leave(r) \/ StartCall(r)
                             \/ StreamNext(r) \/ StreamStops(r)
      PROVE  CInv'
  <2>1. /\ rpc[r] # "loading" /\ UNCHANGED <<cacheVars, loader, key>>
        /\ \E l : rpc' = [rpc EXCEPT ![r] = l]
    BY <1>6 DEF EnsureWaits, LoadRefused, InLoad, Leave, StartCall, StreamNext, StreamStops,
                Goto, loadVars
  <2> QED BY <1>1, <1>3, <2>1
<1>7. ASSUME NEW r \in Reqs, TimesOut(r) PROVE CInv'
  <2>1. /\ rpc[r] # "loading" /\ UNCHANGED <<cacheVars, loader, key>>
        /\ \E l : rpc' = [rpc EXCEPT ![r] = l]
    BY <1>7 DEF TimesOut, AfterCall, Goto, loadVars
  <2> QED BY <1>1, <1>3, <2>1
<1>8. ASSUME NEW r \in Reqs, LoadBegin(r) \/ LoadEnd(r) PROVE CInv'
  BY <1>8, CacheLoadBegin, CacheLoadEnd
<1>9. ASSUME NEW r \in Reqs, LoadFails(r) PROVE CInv'
  BY <1>2, <1>9 DEF LoadFails
<1>10. ASSUME NEW r \in Reqs, Cancel(r) PROVE CInv'
  <2>1. CASE rpc[r] = "loading"
    BY <1>2, <1>10, <2>1 DEF Cancel
  <2>2. CASE rpc[r] # "loading"
    BY <1>1, <1>3, <1>10, <2>2 DEF Cancel, Goto
  <2> QED BY <2>1, <2>2
<1>11. ASSUME NEW c \in running, CallEnds(c) PROVE CInv'
  <2>1. UNCHANGED <<cacheVars, loader, key>>
    BY <1>11 DEF CallEnds, loadVars
  <2>2. \/ rpc' = rpc
        \/ rpc[c[1]] = "calling" /\ \E l : rpc' = [rpc EXCEPT ![c[1]] = l]
    BY <1>11 DEF CallEnds, AfterCall, Goto
  <2>3. c[1] \in Reqs
    BY DEF LInv, HTypes, Calls
  <2> QED BY <1>1, <1>3, <2>1, <2>2, <2>3
<1>12. CASE \/ PromoteCommit \/ PromoteWaits \/ UNCHANGED vars
            \/ \E r \in Reqs : OrphanEnds(r)
  BY <1>1, <1>12 DEF PromoteCommit, PromoteWaits, OrphanEnds, vars, reqVars, loadVars
<1>13. CASE PromoteEvict
  BY <1>13, CachePromote
<1> QED
  BY <1>4, <1>5, <1>6, <1>7, <1>8, <1>9, <1>10, <1>11, <1>12, <1>13 DEF Next, GetModel

LEMMA CacheInit == Init => CInv
<1> SUFFICES ASSUME Init PROVE CInv
  OBVIOUS
<1>1. CASE lru = <<>>
  <2>1. Order(lru) /\ Range(lru) = {} /\ Len(lru) = 0
    BY <1>1 DEF Order, Range
  <2>2. TotalCost(Range(lru)) = 0
    BY <2>1, SumOfNone
  <2>3. LoadedIsCached /\ loaded \in [Bases -> BOOLEAN]
    BY <2>1 DEF Init, LoadedIsCached
  <2>4. \A k \in Keys : inst[k] # None <=> k \in Range(lru)
    BY <2>1 DEF Init
  <2> QED
    BY <2>1, <2>2, <2>3, <2>4, ModelCacheAssumption DEF Init, CInv, Affordable
<1>2. CASE \E k \in Keys \ Missing : lru = <<k>> /\ ~TooLarge(k)
  <2>1. PICK k \in Keys : lru = <<k>> /\ ~TooLarge(k)
    BY <1>2
  <2>2. Order(lru) /\ Range(lru) = {k} /\ Len(lru) = 1
    BY <2>1 DEF Order, Range
  <2>3. TotalCost(Range(lru)) = Cost[k]
    <3>1. IsFiniteSet({k}) /\ {k} \in SUBSET Keys /\ {k} \ {k} = {}
      BY FS_Singleton
    <3>2. TotalCost({k}) = Cost[k] + 0
      BY <3>1, SumRemove, SumOfNone
    <3> QED BY <2>2, <3>2, ModelCacheAssumption
  <2>4. LoadedIsCached /\ loaded \in [Bases -> BOOLEAN]
    BY <2>2 DEF Init, LoadedIsCached
  <2>5. \A j \in Keys : inst[j] # None <=> j \in Range(lru)
    BY ModelCacheAssumption DEF Init
  <2>6. Affordable(TotalCost(Range(lru)))
    BY <2>1, <2>3, ModelCacheAssumption DEF TooLarge, Affordable
  <2> QED BY <2>2, <2>4, <2>5, <2>6, ModelCacheAssumption DEF Init, CInv
<1> QED BY <1>1, <1>2 DEF Init

\* The cache respects the count cap and the memory budget, together with the
\* model that is being built: for any number of models, costs, cap and budget,
\* whatever is evicted, promoted, cancelled or fails to load meanwhile.
THEOREM CacheInBounds == Spec => []CacheFits
<1>1. LInv /\ CInv => CacheFits
  <2> SUFFICES ASSUME LInv, CInv PROVE CacheFits
    OBVIOUS
  <2>1. TotalCost(Range(lru)) \in Nat
    BY OrderFacts, SumType DEF CInv
  <2>2. Budget # NoBudget =>
          TotalCost(Range(lru)) +
          (IF loader # None /\ orphans = {} THEN Cost[key[loader]] ELSE 0) <= Budget
    BY <2>1, ModelCacheAssumption DEF CInv, Affordable
  <2> QED BY <2>2 DEF CInv, Order, CacheFits
<1> QED BY <1>1, LockInit, LockStep, CacheInit, CacheStep, PTL DEF Spec

\* A base that is reported as loaded has a variant in the cache.
THEOREM LoadedHasModel == Spec => []LoadedIsCached
<1>1. CInv => LoadedIsCached
  BY DEF CInv
<1> QED BY <1>1, LockInit, LockStep, CacheInit, CacheStep, PTL DEF Spec

\* Two requests that find a key absent never build it twice into the cache.
THEOREM LoadedOnce == Spec => NotReplaced
<1> DEFINE Keeps == \A k \in Keys : inst[k] # None /\ inst'[k] # None => inst'[k] = inst[k]
<1>1. LInv /\ [Next]_vars => [Keeps]_vars
  <2> SUFFICES ASSUME LInv, Next PROVE Keeps
    OBVIOUS
  <2>1. ASSUME NEW r \in Reqs, LoadEnd(r) PROVE Keeps
    <3>1. inst[key[r]] = None
      BY <2>1 DEF LoadEnd, LInv, FreshInv
    <3>2. PICK E : inst' = [j \in Keys |-> IF j = key[r] THEN r
                                           ELSE IF j \in E THEN None ELSE inst[j]]
      BY <2>1, Zenon DEF LoadEnd
    <3> QED BY <3>1, <3>2
  <2>2. ASSUME NEW E, Drop(E) PROVE Keeps
    BY <2>2 DEF Drop
  <2>3. ASSUME NEW r \in Reqs, LoadBegin(r) PROVE Keeps
    BY <2>2, <2>3, Zenon DEF LoadBegin, EvictOldest
  <2>4. CASE PromoteEvict
    BY <2>2, <2>4 DEF PromoteEvict
  <2>5. CASE UNCHANGED inst
    BY <2>5
  <2>6. ASSUME NEW r \in Reqs,
               \/ Resolve(r) \/ EnsureHit(r) \/ EnsureWaits(r) \/ LoadHit(r) \/ LoadRefused(r)
               \/ LoadFails(r) \/ StartCall(r) \/ StreamNext(r) \/ StreamStops(r)
               \/ TimesOut(r) \/ Leave(r) \/ Cancel(r) \/ OrphanEnds(r)
        PROVE  UNCHANGED inst
    BY <2>6 DEF Resolve, EnsureHit, EnsureWaits, LoadHit, LoadRefused, LoadFails, StartCall,
         StreamNext, StreamStops, TimesOut, Leave, Cancel, OrphanEnds, HitCache, cacheVars
  <2>7. ASSUME NEW c \in running, CallEnds(c) PROVE UNCHANGED inst
    BY <2>7 DEF CallEnds, cacheVars
  <2>8. PromoteCommit \/ PromoteWaits => UNCHANGED inst
    BY DEF PromoteCommit, PromoteWaits, cacheVars
  <2> QED BY <2>1, <2>3, <2>4, <2>5, <2>6, <2>7, <2>8 DEF Next, GetModel
<1> QED BY <1>1, LockInit, LockStep, PTL DEF Spec, NotReplaced
=============================================================================
