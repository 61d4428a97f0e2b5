------------------------------ MODULE ModelCache ------------------------------
(***************************************************************************)
(* In-process model serving: the LRU cache of Llama objects with its load  *)
(* lock and per-variant inference locks (core/model_manager.py), the       *)
(* locked calls of core/inference.py, the handle a chat request keeps      *)
(* (core/backends/llamacpp.py, services/chat.py), and promote_adapter's    *)
(* eviction (api/v1/endpoints.py).                                         *)
(*                                                                         *)
(* Coroutines run on one event loop, so an action is a segment between two *)
(* awaits.  What runs beside it are the executor threads: a Llama() being  *)
(* constructed, a C call on a Llama.  Neither can be interrupted.          *)
(***************************************************************************)
EXTENDS Integers, Sequences, Functions

CONSTANTS
    Reqs,       \* chat requests
    Keys,       \* cache keys: a base, or a base with a LoRA adapter
    Bases,      \* serving names with a ModelConfig
    BaseOf,     \* the base of each key
    Cost,       \* estimate_cost_mb of each key
    Missing,    \* keys whose GGUF or adapter file does not exist
    Cap,        \* settings.max_loaded_models
    Budget,     \* memory_budget.budget_mb(), or NoBudget
    NoBudget,
    OldKey, NewKey, \* what promote_adapter binds the endpoint from and to
    None,       \* no request
    Boot,       \* the lifespan's preload_default_models
    Promoter,   \* the request of promote_adapter
    Events      \* "timeout", "cancel", "load_error", "promote"

\* A request's C calls: the condensation call (E5.3) and the main one.
Calls == Reqs \X {"condense", "main"}

ASSUME ModelCacheAssumption ==
    /\ BaseOf \in [Keys -> Bases]
    /\ Cost \in [Keys -> Nat]
    /\ Missing \subseteq Keys
    /\ Cap \in Nat \ {0}
    /\ Budget \in Nat \cup {NoBudget}
    /\ OldKey \in Keys /\ NewKey \in Keys
    /\ None # Boot /\ {None, Boot, Promoter} \cap Reqs = {}
    /\ None \notin Calls

VARIABLES
    lru,        \* the keys of _models, least recently used first
    inst,       \* the Llama of each cached key, named by the request that built it
    lock,       \* _infer_locks, named by the request that created the lock
    loaded,     \* ModelConfig.loaded of each base
    loader,     \* the request that holds _load_lock across an await
    waiters,    \* those that wait for it, in the order they came
    orphans,    \* requests gone while their Llama() is still being built
    rpc,        \* where each request is
    kind,       \* "chat" or "stream"
    stage,      \* its condensation call (E5.3) or its main one
    key,        \* the variant it resolved
    hInst,      \* its handle: the Llama ...
    hLock,      \*   ... and the inference lock
    holder,     \* the call each inference lock is held for
    running,    \* C calls in progress
    bound,      \* the key the promoted endpoint is bound to
    promote     \* the promote_adapter request

cacheVars == <<lru, inst, lock, loaded>>
loadVars == <<loader, waiters, orphans>>
reqVars == <<rpc, kind, stage, key, hInst, hLock>>
callVars == <<holder, running>>
bindVars == <<bound, promote>>
vars == <<cacheVars, loadVars, reqVars, callVars, bindVars>>

Insts == Reqs \cup {Boot}
Pc == {"new", "prepare", "wait", "loading", "ready", "calling", "between", "done"}

\* ModelTooLargeForMemory: k would not fit even alone.
TooLarge(k) == Budget # NoBudget /\ Cost[k] > Budget

\* The app serves once the preload has cached the default model, or failed to.
Init ==
    /\ \/ lru = <<>>
       \/ \E k \in Keys \ Missing : lru = <<k>> /\ ~TooLarge(k)
    /\ inst = [k \in Keys |-> IF k \in Range(lru) THEN Boot ELSE None]
    /\ lock = [k \in Keys |-> None]
    /\ loaded = [b \in Bases |-> \E k \in Range(lru) : BaseOf[k] = b]
    /\ loader = None
    /\ waiters = <<>>
    /\ orphans = {}
    /\ rpc = [r \in Reqs |-> "new"]
    /\ kind = [r \in Reqs |-> "chat"]
    /\ stage = [r \in Reqs |-> "main"]
    /\ key = [r \in Reqs |-> OldKey]
    /\ hInst = [r \in Reqs |-> None]
    /\ hLock = [r \in Reqs |-> None]
    /\ holder = [r \in Reqs |-> None]
    /\ running = {}
    /\ bound = OldKey
    /\ promote = "none"

-----------------------------------------------------------------------------
(* The cache.                                                               *)

Place(s, k) == CHOOSE j \in DOMAIN s : s[j] = k

\* move_to_end: mark most recently used.
MoveToEnd(s, k) ==
    LET i == Place(s, k)
    IN  [j \in DOMAIN s |-> IF j < i THEN s[j]
                            ELSE IF j = Len(s) THEN k ELSE s[j + 1]]

\* del _models[k].
Without(s, k) ==
    LET i == Place(s, k)
    IN  [j \in 1..Len(s) - 1 |-> IF j < i THEN s[j] ELSE s[j + 1]]

\* Without its n least recently used keys.
Newest(n) == SubSeq(lru, n + 1, Len(lru))

TotalCost(S) == SumFunctionOnSet(Cost, S)

\* _evict_lru_if_needed leaves room for one more model.
CountFits(n) == Len(lru) - n < Cap

\* Mutant: only the count cap is looked at before Llama() allocates.
RoomByCount(n, k) == CountFits(n) /\ k \in Keys

\* _make_room_for: that, and the cost of k on top of what stays.
RoomFor(n, k) ==
    /\ CountFits(n)
    /\ Budget = NoBudget \/ TotalCost(Range(Newest(n))) + Cost[k] <= Budget

\* The eviction loops stop at the first n that makes room.
Least(Fits(_)) ==
    CHOOSE n \in 0..Len(lru) : Fits(n) /\ \A m \in 0..n - 1 : ~Fits(m)

\* Mutant: loaded is not flipped back on eviction.
DropStaysLoaded(E) ==
    /\ inst' = [k \in Keys |-> IF k \in E THEN None ELSE inst[k]]
    /\ lock' = [k \in Keys |-> IF k \in E THEN None ELSE lock[k]]
    /\ loaded' = loaded

\* The keys in E leave _models and _infer_locks; whoever has a handle keeps it.
Drop(E) ==
    /\ inst' = [k \in Keys |-> IF k \in E THEN None ELSE inst[k]]
    /\ lock' = [k \in Keys |-> IF k \in E THEN None ELSE lock[k]]
    /\ loaded' = [b \in Bases |-> loaded[b] /\ \A k \in E : BaseOf[k] # b]

EvictOldest(n) ==
    /\ lru' = Newest(n)
    /\ Drop({lru[i] : i \in 1..n})

\* prepare, once ensure_model_loaded has returned m: get_inference_lock finds the
\* lock of the key, or creates it.  No await lies between.  A conversation of more
\* than one turn condenses its question first.
TakeHandle(r, m) ==
    LET k == key[r] IN
    /\ hInst' = [hInst EXCEPT ![r] = m]
    /\ hLock' = [hLock EXCEPT ![r] = IF lock[k] = None THEN r ELSE lock[k]]
    /\ rpc' = [rpc EXCEPT ![r] = "ready"]
    /\ \E x \in {"condense", "main"} : stage' = [stage EXCEPT ![r] = x]

\* Mutant: get_inference_lock does not store the lock it creates.
KeepNoLock(r, l) == IF r \in Reqs THEN l ELSE lock

\* ... and the lock is in _infer_locks from then on.
KeepLock(r, l) == [l EXCEPT ![key[r]] = IF @ = None THEN r ELSE @]

HitCache(r) ==
    /\ lru' = MoveToEnd(lru, key[r])
    /\ TakeHandle(r, inst[key[r]])
    /\ lock' = KeepLock(r, lock)
    /\ UNCHANGED <<inst, loaded, kind, key>>

Goto(r, l) == rpc' = [rpc EXCEPT ![r] = l]

-----------------------------------------------------------------------------
(* A request gets its model.                                                *)

\* _resolve_endpoint reads the endpoint's binding, or this is another endpoint;
\* the body says whether to stream.
Resolve(r) ==
    /\ rpc[r] = "new"
    /\ \E k \in {bound} \cup (Keys \ {OldKey, NewKey}) : key' = [key EXCEPT ![r] = k]
    /\ \E x \in {"chat", "stream"} : kind' = [kind EXCEPT ![r] = x]
    /\ Goto(r, "prepare")
    /\ UNCHANGED <<cacheVars, loadVars, stage, hInst, hLock, callVars, bindVars>>

\* asyncio.Lock: free and nobody queued, or p has queued and its turn has come.
\* TRUE only while no other coroutine is inside load_model or evict.
Turn(p, queued) ==
    /\ loader = None
    /\ IF queued THEN waiters # <<>> /\ Head(waiters) = p ELSE waiters = <<>>

\* Out of the queue, if it was in it.
Dequeue(queued) == waiters' = IF queued THEN Tail(waiters) ELSE waiters

\* ensure_model_loaded: a cached key is served without the load lock.
EnsureHit(r) ==
    /\ rpc[r] = "prepare"
    /\ inst[key[r]] # None
    /\ HitCache(r)
    /\ UNCHANGED <<loadVars, callVars, bindVars>>

\* The key is absent and _load_lock taken.
EnsureWaits(r) ==
    /\ rpc[r] = "prepare"
    /\ inst[key[r]] = None
    /\ ~Turn(r, FALSE)
    /\ waiters' = Append(waiters, r)
    /\ Goto(r, "wait")
    /\ UNCHANGED <<cacheVars, loader, orphans, kind, stage, key, hInst, hLock, callVars, bindVars>>

\* load_model, inside _load_lock.
InLoad(r) ==
    /\ rpc[r] \in {"prepare", "wait"}
    /\ Turn(r, rpc[r] = "wait")
    /\ Dequeue(rpc[r] = "wait")

\* It looks again: another request has loaded the key meanwhile.
LoadHit(r) ==
    /\ rpc[r] = "wait"
    /\ InLoad(r)
    /\ inst[key[r]] # None
    /\ HitCache(r)
    /\ UNCHANGED <<loader, orphans, callVars, bindVars>>

\* A missing file or ModelTooLargeForMemory: refused before anything is evicted.
LoadRefused(r) ==
    /\ InLoad(r)
    /\ inst[key[r]] = None
    /\ key[r] \in Missing \/ TooLarge(key[r])
    /\ Goto(r, "done")
    /\ UNCHANGED <<cacheVars, loader, orphans, kind, stage, key, hInst, hLock, callVars, bindVars>>

\* Mutant: load_model does not look again under the lock.
LoadBeginBlindly(r) ==
    /\ InLoad(r)
    /\ key[r] \notin Missing /\ ~TooLarge(key[r])
    /\ EvictOldest(Least(LAMBDA n : RoomFor(n, key[r])))
    /\ loader' = r
    /\ Goto(r, "loading")
    /\ UNCHANGED <<orphans, kind, stage, key, hInst, hLock, callVars, bindVars>>

\* Room is made, Llama() starts in a thread; the load lock stays held.
LoadBegin(r) ==
    /\ InLoad(r)
    /\ inst[key[r]] = None
    /\ key[r] \notin Missing /\ ~TooLarge(key[r])
    /\ EvictOldest(Least(LAMBDA n : RoomFor(n, key[r])))
    /\ loader' = r
    /\ Goto(r, "loading")
    /\ UNCHANGED <<orphans, kind, stage, key, hInst, hLock, callVars, bindVars>>

\* The count cap again, the new entry last, loaded = True, the handle.
LoadEnd(r) ==
    LET k == key[r]
        n == IF CountFits(0) THEN 0 ELSE Least(CountFits)
        E == {lru[i] : i \in 1..n}
    IN
    /\ rpc[r] = "loading"
    /\ lru' = Append(Newest(n), k)
    /\ inst' = [j \in Keys |-> IF j = k THEN r ELSE IF j \in E THEN None ELSE inst[j]]
    /\ lock' = KeepLock(r, [j \in Keys |-> IF j \in E THEN None ELSE lock[j]])
    /\ loaded' = [b \in Bases |-> \/ b = BaseOf[k]
                                  \/ loaded[b] /\ \A j \in E : BaseOf[j] # b]
    /\ TakeHandle(r, r)
    /\ loader' = None
    /\ UNCHANGED <<waiters, orphans, kind, key, callVars, bindVars>>

\* Mutant: the exception of Llama() leaves _load_lock held.
LoadFailsLocked(r) ==
    /\ rpc[r] = "loading"
    /\ "load_error" \in Events
    /\ Goto(r, "done")
    /\ UNCHANGED <<cacheVars, loadVars, kind, stage, key, hInst, hLock, callVars, bindVars>>

\* Llama() raises: what was evicted for it stays evicted.
LoadFails(r) ==
    /\ rpc[r] = "loading"
    /\ "load_error" \in Events
    /\ loader' = None
    /\ Goto(r, "done")
    /\ UNCHANGED <<cacheVars, waiters, orphans, kind, stage, key, hInst, hLock, callVars, bindVars>>

-----------------------------------------------------------------------------
(* A request calls its model.                                               *)

\* The call r is at, and whether it belongs to generate_stream.
Call(r) == <<r, stage[r]>>
Streams(c) == c[2] = "main" /\ kind[c[1]] = "stream"

\* _run_locked and generate_stream: lock.acquire(), then the executor.
StartCall(r) ==
    /\ rpc[r] = "ready"
    /\ holder[hLock[r]] = None
    /\ holder' = [holder EXCEPT ![hLock[r]] = Call(r)]
    /\ running' = running \cup {Call(r)}
    /\ Goto(r, "calling")
    /\ UNCHANGED <<cacheVars, loadVars, kind, stage, key, hInst, hLock, bindVars>>

\* What a request does after its call, answered or timed out: the condensation is
\* followed by the main call, on the same handle.
AfterCall(r) ==
    IF stage[r] = "condense"
    THEN Goto(r, "ready") /\ stage' = [stage EXCEPT ![r] = "main"]
    ELSE Goto(r, "done") /\ stage' = stage

\* The C call returns.  Of _run_locked, the done-callback releases the lock,
\* whether or not anybody still waits; of a stream, the token is handed over.
CallEnds(c) ==
    LET r == c[1]
        awaited == rpc[r] = "calling" /\ Call(r) = c
    IN
    /\ c \in running
    /\ running' = running \ {c}
    /\ IF Streams(c)
       THEN /\ holder' = holder
            /\ stage' = stage
            /\ IF awaited THEN Goto(r, "between") ELSE rpc' = rpc
       ELSE /\ holder' = [holder EXCEPT ![hLock[r]] = None]
            /\ IF awaited THEN AfterCall(r) ELSE UNCHANGED <<rpc, stage>>
    /\ UNCHANGED <<cacheVars, loadVars, kind, key, hInst, hLock, bindVars>>

\* The next token is pulled, within the deadline.
StreamNext(r) ==
    /\ rpc[r] = "between"
    /\ running' = running \cup {Call(r)}
    /\ Goto(r, "calling")
    /\ UNCHANGED <<cacheVars, loadVars, kind, stage, key, hInst, hLock, holder, bindVars>>

\* Exhausted, past the deadline, an error, or the client gone at a yield: finally
\* releases the lock.
StreamStops(r) ==
    /\ rpc[r] = "between"
    /\ holder' = [holder EXCEPT ![hLock[r]] = None]
    /\ Goto(r, "done")
    /\ UNCHANGED <<cacheVars, loadVars, kind, stage, key, hInst, hLock, running, bindVars>>

\* Mutant: the time-out releases the lock while the C call still runs.
TimesOutReleases(r) ==
    /\ "timeout" \in Events
    /\ rpc[r] = "calling" /\ ~Streams(Call(r))
    /\ AfterCall(r)
    /\ holder' = [holder EXCEPT ![hLock[r]] = None]
    /\ UNCHANGED <<cacheVars, loadVars, kind, key, hInst, hLock, running, bindVars>>

\* wait_for runs out: of _run_locked once its call runs, of _condense_query also
\* while it waits for the lock.  The C call goes on and keeps the lock.
TimesOut(r) ==
    /\ "timeout" \in Events
    /\ \/ rpc[r] = "calling" /\ ~Streams(Call(r))
       \/ rpc[r] = "ready" /\ stage[r] = "condense"
    /\ AfterCall(r)
    /\ UNCHANGED <<cacheVars, loadVars, kind, key, hInst, hLock, callVars, bindVars>>

\* No chunk clears the floor, or the prompt does not fit: no main call is made.
Leave(r) ==
    /\ rpc[r] = "ready"
    /\ stage[r] = "main"
    /\ Goto(r, "done")
    /\ UNCHANGED <<cacheVars, loadVars, kind, stage, key, hInst, hLock, callVars, bindVars>>

\* The client of a stream disconnects and the response task is cancelled: the
\* locks its frames hold are released, the threads run on.  A call still queued
\* in the pool is cancelled with it.
Cancel(r) ==
    /\ "cancel" \in Events
    /\ kind[r] = "stream"
    /\ rpc[r] \in {"wait", "loading", "ready", "calling"}
    /\ Goto(r, "done")
    /\ IF rpc[r] = "loading"
       THEN loader' = None /\ orphans' = orphans \cup {r}
       ELSE UNCHANGED <<loader, orphans>>
    /\ waiters' = SelectSeq(waiters, LAMBDA p : p # r)
    /\ IF rpc[r] = "calling" /\ Streams(Call(r))
       THEN /\ holder' = [holder EXCEPT ![hLock[r]] = None]
            /\ running' \in {running, running \ {Call(r)}}
       ELSE UNCHANGED callVars
    /\ UNCHANGED <<cacheVars, kind, stage, key, hInst, hLock, bindVars>>

\* A Llama() nobody waits for is built, and dropped.
OrphanEnds(r) ==
    /\ r \in orphans
    /\ orphans' = orphans \ {r}
    /\ UNCHANGED <<cacheVars, loader, waiters, reqVars, callVars, bindVars>>

-----------------------------------------------------------------------------
(* promote_adapter: the binding is committed, then the old variant evicted. *)

PromoteCommit ==
    /\ "promote" \in Events
    /\ promote = "none"
    /\ bound' = NewKey
    /\ promote' = "evict"
    /\ UNCHANGED <<cacheVars, loadVars, reqVars, callVars>>

PromoteWaits ==
    /\ promote = "evict"
    /\ ~Turn(Promoter, FALSE)
    /\ waiters' = Append(waiters, Promoter)
    /\ promote' = "wait"
    /\ UNCHANGED <<cacheVars, loader, orphans, reqVars, callVars, bound>>

\* evict and unload_model, inside _load_lock.
PromoteEvict ==
    /\ promote \in {"evict", "wait"}
    /\ Turn(Promoter, promote = "wait")
    /\ Dequeue(promote = "wait")
    /\ promote' = "done"
    /\ lru' = IF OldKey \in Range(lru) THEN Without(lru, OldKey) ELSE lru
    /\ Drop({OldKey} \cap Range(lru))
    /\ UNCHANGED <<loader, orphans, reqVars, callVars, bound>>

-----------------------------------------------------------------------------
GetModel(r) ==
    \/ EnsureHit(r) \/ EnsureWaits(r)
    \/ LoadHit(r) \/ LoadRefused(r) \/ LoadBegin(r) \/ LoadEnd(r)

Next ==
    \/ \E r \in Reqs :
          \/ Resolve(r) \/ GetModel(r) \/ LoadFails(r)
          \/ StartCall(r) \/ StreamNext(r) \/ StreamStops(r) \/ TimesOut(r)
          \/ Leave(r) \/ Cancel(r) \/ OrphanEnds(r)
    \/ \E c \in running : CallEnds(c)
    \/ PromoteCommit \/ PromoteWaits \/ PromoteEvict

Spec == Init /\ [][Next]_vars

\* Coroutines and threads go on.  An inference lock wakes its waiters in turn, so
\* a request gets a lock that is released again and again; a stream meets its end
\* or its deadline.
Fairness ==
    /\ \A r \in Reqs :
          WF_vars(GetModel(r)) /\ SF_vars(StartCall(r)) /\ SF_vars(StreamStops(r))
    /\ \A c \in Calls : WF_vars(CallEnds(c))
    /\ WF_vars(PromoteEvict)

FairSpec == Spec /\ Fairness

-----------------------------------------------------------------------------
(* Properties.                                                              *)

\* A Llama is never called by two threads at once ("NOT safe for concurrent
\* calls", InferenceEngine), across time-outs, evictions and reloads.
OneCallPerInstance ==
    \A c, d \in running : hInst[c[1]] = hInst[d[1]] => c = d

\* A token's C call whose response task was cancelled: generate_stream has
\* released the lock under it.
Abandoned(c) == Streams(c) /\ rpc[c[1]] # "calling"

\* Of the calls somebody waits for, or that merely outlive their time-out, a
\* Llama runs one at a time (_run_locked, generate_stream).
OneAttendedCall ==
    \A c, d \in running :
        ~Abandoned(c) /\ ~Abandoned(d) /\ hInst[c[1]] = hInst[d[1]] => c = d

\* Handles on one Llama carry one lock, however often the key was evicted and
\* loaded again between them (get_inference_lock, _evict_lru_if_needed).
InstanceHasOneLock ==
    \A r, s \in Reqs :
        hInst[r] # None /\ hInst[r] = hInst[s] => hLock[r] = hLock[s]

\* The order and the values of the OrderedDict hold the same keys, and the cache
\* respects the count cap and the memory budget (_make_room_for), at the peak too:
\* room was made "BEFORE loading it", so what is cached and what is being built
\* fit together, unless a cancelled request has left its Llama() behind to be
\* built outside the load lock.
CacheFits ==
    /\ \A k \in Keys : inst[k] # None <=> k \in Range(lru)
    /\ \A i, j \in DOMAIN lru : lru[i] = lru[j] => i = j
    /\ Len(lru) <= Cap
    /\ Budget # NoBudget =>
          TotalCost(Range(lru)) +
          (IF loader # None /\ orphans = {} THEN Cost[key[loader]] ELSE 0) <= Budget

\* A base reported as loaded has a variant in the cache (ModelConfig.loaded).
LoadedIsCached ==
    \A b \in Bases : loaded[b] => \E k \in Range(lru) : BaseOf[k] = b

\* Two requests that both found the key absent share one Llama: a cached entry is
\* never replaced by a second load.  load_model looks again under _load_lock and
\* returns what it finds; the docstring of ensure_model_loaded, which has the
\* second load overwrite the first, describes something else.
NotReplaced ==
    [][\A k \in Keys : inst[k] # None /\ inst'[k] # None => inst'[k] = inst[k]]_vars

\* Every request ends: no lock is lost, no two requests wait for each other.
RequestsFinish == \A r \in Reqs : rpc[r] # "new" ~> rpc[r] = "done"
=============================================================================
