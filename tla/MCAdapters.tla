------------------------------ MODULE MCAdapters ------------------------------
(***************************************************************************)
(* Instances of Adapters for TLC: a PEFT adapter and a GGUF one, two       *)
(* requests at a time, at most MaxRequests in all.                         *)
(***************************************************************************)
EXTENDS Adapters, TLC

\* A sound PEFT adapter, exactly at the improvement it needs; one above the floor
\* that is worse than its base; one that would score well but does not load.  One
\* unit stands for the tolerance, which rounding takes from the first, and five for
\* eval_min_improvement.
MCScore == [c \in Contents |-> IF c = "peft" THEN 55 ELSE IF c = "worse" THEN 86 ELSE 90]
MCBase == [c \in Contents |-> IF c = "peft" THEN 50 ELSE 89]
MCDelta == [c \in Contents |-> MCScore[c] - MCBase[c] - (IF c = "peft" THEN 1 ELSE 0)]
MCFlaw == [c \in Contents |-> IF c = "misfit" THEN "probe" ELSE "none"]

AllEvents == {"db", "db_reply_lost", "db_unqueued", "delete_reply_lost", "redis",
              "redis_reply_lost", "redis_pop", "node", "db_job", "app_crash", "crash_unqueued",
              "sigterm", "sigterm_writing", "kill"}

\* Those after which two writers can meet in one row, or on one file.
SafetyEvents == {"db_reply_lost", "delete_reply_lost", "redis_reply_lost", "app_crash", "sigterm",
                 "sigterm_writing"}

Symmetric == Permutations(Reqs) \cup Permutations(Adapters)
=============================================================================
