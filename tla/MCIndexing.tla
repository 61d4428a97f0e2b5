------------------------------ MODULE MCIndexing ------------------------------
(***************************************************************************)
(* Instances of Indexing for TLC: one or two documents, one or two workers *)
(* and a class of environment events, at most MaxEvents of them.           *)
(***************************************************************************)
EXTENDS Indexing, TLC

CONSTANTS f1, f2

\* The second document is one the parser rejects.
SecondBad == {f2}

\* Everything the model knows can happen around the code.
AllEvents == {"redis", "redis_reply_lost", "redis_pop", "redis_holding_queued",
              "delete", "chroma", "chroma_reply_lost", "db", "db_early", "db_reply_lost", "app_crash",
              "sigterm", "kill", "kill_holding_queued", "heartbeat", "timeout"}
=============================================================================
