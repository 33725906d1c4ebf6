----------------------------- MODULE Readiness -----------------------------
(***************************************************************************)
(* GET /health/ready (health/service.py) next to the jobs of Ingestion     *)
(* that swap the live table and rebuild its indexes.  A probe checks the   *)
(* lexical indexes in one statement each, concurrently with the database   *)
(* and the model services, and then Redis.  What those others answer has   *)
(* nothing to do with the tables: it is chosen when gather returns.        *)
(***************************************************************************)
EXTENDS Ingestion

CONSTANTS
    Backend,        \* SEARCH_LEXICAL_BACKEND
    EnableRerank,   \* SEARCH_ENABLE_RERANK
    UseRedis        \* CACHE_REDIS_URL is set

ASSUME BackendAssumption == Backend \in {"bm25", "fts"}
ASSUME SettingsAssumption == EnableRerank \in BOOLEAN /\ UseRedis \in BOOLEAN

VARIABLES
    probe,      \* the readiness check
    swapped     \* history: a swap was committed since the probe began

Lexical == <<IF Backend = "bm25" THEN "content_bm25" ELSE "content_tsv_gin", "content_trgm">>
Others == {"database", "embedding"} \cup IF EnableRerank THEN {"reranker"} ELSE {}

ReadyInit == Init /\ probe = [pc |-> "idle", found |-> 0, healthy |-> TRUE] /\ swapped = FALSE

(* Mutant of IndexReady: indisvalid is not looked at. *)
IndexKnown(x) == NameTaken(x)

(* to_regclass finds the index by its name, on whichever table it is.      *)
IndexReady(x) == \E n \in Names : x \in table[n].valid

ProbeBegin ==
    /\ probe.pc \in {"idle", "answered"}
    /\ probe' = [pc |-> "lexical", found |-> 0, healthy |-> TRUE]
    /\ swapped' = FALSE

(* The first index that is not ready, or a statement that fails, ends the  *)
(* lexical check.                                                          *)
CheckIndex ==
    /\ probe.pc = "lexical"
    /\ probe' = IF IndexReady(Lexical[probe.found + 1])
                THEN [probe EXCEPT !.found = @ + 1,
                                   !.pc = IF probe.found + 1 < Len(Lexical)
                                          THEN "lexical" ELSE "gather"]
                ELSE [probe EXCEPT !.healthy = FALSE, !.pc = "gather"]
    /\ UNCHANGED swapped
CheckFails ==
    /\ probe.pc = "lexical"
    /\ probe' = [probe EXCEPT !.healthy = FALSE, !.pc = "gather"]
    /\ UNCHANGED swapped

(* Every check catches its exceptions: gather waits for all of them. *)
GatherDone ==
    /\ probe.pc = "gather"
    /\ \E down \in SUBSET Others :
          probe' = [probe EXCEPT !.healthy = @ /\ down = {}, !.pc = "redis"]
    /\ UNCHANGED swapped

(* Without Redis the check is "disabled", which is not unhealthy. *)
Answer ==
    /\ probe.pc = "redis"
    /\ \E up \in IF UseRedis THEN BOOLEAN ELSE {TRUE} :
          probe' = [probe EXCEPT !.healthy = @ /\ up, !.pc = "answered"]
    /\ UNCHANGED swapped

Probe == ProbeBegin \/ CheckIndex \/ CheckFails \/ GatherDone \/ Answer

(* A step of a job; its swap is noted. *)
JobStep ==
    /\ Next
    /\ UNCHANGED probe
    /\ swapped' = (swapped \/ \E j \in Jobs : job[j].pc = "swap" /\ job'[j].pc = "index")

ReadyNext == (Probe /\ UNCHANGED vars) \/ JobStep

ReadySpec == ReadyInit /\ [][ReadyNext]_<<vars, probe, swapped>>

----------------------------------------------------------------------------
(* Properties *)

(* Every variable of the jobs and of the probe has its type. *)
ReadyTypeOK ==
    /\ TypeOK
    /\ probe \in [pc : {"idle", "lexical", "gather", "redis", "answered"},
                  found : 0..Len(Lexical), healthy : BOOLEAN]
    /\ swapped \in BOOLEAN

(* "A missing BM25 extension or invalid index makes the service not        *)
(* ready": when the check answers ready, the live table has the index of   *)
(* the configured backend and the trigram index, both valid, unless a swap *)
(* was committed since the check began.                                    *)
ReadyIsRight ==
    probe.pc = "answered" /\ probe.healthy /\ ~swapped =>
        \A n \in 1..Len(Lexical) : Lexical[n] \in table["main"].valid
=============================================================================
