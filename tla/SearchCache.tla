---------------------------- MODULE SearchCache ----------------------------
(***************************************************************************)
(* The Redis cache of search responses (cache/service.py) between the      *)
(* searches that fill it (orchestrator.py) and the ingestion runs that     *)
(* invalidate it after they have changed the live table.                   *)
(*                                                                         *)
(* The documents are a version number, which every commit to the live      *)
(* table raises.  A response is worth the version its retrieval read, in   *)
(* whatever order it is: a reranker that fails changes nothing here.  It   *)
(* is stored by a background task, some time after it has been returned.   *)
(***************************************************************************)
EXTENDS Naturals

CONSTANTS
    Searches,       \* POST /search requests, each used once
    Writers,        \* ingestion runs, each used once
    Keys,           \* cache keys: requests that differ in more than bypass_cache
    MaxVersion,     \* bound: commits to the live table
    MaxFaults,      \* bound: failing Redis commands, models or statements
    None

ASSUME NoneAssumption == None \notin Searches
ASSUME BoundsAssumption == MaxVersion \in Nat /\ MaxFaults \in Nat

VARIABLES
    live,           \* version of the live table
    cache,          \* the response stored under each key
    search,         \* the requests
    writer,         \* the ingestion runs
    invalidated,    \* history: latest version covered by a completed invalidation
    faults

vars == <<live, cache, search, writer, invalidated, faults>>

Empty == [version |-> 0, by |-> None]
(* A search that has read the documents and has not stored its response. *)
InFlight == {"rank", "store"}

Init ==
    /\ live = 0 /\ invalidated = 0 /\ faults = 0
    /\ cache = [k \in Keys |-> Empty]
    /\ \E key \in [Searches -> Keys] :
          search = [s \in Searches |-> [pc |-> "idle", key |-> key[s], version |-> 0,
                                        since |-> 0, raced |-> FALSE]]
    /\ writer = [w \in Writers |-> [pc |-> "idle", todo |-> {}, found |-> {}, version |-> 0]]

Fault == faults < MaxFaults /\ faults' = faults + 1

----------------------------------------------------------------------------
(* orchestrate_search, orchestrate_search_ids *)

Begin(s) ==
    /\ search[s].pc = "idle"
    /\ \E bypass \in BOOLEAN :
          search' = [search EXCEPT ![s] =
                       [@ EXCEPT !.pc = IF bypass THEN "retrieve" ELSE "lookup",
                                 !.since = invalidated]]
    /\ UNCHANGED <<live, cache, writer, invalidated, faults>>

(* get_cached: a hit answers the request; a miss runs the pipeline. *)
Lookup(s) ==
    /\ search[s].pc = "lookup"
    /\ LET entry == cache[search[s].key] IN
       search' = IF entry.by = None
                 THEN [search EXCEPT ![s] = [@ EXCEPT !.pc = "retrieve"]]
                 ELSE [search EXCEPT ![s] = [@ EXCEPT !.pc = "done", !.version = entry.version]]
    /\ UNCHANGED <<live, cache, writer, invalidated, faults>>

(* get_cached is fail-open: an error is a miss. *)
LookupFails(s) ==
    /\ search[s].pc = "lookup"
    /\ Fault
    /\ search' = [search EXCEPT ![s] = [@ EXCEPT !.pc = "retrieve"]]
    /\ UNCHANGED <<live, cache, writer, invalidated>>

(* The vector and the lexical query; the response is as old as the first.  *)
Retrieve(s) ==
    /\ search[s].pc = "retrieve"
    /\ search' = [search EXCEPT ![s] = [@ EXCEPT !.pc = "rank", !.version = live]]
    /\ UNCHANGED <<live, cache, writer, invalidated, faults>>

(* Fusion and reranking, or the fused order when the reranker fails.  The  *)
(* response is returned and its storing is left to a background task.      *)
Rank(s) ==
    /\ search[s].pc = "rank"
    /\ search' = [search EXCEPT ![s] = [@ EXCEPT !.pc = "store"]]
    /\ UNCHANGED <<live, cache, writer, invalidated, faults>>

(* The embedding service or a query of the retrieval raises. *)
SearchFails(s) ==
    /\ search[s].pc \in {"retrieve", "rank"}
    /\ Fault
    /\ search' = [search EXCEPT ![s] = [@ EXCEPT !.pc = "failed"]]
    /\ UNCHANGED <<live, cache, writer, invalidated>>

(* set_cached overwrites what is there, whatever its age. *)
Store(s) ==
    /\ search[s].pc = "store"
    /\ cache' = [cache EXCEPT ![search[s].key] =
                    [version |-> search[s].version, by |-> s]]
    /\ search' = [search EXCEPT ![s] = [@ EXCEPT !.pc = "done"]]
    /\ UNCHANGED <<live, writer, invalidated, faults>>

StoreFails(s) ==
    /\ search[s].pc = "store"
    /\ Fault
    /\ search' = [search EXCEPT ![s] = [@ EXCEPT !.pc = "done"]]
    /\ UNCHANGED <<live, cache, writer, invalidated>>

----------------------------------------------------------------------------
(* An ingestion run, and invalidate_search_cache at its end *)

(* A batch of upserts is committed, or a staging table is swapped in.      *)
Commit(w) ==
    /\ writer[w].pc \in {"idle", "write"}
    /\ live < MaxVersion
    /\ live' = live + 1
    /\ writer' = [writer EXCEPT ![w] = [@ EXCEPT !.pc = "write", !.version = live + 1]]
    /\ UNCHANGED <<cache, search, invalidated, faults>>

(* The run fails after some commits and never invalidates. *)
WriterFails(w) ==
    /\ writer[w].pc = "write"
    /\ Fault
    /\ writer' = [writer EXCEPT ![w] = [@ EXCEPT !.pc = "failed"]]
    /\ UNCHANGED <<live, cache, search, invalidated>>

(* History: the requests that a scan finds in flight. *)
Race == search' = [s \in Searches |->
                     [search[s] EXCEPT !.raced = @ \/ search[s].pc \in InFlight]]

(* Mutant of ScanBegin: the scan leaves out some keys (a page of SCAN is   *)
(* not followed up).                                                       *)
ScanSome(w) ==
    /\ writer[w].pc = "write"
    /\ \E some \in SUBSET Keys :
          writer' = [writer EXCEPT ![w] = [@ EXCEPT !.pc = "scan", !.todo = some]]
    /\ Race
    /\ UNCHANGED <<live, cache, invalidated, faults>>

(* The run is complete: scan_iter walks the keyspace. *)
ScanBegin(w) ==
    /\ writer[w].pc = "write"
    /\ writer' = [writer EXCEPT ![w] = [@ EXCEPT !.pc = "scan", !.todo = Keys]]
    /\ Race
    /\ UNCHANGED <<live, cache, invalidated, faults>>

Scan(w) ==
    /\ writer[w].pc = "scan"
    /\ \E k \in writer[w].todo :
          writer' = [writer EXCEPT ![w] =
                       [@ EXCEPT !.todo = writer[w].todo \ {k},
                                 !.found = writer[w].found \cup
                                             (IF cache[k].by = None THEN {} ELSE {k})]]
    /\ UNCHANGED <<live, cache, search, invalidated, faults>>

(* Mutant of Delete: a deleted key is not a miss but an error from then on. *)
DeleteForGood(w) ==
    /\ writer[w].pc = "scan" /\ writer[w].todo = {}
    /\ cache' = [k \in Keys \ writer[w].found |-> cache[k]]
    /\ writer' = [writer EXCEPT ![w] = [@ EXCEPT !.pc = "done"]]
    /\ UNCHANGED <<live, search, invalidated, faults>>

(* One DEL of all the keys that were found. *)
Delete(w) ==
    /\ writer[w].pc = "scan" /\ writer[w].todo = {}
    /\ cache' = [k \in Keys |-> IF k \in writer[w].found THEN Empty ELSE cache[k]]
    /\ writer' = [writer EXCEPT ![w] = [@ EXCEPT !.pc = "done"]]
    /\ invalidated' = IF writer[w].version > invalidated THEN writer[w].version ELSE invalidated
    /\ UNCHANGED <<live, search, faults>>

(* SCAN or DEL raises: a warning in the log, and the run is complete.      *)
InvalidateFails(w) ==
    /\ writer[w].pc = "scan"
    /\ Fault
    /\ writer' = [writer EXCEPT ![w] = [@ EXCEPT !.pc = "done"]]
    /\ UNCHANGED <<live, cache, search, invalidated>>

(* Mutant of Expire: SET without EX. *)
ExpireNever(k) == FALSE /\ UNCHANGED <<vars, k>>

(* The TTL of set_cached; a hit does not extend it. *)
Expire(k) ==
    /\ cache[k].by # None
    /\ cache' = [cache EXCEPT ![k] = Empty]
    /\ UNCHANGED <<live, search, writer, invalidated, faults>>

SearchStep(s) ==
    \/ Lookup(s) \/ LookupFails(s) \/ Retrieve(s) \/ Rank(s)
    \/ SearchFails(s) \/ Store(s) \/ StoreFails(s)
WriterStep(w) == ScanBegin(w) \/ Scan(w) \/ Delete(w) \/ InvalidateFails(w)

Next ==
    \/ \E s \in Searches : Begin(s) \/ SearchStep(s)
    \/ \E w \in Writers : Commit(w) \/ WriterFails(w) \/ WriterStep(w)
    \/ \E k \in Keys : Expire(k)

Spec == Init /\ [][Next]_vars

(* Redis drops a key at its TTL.  Nothing else is needed for staleness to  *)
(* end, not even that searches or writers get on.                          *)
FairSpec == Spec /\ \A k \in Keys : WF_vars(Expire(k))

----------------------------------------------------------------------------
(* Properties *)

EntryType == [version : 0..MaxVersion, by : Searches \cup {None}]
SearchType ==
    [pc : {"idle", "lookup", "retrieve", "done", "failed"} \cup InFlight, key : Keys,
     version : 0..MaxVersion, since : 0..MaxVersion, raced : BOOLEAN]
WriterType ==
    [pc : {"idle", "write", "scan", "done", "failed"}, todo : SUBSET Keys,
     found : SUBSET Keys, version : 0..MaxVersion]

(* Every variable has its type. *)
TypeOK ==
    /\ live \in 0..MaxVersion /\ invalidated \in 0..MaxVersion /\ faults \in Nat
    /\ cache \in [Keys -> EntryType]
    /\ search \in [Searches -> SearchType]
    /\ writer \in [Writers -> WriterType]

Stale(k) == cache[k].by # None /\ cache[k].version < invalidated

(* After a completed invalidation, a response older than the change stays  *)
(* or comes back in the cache only if its search had read the documents,   *)
(* but not yet stored the response, when the scan for the keys began.      *)
StaleOnlyIfRaced == \A k \in Keys : Stale(k) => search[cache[k].by].raced

(* What is stale in the cache disappears in the end, however often it is   *)
(* asked for in the meantime.                                              *)
StaleGoesAway == \A k \in Keys : Stale(k) ~> ~Stale(k)

(* "Successful live seed/reseed operations invalidate cached search        *)
(* responses" (README.md): a request that begins after such an operation   *)
(* is answered from documents older than its change only if a search with  *)
(* the same key was in flight when a scan for the keys began.              *)
StaleAnswersAreRaced ==
    \A s \in Searches :
        search[s].pc = "done" /\ search[s].version < search[s].since
        => \E r \in Searches : search[r].raced /\ search[r].key = search[s].key
=============================================================================
