------------------------- MODULE SearchCacheProofs -------------------------
(***************************************************************************)
(* Proofs about SearchCache: its type invariant, and that only a search    *)
(* caught between its retrieval and its SET by the scan of an invalidation *)
(* can leave a stale response behind, for any number of searches, writers, *)
(* keys and changes.                                                       *)
(***************************************************************************)
EXTENDS SearchCache, TLAPS

LEMMA InitTypes == Init => TypeOK
<1>1. SUFFICES ASSUME Init PROVE TypeOK
  OBVIOUS
<1>2. 0 \in 0..MaxVersion
  BY BoundsAssumption
<1>3. cache \in [Keys -> EntryType]
  BY <1>1, <1>2 DEF Init, Empty, EntryType
<1>4. writer \in [Writers -> WriterType]
  BY <1>1, <1>2 DEF Init, WriterType
<1>5. search \in [Searches -> SearchType]
  BY <1>1, <1>2 DEF Init, SearchType, InFlight
<1>6. QED
  BY <1>1, <1>2, <1>3, <1>4, <1>5 DEF Init, TypeOK

----------------------------------------------------------------------------
(* The invariant.  A search in flight that no scan has found there has     *)
(* read a version that covers every finished and every ongoing             *)
(* invalidation; a key an ongoing scan has passed holds nothing older than *)
(* the change, except what the scan has found and what such a search left. *)

BoundSound ==
    /\ invalidated <= live
    /\ \A w \in Writers : writer[w].version <= live
EntrySound(k) == cache[k].by # None => search[cache[k].by].pc = "done"
FlightSound(s) ==
    search[s].pc \in InFlight /\ ~search[s].raced =>
        /\ invalidated <= search[s].version
        /\ \A w \in Writers : writer[w].pc = "scan" => writer[w].version <= search[s].version
ScanSound(w) ==
    writer[w].pc = "scan" =>
        \A k \in Keys \ (writer[w].todo \cup writer[w].found) :
            cache[k].by # None /\ cache[k].version < writer[w].version
            => search[cache[k].by].raced
StaleSound(k) == Stale(k) => search[cache[k].by].raced

CacheInv ==
    /\ TypeOK
    /\ BoundSound
    /\ \A k \in Keys : EntrySound(k)
    /\ \A s \in Searches : FlightSound(s)
    /\ \A w \in Writers : ScanSound(w)
    /\ \A k \in Keys : StaleSound(k)

LEMMA CacheInit == Init => CacheInv
<1>1. SUFFICES ASSUME Init PROVE CacheInv
  OBVIOUS
<1>2. TypeOK
  BY <1>1, InitTypes
<1>3. BoundSound
  BY <1>1 DEF Init, BoundSound
<1>4. \A k \in Keys : EntrySound(k) /\ StaleSound(k)
  BY <1>1 DEF Init, EntrySound, StaleSound, Stale, Empty
<1>5. \A s \in Searches : FlightSound(s)
  BY <1>1 DEF Init, FlightSound, InFlight
<1>6. \A w \in Writers : ScanSound(w)
  BY <1>1 DEF Init, ScanSound
<1>7. QED
  BY <1>2, <1>3, <1>4, <1>5, <1>6 DEF CacheInv

----------------------------------------------------------------------------
(* Steps of a search that leave the cache alone: one that gets into flight *)
(* does so with the current version.                                       *)
LEMMA SearchMove ==
    ASSUME CacheInv, NEW s \in Searches, NEW q \in SearchType,
           search' = [search EXCEPT ![s] = q],
           UNCHANGED <<live, cache, writer, invalidated>>, faults' \in Nat,
           search[s].pc # "done", q.raced = search[s].raced,
           q.pc \in InFlight => \/ q.version = live
                                \/ search[s].pc \in InFlight /\ q.version = search[s].version
    PROVE  CacheInv'
<1>1. /\ search' \in [Searches -> SearchType] /\ search'[s] = q
      /\ \A t \in Searches : t # s => search'[t] = search[t]
  BY DEF CacheInv, TypeOK
<1>2. TypeOK'
  BY <1>1 DEF CacheInv, TypeOK
<1>3. \A t \in Searches : search'[t].raced = search[t].raced
  BY <1>1
<1>4. ASSUME NEW k \in Keys, cache[k].by # None
      PROVE  cache[k].by \in Searches /\ search'[cache[k].by] = search[cache[k].by]
  <2>1. cache[k].by \in Searches
    BY <1>4 DEF CacheInv, TypeOK, EntryType
  <2>2. cache[k].by # s
    BY <1>4 DEF CacheInv, EntrySound
  <2>3. QED
    BY <1>1, <2>1, <2>2
<1>5. \A k \in Keys : EntrySound(k)' /\ StaleSound(k)'
  BY <1>4 DEF CacheInv, EntrySound, StaleSound, Stale
<1>6. \A w \in Writers : ScanSound(w)'
  BY <1>4 DEF CacheInv, ScanSound
<1>7. ASSUME NEW t \in Searches PROVE FlightSound(t)'
  <2>1. CASE t # s
    BY <1>1, <2>1 DEF CacheInv, FlightSound
  <2>2. CASE t = s /\ q.version = live
    BY <1>1, <2>2 DEF CacheInv, FlightSound, BoundSound
  <2>3. CASE t = s /\ search[s].pc \in InFlight /\ q.version = search[s].version
    BY <1>1, <2>3 DEF CacheInv, FlightSound
  <2>4. CASE t = s /\ q.pc \notin InFlight
    BY <1>1, <2>4 DEF FlightSound
  <2>5. QED
    BY <2>1, <2>2, <2>3, <2>4
<1>8. BoundSound'
  BY DEF CacheInv, BoundSound
<1>9. QED
  BY <1>2, <1>5, <1>6, <1>7, <1>8 DEF CacheInv

LEMMA FaultType == ASSUME TypeOK, Fault PROVE faults' \in Nat
BY DEF TypeOK, Fault

LEMMA SearchSteps ==
    ASSUME CacheInv, NEW s \in Searches,
           \/ Begin(s) \/ Lookup(s) \/ LookupFails(s) \/ Retrieve(s) \/ Rank(s)
           \/ SearchFails(s) \/ StoreFails(s)
    PROVE  CacheInv'
<1>1. search[s] \in SearchType /\ live \in 0..MaxVersion /\ invalidated \in 0..MaxVersion
      /\ search[s].key \in Keys
  BY DEF CacheInv, TypeOK, SearchType
<1>2. UNCHANGED <<live, cache, writer, invalidated>> /\ search[s].pc # "done"
  BY DEF Begin, Lookup, LookupFails, Retrieve, Rank, SearchFails, StoreFails
<1>3. faults' \in Nat
  BY FaultType DEF CacheInv, TypeOK, Begin, Lookup, LookupFails, Retrieve, Rank,
     SearchFails, StoreFails
<1>4. CASE Begin(s)
  <2>1. PICK p \in {"retrieve", "lookup"} :
          search' = [search EXCEPT ![s] = [search[s] EXCEPT !.pc = p, !.since = invalidated]]
    BY <1>4 DEF Begin
  <2> DEFINE q == [search[s] EXCEPT !.pc = p, !.since = invalidated]
  <2>2. q \in SearchType /\ q.pc = p /\ q.raced = search[s].raced
    BY <1>1 DEF SearchType, InFlight
  <2>3. p \notin InFlight
    BY DEF InFlight
  <2> HIDE DEF q
  <2>4. QED
    BY <1>2, <1>3, <2>1, <2>2, <2>3, SearchMove DEF q
<1>5. CASE \E p \in {"retrieve", "failed", "done"} :
             search' = [search EXCEPT ![s] = [search[s] EXCEPT !.pc = p]]
  <2>1. PICK p \in {"retrieve", "failed", "done"} :
          search' = [search EXCEPT ![s] = [search[s] EXCEPT !.pc = p]]
    BY <1>5
  <2> DEFINE q == [search[s] EXCEPT !.pc = p]
  <2>2. q \in SearchType /\ q.pc = p /\ q.raced = search[s].raced
    BY <1>1 DEF SearchType, InFlight
  <2>3. p \notin InFlight
    BY DEF InFlight
  <2> HIDE DEF q
  <2>4. QED
    BY <1>2, <1>3, <2>1, <2>2, <2>3, SearchMove DEF q
<1>6. CASE \E v \in 0..MaxVersion :
             search' = [search EXCEPT ![s] = [search[s] EXCEPT !.pc = "done", !.version = v]]
  <2>1. PICK v \in 0..MaxVersion :
          search' = [search EXCEPT ![s] = [search[s] EXCEPT !.pc = "done", !.version = v]]
    BY <1>6
  <2> DEFINE q == [search[s] EXCEPT !.pc = "done", !.version = v]
  <2>2. q \in SearchType /\ q.pc = "done" /\ q.raced = search[s].raced
    BY <1>1 DEF SearchType, InFlight
  <2>3. "done" \notin InFlight
    BY DEF InFlight
  <2> HIDE DEF q
  <2>4. QED
    BY <1>2, <1>3, <2>1, <2>2, <2>3, SearchMove DEF q
<1>7. CASE Retrieve(s)
  <2> DEFINE q == [search[s] EXCEPT !.pc = "rank", !.version = live]
  <2>1. search' = [search EXCEPT ![s] = q]
    BY <1>7 DEF Retrieve
  <2>2. q \in SearchType /\ q.pc = "rank" /\ q.raced = search[s].raced /\ q.version = live
    BY <1>1 DEF SearchType, InFlight
  <2> HIDE DEF q
  <2>3. QED
    BY <1>2, <1>3, <2>1, <2>2, SearchMove
<1>8. CASE Rank(s)
  <2> DEFINE q == [search[s] EXCEPT !.pc = "store"]
  <2>1. search' = [search EXCEPT ![s] = q] /\ search[s].pc \in InFlight
    BY <1>8 DEF Rank, InFlight
  <2>2. q \in SearchType /\ q.pc = "store" /\ q.raced = search[s].raced
        /\ q.version = search[s].version
    BY <1>1 DEF SearchType, InFlight
  <2> HIDE DEF q
  <2>3. QED
    BY <1>2, <1>3, <2>1, <2>2, SearchMove
<1>9. CASE Lookup(s)
  <2>1. cache[search[s].key].version \in 0..MaxVersion
    BY <1>1 DEF CacheInv, TypeOK, EntryType
  <2>2. QED
    BY <1>5, <1>6, <1>9, <2>1 DEF Lookup
<1>10. QED
  BY <1>4, <1>5, <1>7, <1>8, <1>9 DEF LookupFails, SearchFails, StoreFails

(* The SET of a search the scan has not found in flight is not stale. *)
LEMMA StoreStep ==
    ASSUME CacheInv, NEW s \in Searches, Store(s)
    PROVE  CacheInv'
<1> DEFINE key == search[s].key
           e == [version |-> search[s].version, by |-> s]
           q == [search[s] EXCEPT !.pc = "done"]
<1>1. search[s] \in SearchType /\ key \in Keys /\ e \in EntryType
      /\ search[s].pc = "store" /\ s # None
  BY NoneAssumption DEF CacheInv, TypeOK, SearchType, EntryType, Store
<1>2. q \in SearchType /\ q.pc = "done" /\ q.raced = search[s].raced
  BY <1>1 DEF SearchType, InFlight
<1>3. /\ cache' = [cache EXCEPT ![key] = e] /\ search' = [search EXCEPT ![s] = q]
      /\ UNCHANGED <<live, writer, invalidated, faults>>
  BY DEF Store
<1>4. e.by = s /\ e.version = search[s].version
  OBVIOUS
<1> HIDE DEF key, e, q
<1>5. /\ cache' \in [Keys -> EntryType] /\ cache'[key] = e
      /\ \A k \in Keys : k # key => cache'[k] = cache[k]
      /\ search' \in [Searches -> SearchType] /\ search'[s] = q
      /\ \A t \in Searches : t # s => search'[t] = search[t]
  BY <1>1, <1>2, <1>3 DEF CacheInv, TypeOK
<1>6. TypeOK' /\ BoundSound'
  BY <1>3, <1>5 DEF CacheInv, TypeOK, BoundSound
<1>7. \A t \in Searches : search'[t].raced = search[t].raced
  BY <1>2, <1>5
<1>8. ASSUME NEW t \in Searches PROVE FlightSound(t)'
  <2>1. CASE t = s
    BY <1>2, <1>5, <2>1 DEF FlightSound, InFlight
  <2>2. CASE t # s
    BY <1>3, <1>5, <2>2 DEF CacheInv, FlightSound
  <2>3. QED
    BY <2>1, <2>2
<1>9. ASSUME NEW k \in Keys PROVE EntrySound(k)'
  <2>1. CASE k = key
    BY <1>2, <1>4, <1>5, <2>1 DEF EntrySound
  <2>2. CASE k # key
    BY <1>2, <1>5, <2>2 DEF CacheInv, EntrySound, TypeOK, EntryType
  <2>3. QED
    BY <2>1, <2>2
<1>10. search[s].pc \in InFlight
  BY <1>1 DEF InFlight
<1>11. ASSUME NEW k \in Keys, k # key, cache[k].by # None
       PROVE  cache[k].by \in Searches
  BY <1>11 DEF CacheInv, TypeOK, EntryType
<1>12. ASSUME NEW k \in Keys PROVE StaleSound(k)'
  <2>1. CASE k = key
    <3>1. invalidated \in Nat /\ search[s].version \in Nat
      BY <1>1, BoundsAssumption DEF CacheInv, TypeOK, SearchType
    <3>2. search[s].version < invalidated => search[s].raced
      BY <1>10, <3>1 DEF CacheInv, FlightSound, TypeOK, SearchType
    <3>3. QED
      BY <1>3, <1>4, <1>5, <1>7, <2>1, <3>2 DEF StaleSound, Stale
  <2>2. CASE k # key
    BY <1>3, <1>5, <1>7, <1>11, <2>2 DEF CacheInv, StaleSound, Stale
  <2>3. QED
    BY <2>1, <2>2
<1>13. ASSUME NEW w \in Writers PROVE ScanSound(w)'
  <2>1. ASSUME NEW k \in Keys, k \notin writer[w].todo \cup writer[w].found,
               writer[w].pc = "scan", cache'[k].by # None,
               cache'[k].version < writer[w].version
        PROVE  search'[cache'[k].by].raced
    <3>1. CASE k = key
      <4>1. writer[w].version \in Nat /\ search[s].version \in Nat
        BY <1>1, BoundsAssumption DEF CacheInv, TypeOK, SearchType, WriterType
      <4>2. search[s].raced
        BY <1>4, <1>5, <1>10, <2>1, <3>1, <4>1
           DEF CacheInv, FlightSound, TypeOK, SearchType
      <4>3. QED
        BY <1>4, <1>5, <1>7, <3>1, <4>2
    <3>2. CASE k # key
      BY <1>5, <1>7, <1>11, <2>1, <3>2 DEF CacheInv, ScanSound
    <3>3. QED
      BY <3>1, <3>2
  <2>2. QED
    BY <1>3, <2>1 DEF ScanSound
<1>14. QED
  BY <1>6, <1>8, <1>9, <1>12, <1>13 DEF CacheInv

----------------------------------------------------------------------------
(* Steps of a writer *)

LEMMA WriterUpdate ==
    ASSUME TypeOK, NEW w \in Writers, NEW m \in WriterType,
           writer' = [writer EXCEPT ![w] = m]
    PROVE  /\ writer' \in [Writers -> WriterType] /\ writer'[w] = m
           /\ \A x \in Writers : x # w => writer'[x] = writer[x]
BY DEF TypeOK

(* A writer that is not scanning afterwards: a commit, a failure. *)
LEMMA WriterMove ==
    ASSUME CacheInv, NEW w \in Writers, NEW m \in WriterType,
           writer' = [writer EXCEPT ![w] = m], m.pc # "scan",
           UNCHANGED <<cache, search, invalidated>>, faults' \in Nat,
           live' \in 0..MaxVersion, live <= live', m.version <= live'
    PROVE  CacheInv'
<1>1. /\ writer' \in [Writers -> WriterType] /\ writer'[w] = m
      /\ \A x \in Writers : x # w => writer'[x] = writer[x]
  BY WriterUpdate DEF CacheInv
<1>2. TypeOK'
  BY <1>1 DEF CacheInv, TypeOK
<1>3. live \in Nat /\ live' \in Nat /\ invalidated \in Nat
      /\ \A x \in Writers : writer[x].version \in Nat
  BY BoundsAssumption DEF CacheInv, TypeOK, WriterType
<1>4. BoundSound'
  BY <1>1, <1>3 DEF CacheInv, BoundSound
<1>5. \A k \in Keys : EntrySound(k)' /\ StaleSound(k)'
  BY DEF CacheInv, EntrySound, StaleSound, Stale
<1>6. \A s \in Searches : FlightSound(s)'
  BY <1>1 DEF CacheInv, FlightSound
<1>7. \A x \in Writers : ScanSound(x)'
  BY <1>1 DEF CacheInv, ScanSound
<1>8. QED
  BY <1>2, <1>4, <1>5, <1>6, <1>7 DEF CacheInv

LEMMA WriterMoves ==
    ASSUME CacheInv, NEW w \in Writers, Commit(w) \/ WriterFails(w) \/ InvalidateFails(w)
    PROVE  CacheInv'
<1>1. writer[w] \in WriterType /\ live \in 0..MaxVersion
      /\ writer[w].version <= live /\ faults \in Nat
  BY DEF CacheInv, TypeOK, BoundSound
<1>2. CASE Commit(w)
  <2> DEFINE m == [writer[w] EXCEPT !.pc = "write", !.version = live + 1]
  <2>1. live' = live + 1 /\ live + 1 \in 0..MaxVersion /\ live <= live + 1
    BY <1>1, <1>2, BoundsAssumption DEF Commit
  <2>2. m \in WriterType /\ m.pc = "write" /\ m.version = live + 1
    BY <1>1, <2>1 DEF WriterType
  <2>3. writer' = [writer EXCEPT ![w] = m] /\ UNCHANGED <<cache, search, invalidated, faults>>
    BY <1>2 DEF Commit
  <2> HIDE DEF m
  <2>4. live' \in 0..MaxVersion /\ live <= live' /\ m.version <= live'
    BY <1>1, <2>1, <2>2, BoundsAssumption
  <2>5. faults' \in Nat /\ m.pc # "scan"
    BY <1>1, <2>2, <2>3
  <2>6. QED
    BY <2>2, <2>3, <2>4, <2>5, WriterMove
<1>3. CASE WriterFails(w) \/ InvalidateFails(w)
  <2>1. PICK p \in {"failed", "done"} :
          writer' = [writer EXCEPT ![w] = [writer[w] EXCEPT !.pc = p]]
    BY <1>3 DEF WriterFails, InvalidateFails
  <2> DEFINE m == [writer[w] EXCEPT !.pc = p]
  <2>2. m \in WriterType /\ m.pc = p /\ m.version = writer[w].version
    BY <1>1 DEF WriterType
  <2>3. UNCHANGED <<live, cache, search, invalidated>> /\ faults' \in Nat
    BY <1>3, FaultType DEF WriterFails, InvalidateFails, CacheInv
  <2> HIDE DEF m
  <2>4. live <= live'
    BY <1>1, <2>3, BoundsAssumption
  <2>5. QED
    BY <1>1, <2>1, <2>2, <2>3, <2>4, WriterMove DEF m
<1>4. QED
  BY <1>2, <1>3

(* The scan begins: everything in flight is marked, every key is to come. *)
LEMMA ScanBeginStep ==
    ASSUME CacheInv, NEW w \in Writers, ScanBegin(w)
    PROVE  CacheInv'
<1> DEFINE m == [writer[w] EXCEPT !.pc = "scan", !.todo = Keys]
<1>1. writer[w] \in WriterType
  BY DEF CacheInv, TypeOK
<1>2. /\ m \in WriterType /\ m.pc = "scan" /\ m.todo = Keys /\ m.version = writer[w].version
  BY <1>1 DEF WriterType
<1>3. writer' = [writer EXCEPT ![w] = m] /\ UNCHANGED <<live, cache, invalidated, faults>> /\ Race
  BY DEF ScanBegin
<1> HIDE DEF m
<1>4. /\ writer' \in [Writers -> WriterType] /\ writer'[w] = m
      /\ \A x \in Writers : x # w => writer'[x] = writer[x]
  BY <1>2, <1>3, WriterUpdate DEF CacheInv
<1>5. ASSUME NEW s \in Searches
      PROVE  /\ search'[s] \in SearchType /\ search'[s].pc = search[s].pc
             /\ search'[s].version = search[s].version
             /\ search[s].raced \/ search[s].pc \in InFlight => search'[s].raced
  <2>1. search[s] \in SearchType
    BY DEF CacheInv, TypeOK
  <2>2. search'[s] = [search[s] EXCEPT !.raced = @ \/ search[s].pc \in InFlight]
    BY <1>3 DEF Race
  <2>3. QED
    BY <2>1, <2>2 DEF SearchType
<1>6. search' \in [Searches -> SearchType]
  BY <1>3, <1>5 DEF Race
<1>7. TypeOK' /\ BoundSound'
  BY <1>2, <1>3, <1>4, <1>6 DEF CacheInv, TypeOK, BoundSound
<1>8. ASSUME NEW k \in Keys PROVE EntrySound(k)' /\ StaleSound(k)'
  <2>1. cache[k].by # None => cache[k].by \in Searches
    BY DEF CacheInv, TypeOK, EntryType
  <2>2. QED
    BY <1>3, <1>5, <2>1 DEF CacheInv, EntrySound, StaleSound, Stale
<1>9. \A s \in Searches : FlightSound(s)'
  BY <1>5 DEF FlightSound
<1>10. ASSUME NEW x \in Writers PROVE ScanSound(x)'
  <2>1. CASE x = w
    BY <1>2, <1>4, <2>1 DEF ScanSound
  <2>2. CASE x # w
    <3>1. \A k \in Keys : cache[k].by # None => cache[k].by \in Searches
      BY DEF CacheInv, TypeOK, EntryType
    <3>2. QED
      BY <1>3, <1>4, <1>5, <2>2, <3>1 DEF CacheInv, ScanSound
  <2>3. QED
    BY <2>1, <2>2
<1>11. QED
  BY <1>7, <1>8, <1>9, <1>10 DEF CacheInv

LEMMA ScanStep ==
    ASSUME CacheInv, NEW w \in Writers, Scan(w)
    PROVE  CacheInv'
<1>1. writer[w] \in WriterType /\ writer[w].pc = "scan"
  BY DEF CacheInv, TypeOK, Scan
<1>2. PICK key \in writer[w].todo :
        writer' = [writer EXCEPT ![w] =
                     [writer[w] EXCEPT !.todo = writer[w].todo \ {key},
                                       !.found = writer[w].found \cup
                                                   (IF cache[key].by = None THEN {} ELSE {key})]]
  BY DEF Scan
<1> DEFINE todo == writer[w].todo \ {key}
           found == writer[w].found \cup (IF cache[key].by = None THEN {} ELSE {key})
           m == [writer[w] EXCEPT !.todo = todo, !.found = found]
<1>3. todo \in SUBSET Keys /\ found \in SUBSET Keys
  BY <1>1, <1>2 DEF WriterType
<1>4. writer' = [writer EXCEPT ![w] = m]
  BY <1>2
<1>5. m \in WriterType /\ m.pc = "scan" /\ m.todo = todo /\ m.found = found
      /\ m.version = writer[w].version
  <2> HIDE DEF todo, found
  <2>1. QED
    BY <1>1, <1>3 DEF WriterType
<1> HIDE DEF m
<1>6. /\ writer' \in [Writers -> WriterType] /\ writer'[w] = m
      /\ \A x \in Writers : x # w => writer'[x] = writer[x]
  BY <1>4, <1>5, WriterUpdate DEF CacheInv
<1>7. UNCHANGED <<live, cache, search, invalidated, faults>>
  BY DEF Scan
<1>8. TypeOK' /\ BoundSound'
  BY <1>5, <1>6, <1>7 DEF CacheInv, TypeOK, BoundSound
<1>9. \A k \in Keys : EntrySound(k)' /\ StaleSound(k)'
  BY <1>7 DEF CacheInv, EntrySound, StaleSound, Stale
<1>10. ASSUME NEW s \in Searches PROVE FlightSound(s)'
  BY <1>1, <1>5, <1>6, <1>7 DEF CacheInv, FlightSound
<1>11. ASSUME NEW x \in Writers PROVE ScanSound(x)'
  <2>1. CASE x = w
    <3>1. ASSUME NEW k \in Keys, k \notin todo \cup found, cache[k].by # None
          PROVE  k \notin writer[w].todo \cup writer[w].found
      BY <3>1
    <3>2. QED
      <4> HIDE DEF todo, found
      <4>1. QED
        BY <1>1, <1>5, <1>6, <1>7, <2>1, <3>1 DEF CacheInv, ScanSound
  <2>2. CASE x # w
    BY <1>6, <1>7, <2>2 DEF CacheInv, ScanSound
  <2>3. QED
    BY <2>1, <2>2
<1>12. QED
  BY <1>8, <1>9, <1>10, <1>11 DEF CacheInv

(* A step that only empties entries keeps what is said about the others. *)
LEMMA EmptyKeeps ==
    ASSUME CacheInv, NEW k \in Keys, cache'[k] = cache[k] \/ cache'[k] = Empty,
           UNCHANGED search
    PROVE  EntrySound(k)'
BY DEF CacheInv, EntrySound, Empty

LEMMA DeleteStep ==
    ASSUME CacheInv, NEW w \in Writers, Delete(w)
    PROVE  CacheInv'
<1> DEFINE m == [writer[w] EXCEPT !.pc = "done"]
<1>1. writer[w] \in WriterType /\ writer[w].pc = "scan" /\ writer[w].todo = {}
      /\ writer[w].version \in 0..MaxVersion /\ writer[w].version <= live
  BY DEF CacheInv, TypeOK, BoundSound, WriterType, Delete
<1>2. m \in WriterType /\ m.pc = "done" /\ m.version = writer[w].version
  BY <1>1 DEF WriterType
<1>3. writer' = [writer EXCEPT ![w] = m] /\ UNCHANGED <<live, search, faults>>
  BY DEF Delete
<1> HIDE DEF m
<1>4. /\ writer' \in [Writers -> WriterType] /\ writer'[w] = m
      /\ \A x \in Writers : x # w => writer'[x] = writer[x]
  BY <1>2, <1>3, WriterUpdate DEF CacheInv
<1>5. \A k \in Keys : cache'[k] = IF k \in writer[w].found THEN Empty ELSE cache[k]
  BY DEF Delete
<1>6. cache' \in [Keys -> EntryType]
  <2>1. Empty \in EntryType
    BY BoundsAssumption DEF Empty, EntryType
  <2>2. QED
    BY <2>1 DEF Delete, CacheInv, TypeOK
<1>7. /\ invalidated' = invalidated \/ invalidated' = writer[w].version
      /\ invalidated' \in 0..MaxVersion
  BY <1>1 DEF Delete, CacheInv, TypeOK
<1>8. TypeOK' /\ BoundSound'
  BY <1>1, <1>2, <1>3, <1>4, <1>6, <1>7 DEF CacheInv, TypeOK, BoundSound
<1>9. \A k \in Keys : EntrySound(k)'
  BY <1>3, <1>5, EmptyKeeps
<1>10. ASSUME NEW k \in Keys PROVE StaleSound(k)'
  <2>1. CASE k \in writer[w].found
    BY <1>5, <2>1 DEF StaleSound, Stale, Empty
  <2>2. CASE k \notin writer[w].found /\ invalidated' = invalidated
    BY <1>3, <1>5, <2>2 DEF CacheInv, StaleSound, Stale
  <2>3. CASE k \notin writer[w].found /\ invalidated' = writer[w].version
    BY <1>1, <1>3, <1>5, <2>3 DEF CacheInv, StaleSound, Stale, ScanSound
  <2>4. QED
    BY <1>7, <2>1, <2>2, <2>3
<1>11. ASSUME NEW s \in Searches PROVE FlightSound(s)'
  BY <1>1, <1>2, <1>3, <1>4, <1>7 DEF CacheInv, FlightSound
<1>12. ASSUME NEW x \in Writers PROVE ScanSound(x)'
  <2>1. CASE x = w
    BY <1>2, <1>4, <2>1 DEF ScanSound
  <2>2. CASE x # w
    BY <1>3, <1>4, <1>5, <2>2 DEF CacheInv, ScanSound, Empty
  <2>3. QED
    BY <2>1, <2>2
<1>13. QED
  BY <1>8, <1>9, <1>10, <1>11, <1>12 DEF CacheInv

LEMMA ExpireStep ==
    ASSUME CacheInv, NEW key \in Keys, Expire(key)
    PROVE  CacheInv'
<1>1. UNCHANGED <<live, search, writer, invalidated, faults>>
  BY DEF Expire
<1>2. Empty \in EntryType
  BY BoundsAssumption DEF Empty, EntryType
<1>3. /\ cache' \in [Keys -> EntryType]
      /\ \A k \in Keys : cache'[k] = cache[k] \/ cache'[k] = Empty
  BY <1>2 DEF Expire, CacheInv, TypeOK
<1>4. TypeOK' /\ BoundSound'
  BY <1>1, <1>3 DEF CacheInv, TypeOK, BoundSound
<1>5. ASSUME NEW k \in Keys PROVE EntrySound(k)' /\ StaleSound(k)'
  <2>1. EntrySound(k)'
    BY <1>1, <1>3, EmptyKeeps
  <2>2. CASE cache'[k] = Empty
    BY <2>1, <2>2 DEF StaleSound, Stale, Empty
  <2>3. CASE cache'[k] = cache[k]
    BY <1>1, <2>1, <2>3 DEF CacheInv, StaleSound, Stale
  <2>4. QED
    BY <1>3, <2>1, <2>2, <2>3
<1>6. \A s \in Searches : FlightSound(s)'
  BY <1>1 DEF CacheInv, FlightSound
<1>7. ASSUME NEW w \in Writers PROVE ScanSound(w)'
  BY <1>1, <1>3 DEF CacheInv, ScanSound, Empty
<1>8. QED
  BY <1>4, <1>5, <1>6, <1>7 DEF CacheInv

LEMMA CacheStep == CacheInv /\ [Next]_vars => CacheInv'
<1>1. SUFFICES ASSUME CacheInv, [Next]_vars PROVE CacheInv'
  OBVIOUS
<1>2. ASSUME NEW s \in Searches, Begin(s) \/ SearchStep(s) PROVE CacheInv'
  BY <1>1, <1>2, SearchSteps, StoreStep DEF SearchStep
<1>3. ASSUME NEW w \in Writers, Commit(w) \/ WriterFails(w) \/ WriterStep(w) PROVE CacheInv'
  BY <1>1, <1>3, WriterMoves, ScanBeginStep, ScanStep, DeleteStep DEF WriterStep
<1>4. ASSUME NEW k \in Keys, Expire(k) PROVE CacheInv'
  BY <1>1, <1>4, ExpireStep
<1>5. CASE UNCHANGED vars
  <2>1. TypeOK' /\ BoundSound'
    BY <1>1, <1>5 DEF vars, CacheInv, TypeOK, BoundSound
  <2>2. \A k \in Keys : EntrySound(k)' /\ StaleSound(k)'
    BY <1>1, <1>5 DEF vars, CacheInv, EntrySound, StaleSound, Stale
  <2>3. (\A s \in Searches : FlightSound(s)') /\ (\A w \in Writers : ScanSound(w)')
    BY <1>1, <1>5 DEF vars, CacheInv, FlightSound, ScanSound
  <2>4. QED
    BY <2>1, <2>2, <2>3 DEF CacheInv
<1>6. QED
  BY <1>1, <1>2, <1>3, <1>4, <1>5 DEF Next

LEMMA CacheInvariant == Spec => []CacheInv
BY CacheInit, CacheStep, PTL DEF Spec

(* Every variable has its type in every reachable state. *)
THEOREM CacheTypes == Spec => []TypeOK
<1>1. CacheInv => TypeOK
  BY DEF CacheInv
<1>2. QED
  BY <1>1, CacheInvariant, PTL

(* After an invalidation only the response of a search that the scan found *)
(* between its retrieval and its SET can be stale (set_cached runs in a    *)
(* background task, invalidate_search_cache does not wait for it).         *)
THEOREM StaleIsRaced == Spec => []StaleOnlyIfRaced
<1>1. CacheInv => StaleOnlyIfRaced
  BY DEF CacheInv, StaleSound, StaleOnlyIfRaced
<1>2. QED
  BY <1>1, CacheInvariant, PTL

----------------------------------------------------------------------------
(* Answers.  A request begins with what has been invalidated, so what its  *)
(* own retrieval reads is new enough; an older answer comes from an entry  *)
(* that is stale, and the search that stored it has the same key.          *)

KeySound(k) == cache[k].by # None => search[cache[k].by].key = k
SinceSound(s) ==
    /\ search[s].since <= invalidated
    /\ search[s].pc \in InFlight => search[s].since <= search[s].version
RacedKey(k) == \E r \in Searches : search[r].raced /\ search[r].key = k
AnswerSound(s) ==
    search[s].pc = "done" /\ search[s].version < search[s].since => RacedKey(search[s].key)

AnswerInv ==
    /\ \A k \in Keys : KeySound(k)
    /\ \A s \in Searches : SinceSound(s) /\ AnswerSound(s)

LEMMA AnswerInit == Init => AnswerInv
<1>1. SUFFICES ASSUME Init PROVE AnswerInv
  OBVIOUS
<1>2. \A k \in Keys : KeySound(k)
  BY <1>1 DEF Init, KeySound, Empty
<1>3. ASSUME NEW s \in Searches PROVE SinceSound(s) /\ AnswerSound(s)
  <2>1. search[s].pc = "idle" /\ search[s].since = 0 /\ invalidated = 0
    BY <1>1 DEF Init
  <2>2. QED
    BY <2>1 DEF SinceSound, AnswerSound, InFlight
<1>4. QED
  BY <1>2, <1>3 DEF AnswerInv

(* No step changes the key of a request, or takes back that it was raced. *)
SearchKept(t) ==
    search'[t].key = search[t].key /\ (search[t].raced => search'[t].raced)

LEMMA RacedStays ==
    ASSUME \A t \in Searches : SearchKept(t), NEW k, RacedKey(k)
    PROVE  RacedKey(k)'
BY DEF SearchKept, RacedKey

(* A step of one search that leaves the others and the invalidations alone.*)
StoresAtMost(s) ==
    \A k \in Keys : cache'[k] = cache[k] \/ (cache'[k].by = s /\ k = search[s].key)
GoodAnswer(q) ==
    /\ q.since <= invalidated
    /\ q.pc \in InFlight => q.since <= q.version
    /\ q.pc = "done" /\ q.version < q.since => RacedKey(q.key)

LEMMA AnswerMove ==
    ASSUME CacheInv, AnswerInv, NEW s \in Searches, NEW q \in SearchType,
           search' = [search EXCEPT ![s] = q], UNCHANGED invalidated,
           q.key = search[s].key, q.raced = search[s].raced,
           GoodAnswer(q), StoresAtMost(s)
    PROVE  AnswerInv'
<1>1. /\ search'[s] = q
      /\ \A t \in Searches : t # s => search'[t] = search[t]
  BY DEF CacheInv, TypeOK
<1>2. \A t \in Searches : SearchKept(t)
  BY <1>1 DEF SearchKept
<1>3. ASSUME NEW k \in Keys PROVE KeySound(k)'
  <2>1. cache[k].by # None => cache[k].by \in Searches
    BY DEF CacheInv, TypeOK, EntryType
  <2>2. QED
    BY <1>2, <2>1 DEF AnswerInv, KeySound, SearchKept, StoresAtMost
<1>4. ASSUME NEW t \in Searches PROVE SinceSound(t)' /\ AnswerSound(t)'
  <2>1. CASE t = s
    BY <1>1, <1>2, <2>1, RacedStays DEF SinceSound, AnswerSound, GoodAnswer
  <2>2. CASE t # s
    BY <1>1, <1>2, <2>2, RacedStays DEF AnswerInv, SinceSound, AnswerSound
  <2>3. QED
    BY <2>1, <2>2
<1>5. QED
  BY <1>3, <1>4 DEF AnswerInv

(* The response of a hit is older than the request only if it is stale.    *)
LEMMA HitRaced ==
    ASSUME CacheInv, AnswerInv, NEW s \in Searches, cache[search[s].key].by # None,
           cache[search[s].key].version < search[s].since
    PROVE  RacedKey(search[s].key)
<1> DEFINE k == search[s].key
<1>1. k \in Keys /\ search[s].since \in Nat /\ invalidated \in Nat
      /\ cache[k].by \in Searches /\ cache[k].version \in Nat
  BY BoundsAssumption DEF CacheInv, TypeOK, SearchType, EntryType
<1>2. Stale(k)
  BY <1>1 DEF AnswerInv, SinceSound, Stale
<1>3. search[cache[k].by].raced /\ search[cache[k].by].key = k
  BY <1>1, <1>2 DEF CacheInv, StaleSound, AnswerInv, KeySound
<1>4. QED
  BY <1>1, <1>3 DEF RacedKey

LEMMA AnswerSearch ==
    ASSUME CacheInv, AnswerInv, NEW s \in Searches, Begin(s) \/ SearchStep(s)
    PROVE  AnswerInv'
<1>1. /\ search[s] \in SearchType /\ search[s].key \in Keys
      /\ \A k \in Keys : cache[k] \in EntryType
  BY DEF CacheInv, TypeOK, SearchType, EntryType
<1>2. /\ search[s].since \in Nat /\ search[s].version \in Nat /\ search[s].since \in 0..MaxVersion
      /\ invalidated \in Nat /\ invalidated \in 0..MaxVersion
      /\ live \in Nat /\ live \in 0..MaxVersion
      /\ invalidated <= live /\ SinceSound(s)
  BY <1>1, BoundsAssumption DEF CacheInv, TypeOK, SearchType, BoundSound, AnswerInv
<1>3. UNCHANGED invalidated
  BY DEF Begin, SearchStep, Lookup, LookupFails, Retrieve, Rank, SearchFails,
     Store, StoreFails
<1>4. CASE Begin(s)
  <2>1. PICK p \in {"retrieve", "lookup"} :
          search' = [search EXCEPT ![s] = [search[s] EXCEPT !.pc = p, !.since = invalidated]]
    BY <1>4 DEF Begin
  <2> DEFINE q == [search[s] EXCEPT !.pc = p, !.since = invalidated]
  <2>2. /\ q \in SearchType /\ q.pc = p /\ q.since = invalidated
        /\ q.key = search[s].key /\ q.raced = search[s].raced
    BY <1>1, <1>2 DEF SearchType, InFlight
  <2>3. search' = [search EXCEPT ![s] = q]
    BY <2>1
  <2>4. StoresAtMost(s)
    BY <1>4 DEF Begin, StoresAtMost
  <2> HIDE DEF q
  <2>5. GoodAnswer(q)
    BY <1>2, <2>2 DEF GoodAnswer, InFlight
  <2>6. QED
    BY <1>3, <2>2, <2>3, <2>4, <2>5, AnswerMove
<1>5. CASE Lookup(s) /\ cache[search[s].key].by # None
  <2> DEFINE e == cache[search[s].key]
             q == [search[s] EXCEPT !.pc = "done", !.version = e.version]
  <2>1. e \in EntryType /\ search' = [search EXCEPT ![s] = q]
    BY <1>1, <1>5 DEF Lookup
  <2>2. /\ q \in SearchType /\ q.pc = "done" /\ q.since = search[s].since
        /\ q.version = e.version /\ q.key = search[s].key /\ q.raced = search[s].raced
    BY <1>1, <2>1 DEF SearchType, EntryType, InFlight
  <2>3. e.version < search[s].since => RacedKey(search[s].key)
    BY <1>5, HitRaced
  <2>4. StoresAtMost(s)
    BY <1>5 DEF Lookup, StoresAtMost
  <2> HIDE DEF q, e
  <2>5. GoodAnswer(q)
    BY <1>2, <2>2, <2>3 DEF GoodAnswer, SinceSound, InFlight
  <2>6. QED
    BY <1>3, <2>1, <2>2, <2>4, <2>5, AnswerMove
<1>6. CASE \E p \in {"retrieve", "failed"} :
             /\ search' = [search EXCEPT ![s] = [search[s] EXCEPT !.pc = p]]
             /\ UNCHANGED cache
  <2>1. PICK p \in {"retrieve", "failed"} :
          search' = [search EXCEPT ![s] = [search[s] EXCEPT !.pc = p]]
    BY <1>6
  <2> DEFINE q == [search[s] EXCEPT !.pc = p]
  <2>2. /\ q \in SearchType /\ q.pc = p /\ q.since = search[s].since
        /\ q.key = search[s].key /\ q.raced = search[s].raced
    BY <1>1 DEF SearchType, InFlight
  <2>3. search' = [search EXCEPT ![s] = q]
    BY <2>1
  <2>4. StoresAtMost(s)
    BY <1>6 DEF StoresAtMost
  <2> HIDE DEF q
  <2>5. GoodAnswer(q)
    BY <1>2, <2>2 DEF GoodAnswer, SinceSound, InFlight
  <2>6. QED
    BY <1>3, <2>2, <2>3, <2>4, <2>5, AnswerMove
<1>7. CASE Retrieve(s)
  <2> DEFINE q == [search[s] EXCEPT !.pc = "rank", !.version = live]
  <2>1. search' = [search EXCEPT ![s] = q]
    BY <1>7 DEF Retrieve
  <2>2. /\ q \in SearchType /\ q.pc = "rank" /\ q.since = search[s].since
        /\ q.version = live /\ q.key = search[s].key /\ q.raced = search[s].raced
    BY <1>1, <1>2 DEF SearchType, InFlight
  <2>3. StoresAtMost(s)
    BY <1>7 DEF Retrieve, StoresAtMost
  <2> HIDE DEF q
  <2>4. GoodAnswer(q)
    BY <1>2, <2>2 DEF GoodAnswer, SinceSound
  <2>5. QED
    BY <1>3, <2>1, <2>2, <2>3, <2>4, AnswerMove
<1>8. CASE Rank(s) \/ Store(s) \/ StoreFails(s)
  <2>1. PICK p \in {"store", "done"} :
          search' = [search EXCEPT ![s] = [search[s] EXCEPT !.pc = p]]
    BY <1>8 DEF Rank, Store, StoreFails
  <2> DEFINE q == [search[s] EXCEPT !.pc = p]
  <2>2. /\ q \in SearchType /\ q.since = search[s].since
        /\ q.version = search[s].version /\ q.key = search[s].key
        /\ q.raced = search[s].raced
    BY <1>1 DEF SearchType, InFlight
  <2>3. search' = [search EXCEPT ![s] = q]
    BY <2>1
  <2>4. StoresAtMost(s)
    <3>1. CASE Store(s)
      BY <1>1, <3>1 DEF Store, StoresAtMost, CacheInv, TypeOK
    <3>2. CASE ~Store(s)
      BY <1>8, <3>2 DEF Rank, StoreFails, StoresAtMost
    <3>3. QED
      BY <3>1, <3>2
  <2>5. search[s].since <= search[s].version
    BY <1>2, <1>8 DEF SinceSound, InFlight, Rank, Store, StoreFails
  <2> HIDE DEF q
  <2>6. GoodAnswer(q)
    BY <1>2, <2>2, <2>5 DEF GoodAnswer, SinceSound
  <2>7. QED
    BY <1>3, <2>2, <2>3, <2>4, <2>6, AnswerMove
<1>9. QED
  BY <1>4, <1>5, <1>6, <1>7, <1>8 DEF SearchStep, Lookup, LookupFails, SearchFails

(* Writers and expiries store nothing; what is invalidated only grows.     *)
LEMMA AnswerWriter ==
    ASSUME CacheInv, AnswerInv,
           \/ \E w \in Writers : Commit(w) \/ WriterFails(w) \/ WriterStep(w)
           \/ \E k \in Keys : Expire(k)
    PROVE  AnswerInv'
<1>1. ASSUME NEW k \in Keys PROVE cache'[k] = cache[k] \/ cache'[k].by = None
  <2>1. ASSUME NEW w \in Writers, Commit(w) \/ WriterFails(w) \/ WriterStep(w)
        PROVE  cache'[k] = cache[k] \/ cache'[k].by = None
    <3>1. Empty.by = None
      BY DEF Empty
    <3>2. CASE Delete(w)
      BY <3>1, <3>2 DEF Delete
    <3>3. CASE ~Delete(w)
      BY <2>1, <3>3 DEF Commit, WriterFails, WriterStep, ScanBegin, Scan, InvalidateFails
    <3>4. QED
      BY <3>2, <3>3
  <2>2. CASE \E key \in Keys : Expire(key)
    BY <2>2 DEF Expire, Empty, CacheInv, TypeOK
  <2>3. QED
    BY <2>1, <2>2
<1>2. invalidated \in Nat /\ invalidated' \in Nat /\ invalidated <= invalidated'
  <2>1. invalidated \in Nat /\ \A w \in Writers : writer[w].version \in Nat
    BY BoundsAssumption DEF CacheInv, TypeOK, WriterType
  <2>2. \/ invalidated' = invalidated
        \/ \E w \in Writers : invalidated' = IF writer[w].version > invalidated
                                           THEN writer[w].version ELSE invalidated
    BY DEF Commit, WriterFails, WriterStep, ScanBegin, Scan, Delete, InvalidateFails, Expire
  <2>3. QED
    BY <2>1, <2>2
<1>3. ASSUME NEW t \in Searches
      PROVE  /\ SearchKept(t) /\ search'[t].pc = search[t].pc
             /\ search'[t].version = search[t].version /\ search'[t].since = search[t].since
  <2>1. search[t] \in SearchType
    BY DEF CacheInv, TypeOK
  <2>2. search'[t] = [search[t] EXCEPT !.raced = @ \/ search[t].pc \in InFlight]
        \/ search'[t] = search[t]
    BY DEF Commit, WriterFails, WriterStep, ScanBegin, Scan, Delete, InvalidateFails, Expire, Race
  <2>3. QED
    BY <2>1, <2>2 DEF SearchType, SearchKept
<1>4. ASSUME NEW k \in Keys PROVE KeySound(k)'
  <2>1. cache[k].by # None => cache[k].by \in Searches
    BY DEF CacheInv, TypeOK, EntryType
  <2>2. QED
    BY <1>1, <1>3, <2>1 DEF AnswerInv, KeySound, SearchKept
<1>5. ASSUME NEW t \in Searches PROVE SinceSound(t)' /\ AnswerSound(t)'
  <2>1. search[t].since \in Nat
    BY BoundsAssumption DEF CacheInv, TypeOK, SearchType
  <2>2. QED
    BY <1>2, <1>3, <2>1, RacedStays DEF AnswerInv, SinceSound, AnswerSound, SearchKept
<1>6. QED
  BY <1>4, <1>5 DEF AnswerInv

LEMMA AnswerStep == CacheInv /\ AnswerInv /\ [Next]_vars => AnswerInv'
<1>1. SUFFICES ASSUME CacheInv, AnswerInv, [Next]_vars PROVE AnswerInv'
  OBVIOUS
<1>2. CASE UNCHANGED vars
  BY <1>1, <1>2 DEF vars, AnswerInv, KeySound, SinceSound, AnswerSound, RacedKey
<1>3. QED
  BY <1>1, <1>2, AnswerSearch, AnswerWriter DEF Next

(* A request that begins after a completed invalidation is answered from   *)
(* documents older than its change only if a search with its key was in    *)
(* flight when a scan began: its own retrieval (orchestrate_search) reads  *)
(* the live table, and what get_cached finds is stale only by such a race. *)
THEOREM AnswersAreRaced == Spec => []StaleAnswersAreRaced
<1>1. AnswerInv => StaleAnswersAreRaced
  BY DEF AnswerInv, AnswerSound, RacedKey, StaleAnswersAreRaced
<1>2. Spec => []AnswerInv
  BY AnswerInit, AnswerStep, CacheInvariant, PTL DEF Spec
<1>3. QED
  BY <1>1, <1>2, PTL
=============================================================================
