---------------------------- MODULE EmbedChunks ----------------------------
(***************************************************************************)
(* How seed() gets one chunk of a page into the database: process_chunk,   *)
(* inside a retry of its own, embeds the chunk in batches that run         *)
(* concurrently, each inside another retry, and then inserts the rows.     *)
(*                                                                         *)
(* asyncio.gather raises the first error and leaves the other batches of   *)
(* that attempt running: a retried chunk shares the connections of the     *)
(* HTTP client with the batches its earlier attempts left behind.          *)
(*                                                                         *)
(* A text is its place in the chunk, a vector the text it was computed     *)
(* from, or 0 when it belongs to none of the chunk.                        *)
(***************************************************************************)
EXTENDS Naturals, FiniteSets, Sequences, SequencesExt

CONSTANTS
    NTexts,         \* rows of the chunk with a content and an id
    BatchSize,      \* EMBED_BATCH_SIZE
    NBatches,       \* batches of the chunk
    FlushSize,      \* DB_BATCH_SIZE
    Replies,        \* what the service may answer, as places in the batch
    MaxConcurrency, \* MAX_EMBED_CONCURRENCY: semaphore and connection pool
    MaxRetries,     \* of embed_batch (3)
    ChunkRetries,   \* of process_chunk (2)
    MaxErrors       \* bound: errors of the embedding calls

ASSUME TextsAssumption == NTexts \in Nat
ASSUME SizesAssumption == BatchSize \in Nat \ {0} /\ FlushSize \in Nat \ {0}
ASSUME BatchesAssumption ==
    NBatches \in Nat /\ NTexts <= NBatches * BatchSize /\ NBatches * BatchSize < NTexts + BatchSize
ASSUME RepliesAssumption == Replies \subseteq Seq(Nat)
ASSUME ConcurrencyAssumption == MaxConcurrency \in Nat \ {0}
ASSUME RetriesAssumption == MaxRetries \in Nat /\ ChunkRetries \in Nat
ASSUME ErrorsAssumption == MaxErrors \in Nat

Batches == 1..NBatches
Attempts == 1..(ChunkRetries + 1)

Least(m, n) == IF m < n THEN m ELSE n
(* Batch b holds the texts after Upto(b - 1) and up to Upto(b).            *)
Upto(b) == Least(b * BatchSize, NTexts)
Size(b) == Upto(b) - Upto(b - 1)

VARIABLES
    chunk,      \* where process_chunk and the retry around it are
    attempt,    \* the current call of process_chunk
    raised,     \* the first error of its batches, which gather will raise
    call,       \* embed_batch of each attempt and batch
    vectors,    \* what embed_in_chunks returns
    at,         \* the loop over the rows: how many are flushed
    stored,     \* rows in the database: <<text, vector>>
    errors      \* how many retryable errors there were

vars == <<chunk, attempt, raised, call, vectors, at, stored, errors>>

Ended == {"inserted", "interrupted", "failed"}
(* A batch between acquiring and releasing the semaphore of its attempt; a *)
(* batch sleeps inside it. *)
Admitted == {"pool", "request", "sleep"}
NotStarted == [b \in Batches |-> [pc |-> "none", tries |-> 0, reply |-> << >>]]
Started == [b \in Batches |-> [pc |-> "wait", tries |-> 0, reply |-> << >>]]

Init ==
    /\ chunk = "embed" /\ attempt = 1 /\ raised = "nothing"
    /\ call = [a \in Attempts |-> IF a = 1 THEN Started ELSE NotStarted]
    /\ vectors = << >> /\ at = 0 /\ stored = << >> /\ errors = 0

----------------------------------------------------------------------------
(* embed_batch, under the semaphore of its embed_in_chunks *)

Move(a, b, p) == call' = [call EXCEPT ![a][b].pc = p]

InPc(a, P) == {b \in Batches : call[a][b].pc \in P}
Connections == {c \in Attempts \X Batches : call[c[1]][c[2]].pc = "request"}

(* Mutant of Admit: the semaphore is not released. *)
AdmitLeaky(a, b) ==
    /\ call[a][b].pc = "wait"
    /\ \A c \in Batches : c < b => call[a][c].pc # "wait"
    /\ Cardinality(Batches \ InPc(a, {"wait"})) < MaxConcurrency
    /\ Move(a, b, "pool")
    /\ UNCHANGED <<chunk, attempt, raised, vectors, at, stored, errors>>

(* The semaphore is fair, and gather starts the batches in order. *)
Admit(a, b) ==
    /\ call[a][b].pc = "wait"
    /\ \A c \in Batches : c < b => call[a][c].pc # "wait"
    /\ Cardinality(InPc(a, Admitted)) < MaxConcurrency
    /\ Move(a, b, "pool")
    /\ UNCHANGED <<chunk, attempt, raised, vectors, at, stored, errors>>

(* httpx.Limits(max_connections): one pool for all attempts. *)
Connect(a, b) ==
    /\ call[a][b].pc = "pool"
    /\ Cardinality(Connections) < MaxConcurrency
    /\ Move(a, b, "request")
    /\ UNCHANGED <<chunk, attempt, raised, vectors, at, stored, errors>>

(* The texts of batch b that are at the places of r. *)
Texts(b, r) == [i \in DOMAIN r |-> IF r[i] \in 1..Size(b) THEN Upto(b - 1) + r[i] ELSE 0]

(* The service answers with any list of vectors: embed_batch takes it as   *)
(* it is, too short, too long or out of order.                             *)
Answer(a, b) ==
    /\ call[a][b].pc = "request"
    /\ \E r \in Replies :
          call' = [call EXCEPT ![a][b] = [@ EXCEPT !.pc = "answered", !.reply = Texts(b, r)]]
    /\ UNCHANGED <<chunk, attempt, raised, vectors, at, stored, errors>>

(* Mutant of Raise: a batch left behind ends the attempt that runs now.    *)
RaiseLate(a, e) == raised' = IF raised = "nothing" THEN e ELSE raised

(* gather remembers the first error of its own attempt. *)
Raise(a, e) == raised' = IF a = attempt /\ raised = "nothing" THEN e ELSE raised

(* Mutant of CallFails: it never gives up. *)
CallFailsOn(a, b) ==
    /\ call[a][b].pc \in {"pool", "request"}
    /\ errors < MaxErrors /\ errors' = errors + 1
    /\ call' = [call EXCEPT ![a][b].pc = "sleep", ![a][b].tries = @ + 1]
    /\ UNCHANGED <<chunk, attempt, raised, vectors, at, stored>>

(* An error is_retryable accepts, of the call or of the wait for a         *)
(* connection: the batch sleeps and tries again, or gives up.              *)
CallFails(a, b) ==
    /\ call[a][b].pc \in {"pool", "request"}
    /\ errors < MaxErrors /\ errors' = errors + 1
    /\ LET again == call[a][b].tries < MaxRetries
       IN /\ call' = [call EXCEPT ![a][b] =
                         [@ EXCEPT !.pc = IF again THEN "sleep" ELSE "gaveUp",
                                   !.tries = call[a][b].tries + 1]]
          /\ IF again THEN UNCHANGED raised ELSE Raise(a, "retryable")
    /\ UNCHANGED <<chunk, attempt, vectors, at, stored>>

(* Any other error is raised at once. *)
CallRejected(a, b) ==
    /\ call[a][b].pc = "request"
    /\ Move(a, b, "rejected")
    /\ Raise(a, "fatal")
    /\ UNCHANGED <<chunk, attempt, vectors, at, stored, errors>>

WakeUp(a, b) ==
    /\ call[a][b].pc = "sleep"
    /\ Move(a, b, "pool")
    /\ UNCHANGED <<chunk, attempt, raised, vectors, at, stored, errors>>

----------------------------------------------------------------------------
(* process_chunk, in the retry of seed() *)

(* The error gather raises ends the attempt, and only the attempt; after   *)
(* the last one a retryable error makes the task INTERRUPTED.              *)
GatherRaises ==
    /\ chunk = "embed" /\ raised # "nothing"
    /\ chunk' = IF raised = "fatal" THEN "failed"
                ELSE IF attempt <= ChunkRetries THEN "pause" ELSE "interrupted"
    /\ UNCHANGED <<attempt, raised, call, vectors, at, stored, errors>>

NextAttempt ==
    /\ chunk = "pause"
    /\ chunk' = "embed" /\ raised' = "nothing"
    /\ attempt' = attempt + 1
    /\ call' = [call EXCEPT ![attempt + 1] = Started]
    /\ UNCHANGED <<vectors, at, stored, errors>>

(* The vectors of the attempt's batches, in the order of the batches. *)
Gathered == FlattenSeq([b \in Batches |-> call[attempt][b].reply])

(* Mutant of GatherDone: only missing vectors are an error. *)
GatherDoneAtLeast ==
    /\ chunk = "embed" /\ raised = "nothing"
    /\ InPc(attempt, {"answered"}) = Batches
    /\ vectors' = Gathered
    /\ chunk' = IF Len(Gathered) >= NTexts THEN "insert" ELSE "failed"
    /\ at' = 0
    /\ UNCHANGED <<attempt, raised, call, stored, errors>>

(* All batches are there; a wrong total of vectors is a ValueError. *)
GatherDone ==
    /\ chunk = "embed" /\ raised = "nothing"
    /\ InPc(attempt, {"answered"}) = Batches
    /\ vectors' = Gathered
    /\ chunk' = IF Len(Gathered) = NTexts THEN "insert" ELSE "failed"
    /\ at' = 0
    /\ UNCHANGED <<attempt, raised, call, stored, errors>>

(* _flush commits the next rows: the texts and the vectors are joined by   *)
(* their position.                                                         *)
Insert ==
    /\ chunk = "insert" /\ at < NTexts
    /\ at' = Least(at + FlushSize, NTexts)
    /\ stored' = stored \o [k \in 1..(at' - at) |-> <<at + k, vectors[at + k]>>]
    /\ UNCHANGED <<chunk, attempt, raised, call, vectors, errors>>

InsertDone ==
    /\ chunk = "insert" /\ at = NTexts
    /\ chunk' = "inserted"
    /\ UNCHANGED <<attempt, raised, call, vectors, at, stored, errors>>

(* Mutant of InsertFails: a database error is taken for a transient one. *)
InsertRetried ==
    /\ chunk = "insert" /\ at < NTexts
    /\ chunk' = IF attempt <= ChunkRetries THEN "pause" ELSE "interrupted"
    /\ UNCHANGED <<attempt, raised, call, vectors, at, stored, errors>>

(* A database error is not retryable, and what was committed stays. *)
InsertFails ==
    /\ chunk = "insert" /\ at < NTexts
    /\ chunk' = "failed"
    /\ UNCHANGED <<attempt, raised, call, vectors, at, stored, errors>>

CallStep(a, b) ==
    \/ Admit(a, b) \/ Connect(a, b) \/ Answer(a, b) \/ CallFails(a, b)
    \/ CallRejected(a, b) \/ WakeUp(a, b)
ChunkStep ==
    \/ GatherRaises \/ NextAttempt \/ GatherDone \/ Insert \/ InsertDone \/ InsertFails

Next ==
    \/ \E a \in Attempts, b \in Batches : CallStep(a, b)
    \/ ChunkStep

Spec == Init /\ [][Next]_vars

(* Calls have timeouts, sleeps end, and the event loop runs what is ready. *)
(* A call may be refused a connection as long as another batch gets it.    *)
FairSpec ==
    /\ Spec
    /\ \A a \in Attempts, b \in Batches : WF_vars(CallStep(a, b))
    /\ WF_vars(ChunkStep)

----------------------------------------------------------------------------
(* Properties *)

CallType ==
    [pc : {"none", "wait", "answered", "gaveUp", "rejected"} \cup Admitted,
     tries : 0..(MaxRetries + 1), reply : Seq(0..NTexts)]

(* Every variable has its type. *)
TypeOK ==
    /\ chunk \in {"embed", "pause", "insert"} \cup Ended
    /\ attempt \in Attempts
    /\ raised \in {"nothing", "retryable", "fatal"}
    /\ call \in [Attempts -> [Batches -> CallType]]
    /\ vectors \in Seq(0..NTexts) /\ stored \in Seq((1..NTexts) \X (0..NTexts))
    /\ at \in 0..NTexts
    /\ errors \in 0..MaxErrors

(* What the service did wrong to a batch of the current attempt. *)
Short(b) == Len(call[attempt][b].reply) < Size(b)
Surplus(b) == Len(call[attempt][b].reply) > Size(b)
Scrambled(b) ==
    \E i \in 1..Least(Len(call[attempt][b].reply), Size(b)) :
        call[attempt][b].reply[i] # Upto(b - 1) + i

(* The one check of the total keeps a row from the vector of another text, *)
(* whatever was left behind and in whatever order the batches came back,   *)
(* except when the service mixes up the vectors of a batch, or makes up in *)
(* one batch for what it leaves out in another.                            *)
OwnVector ==
    \/ \A k \in 1..Len(stored) : stored[k][1] = stored[k][2]
    \/ \E b \in Batches : Scrambled(b)
    \/ \E b, c \in Batches : Short(b) /\ Surplus(c)

(* The retry around process_chunk never stores a row again: an attempt     *)
(* that has stored something is not repeated.                              *)
StoredOnce ==
    \A j, k \in 1..Len(stored) : stored[j][1] = stored[k][1] => j = k

(* A task is INTERRUPTED by the embedding service only after every attempt *)
(* had a batch of its own that failed MaxRetries + 1 times: the batches an *)
(* attempt left behind never end a later one.                              *)
InterruptedMeansExhausted ==
    chunk = "interrupted" =>
        \A a \in Attempts : \E b \in Batches : call[a][b].tries = MaxRetries + 1

(* The chunk comes to an end: no batch waits for ever for the semaphore of *)
(* its attempt or for a connection held by an earlier attempt.             *)
ChunkEnds == <>(chunk \in Ended)
=============================================================================
