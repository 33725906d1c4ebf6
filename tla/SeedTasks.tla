----------------------------- MODULE SeedTasks -----------------------------
(***************************************************************************)
(* The seeding task manager of src/src/seeding/service/task_manager.py, as *)
(* it runs in several API processes (Instances) that share one Redis lock  *)
(* and one seeding_tasks table.                                            *)
(*                                                                         *)
(* A request is one POST /seeding call: the submit() coroutine, which      *)
(* either is refused, fails, or turns into the background coroutine _run() *)
(* of the same TaskState.  Every action runs from one await of a coroutine *)
(* to the next, which is where asyncio lets another coroutine in.          *)
(*                                                                         *)
(* A new task is identified with the request that creates it.  The pages   *)
(* of the source are numbered 1..NPages, the same for every task.          *)
(***************************************************************************)
EXTENDS Naturals, FiniteSets, Sequences

CONSTANTS
    Instances,      \* API processes (pods)
    Requests,       \* POST /seeding calls, each used once
    Ops,            \* operation types: a subset of {"SEED", "RESEED"}
    NPages,         \* pages of the source API
    UseRedis,       \* FALSE: CACHE_REDIS_URL is empty and get_redis() is None
    MaxShutdowns,   \* bound: graceful shutdowns (lifespan exits)
    MaxCrashes,     \* bound: processes killed without a shutdown
    MaxExpiries,    \* bound: lock TTLs that run out under a live task
    MaxFaults,      \* bound: failing database or Redis statements
    None            \* Python's None; an absent Redis key

ASSUME NoneAssumption == None \notin Requests
ASSUME OpsAssumption == Ops \subseteq {"SEED", "RESEED"}
ASSUME PagesAssumption == NPages \in Nat
ASSUME RedisAssumption == UseRedis \in BOOLEAN
ASSUME BoundsAssumption == /\ MaxShutdowns \in Nat /\ MaxCrashes \in Nat
                           /\ MaxExpiries \in Nat /\ MaxFaults \in Nat

VARIABLES
    lock,       \* value of the Redis key "...:seeding:lock": a task or None
    holder,     \* history: the request whose SET wrote that value
    row,        \* the seeding_tasks table
    created,    \* tasks in the order of their created_at
    written,    \* history: pages committed on behalf of each task
    req,        \* the coroutine of each request and its TaskState
    mgr,        \* the SeedTaskManager of each instance
    used        \* how much of each bound is used up

vars == <<lock, holder, row, created, written, req, mgr, used>>

----------------------------------------------------------------------------
(* Where a coroutine is suspended.  submit(): *)
Locking    == {"lockOld", "lockNew"}
Submitting == Locking \cup {"find", "markRunning", "cancelOld", "insert", "undo"}
(* _run() up to its finally clause: it still works on the task *)
Running    == {"prepare", "open", "page", "report", "swap", "finish", "interrupt", "fail"}
Ended      == {"done", "refused", "error", "crashed"}
(* between a successful _acquire_lock and the _release_lock that matches it *)
Owning     == {"markRunning", "insert", "undo", "release"} \cup Running
Live       == Submitting \cup Running \cup {"release"}
Statuses   == {"PENDING", "RUNNING", "COMPLETED", "FAILED", "INTERRUPTED"}
RowStatuses == {"absent", "CANCELLED"} \cup Statuses

Idle == [pc |-> "idle", inst |-> None, op |-> None, force |-> FALSE,
         found |-> None, task |-> None, status |-> "PENDING",
         chunks |-> 0, at |-> 0]
NewProcess == [state |-> None, bg |-> None, shut |-> "up", snap |-> 0]

Init ==
    /\ lock = None /\ holder = None
    /\ row = [t \in Requests |-> [status |-> "absent", op |-> None, chunks |-> 0]]
    /\ created = << >>
    /\ written = [t \in Requests |-> {}]
    /\ req = [r \in Requests |-> Idle]
    /\ mgr = [i \in Instances |-> NewProcess]
    /\ used = [shutdowns |-> 0, crashes |-> 0, expiries |-> 0, faults |-> 0]

(* The coroutine of r goes on to its next await. *)
Goto(r, p) == req' = [req EXCEPT ![r] = [@ EXCEPT !.pc = p]]

(* ... with a new status in its TaskState. *)
Settle(r, p, s) == req' = [req EXCEPT ![r] = [@ EXCEPT !.pc = p, !.status = s]]

(* _update_task: unconditional; chunks_completed only when it is given. *)
UpdateStatus(t, s) == row' = [row EXCEPT ![t] = [@ EXCEPT !.status = s]]
UpdateTask(t, s, c) == row' = [row EXCEPT ![t] = [@ EXCEPT !.status = s, !.chunks = c]]

(* A statement to the database or to Redis raises and changes nothing. *)
Fault == /\ used.faults < MaxFaults
         /\ used' = [used EXCEPT !.faults = @ + 1]

(* The release script: DEL only if the value is the caller's task id. *)
ReleaseLock(t) ==
    IF UseRedis /\ lock = t
    THEN lock' = None /\ holder' = None
    ELSE UNCHANGED <<lock, holder>>

----------------------------------------------------------------------------
(* submit() *)

(* The in-memory check: this process has a RUNNING task (answered 409). *)
Submit(r, i, o, f) ==
    /\ req[r].pc = "idle" /\ mgr[i].shut = "up"
    /\ LET s == mgr[i].state
           busy == s # None /\ req[s].status = "RUNNING"
       IN req' = [req EXCEPT ![r] =
                    [@ EXCEPT !.pc = IF busy THEN "refused" ELSE "find",
                              !.inst = i, !.op = o, !.force = f]]
    /\ UNCHANGED <<lock, holder, row, created, written, mgr, used>>

Interrupted(o) ==
    {k \in 1..Len(created) : /\ row[created[k]].status = "INTERRUPTED"
                             /\ row[created[k]].op = o}

(* _find_interrupted_task, and the choice between resume, force and new. *)
Find(r) ==
    /\ req[r].pc = "find"
    /\ LET ks == Interrupted(req[r].op) IN
       \/ /\ ks = {}
          /\ req' = [req EXCEPT ![r] = [@ EXCEPT !.task = r, !.pc = "lockNew"]]
       \/ \E k \in ks :
             /\ \A j \in ks : j <= k
             /\ LET old == created[k] IN
                IF req[r].force
                THEN req' = [req EXCEPT ![r] = [@ EXCEPT !.task = r, !.found = old,
                                                         !.pc = "cancelOld"]]
                ELSE req' = [req EXCEPT ![r] = [@ EXCEPT !.task = old, !.found = old,
                                                         !.chunks = row[old].chunks,
                                                         !.pc = "lockOld"]]
    /\ UNCHANGED <<lock, holder, row, created, written, mgr, used>>

(* Mutant of Acquire: SET without NX. *)
AcquireAlways(r) ==
    /\ req[r].pc \in Locking
    /\ Goto(r, IF req[r].pc = "lockOld" THEN "markRunning" ELSE "insert")
    /\ IF UseRedis THEN lock' = req[r].task /\ holder' = r ELSE UNCHANGED <<lock, holder>>
    /\ UNCHANGED <<row, created, written, mgr, used>>

(* _acquire_lock: SET NX EX, or no lock at all without Redis. *)
Acquire(r) ==
    /\ req[r].pc \in Locking
    /\ LET won == ~UseRedis \/ lock = None
           next == IF req[r].pc = "lockOld" THEN "markRunning" ELSE "insert"
       IN /\ Goto(r, IF won THEN next ELSE "refused")
          /\ IF won /\ UseRedis
             THEN lock' = req[r].task /\ holder' = r
             ELSE UNCHANGED <<lock, holder>>
    /\ UNCHANGED <<row, created, written, mgr, used>>

(* Mutant of StartRun: the resumed run skips the page after its checkpoint. *)
StartPastCheckpoint(r) ==
    /\ req' = [req EXCEPT ![r] =
                  [@ EXCEPT !.pc = "open", !.status = "RUNNING",
                            !.at = IF req[r].task = r THEN 0 ELSE req[r].chunks + 1]]
    /\ mgr' = [mgr EXCEPT ![req[r].inst] = [@ EXCEPT !.state = r, !.bg = r]]

(* The tail of submit(): the TaskState becomes the manager's current one   *)
(* and _run() is scheduled on it.                                          *)
StartRun(r) ==
    /\ req' = [req EXCEPT ![r] =
                  [@ EXCEPT !.pc = IF req[r].op = "SEED" THEN "open" ELSE "prepare",
                            !.status = "RUNNING", !.at = req[r].chunks]]
    /\ mgr' = [mgr EXCEPT ![req[r].inst] = [@ EXCEPT !.state = r, !.bg = r]]

MarkRunning(r) ==
    /\ req[r].pc = "markRunning"
    /\ UpdateStatus(req[r].task, "RUNNING")
    /\ StartRun(r)
    /\ UNCHANGED <<lock, holder, created, written, used>>

CancelOld(r) ==
    /\ req[r].pc = "cancelOld"
    /\ UpdateStatus(req[r].found, "CANCELLED")
    /\ Goto(r, "lockNew")
    /\ UNCHANGED <<lock, holder, created, written, mgr, used>>

InsertTask(r) ==
    /\ req[r].pc = "insert"
    /\ row' = [row EXCEPT ![r] = [status |-> "RUNNING", op |-> req[r].op, chunks |-> 0]]
    /\ created' = Append(created, r)
    /\ StartRun(r)
    /\ UNCHANGED <<lock, holder, written, used>>

(* Only the INSERT is guarded by an except clause that gives the lock back. *)
SubmitFault(r) ==
    /\ req[r].pc \in Submitting
    /\ req[r].pc \in Locking \cup {"undo"} => UseRedis
    /\ Fault
    /\ Goto(r, IF req[r].pc = "insert" THEN "undo" ELSE "error")
    /\ UNCHANGED <<lock, holder, row, created, written, mgr>>

UndoLock(r) ==
    /\ req[r].pc = "undo"
    /\ ReleaseLock(req[r].task)
    /\ Goto(r, "error")
    /\ UNCHANGED <<row, created, written, mgr, used>>

----------------------------------------------------------------------------
(* _run() *)

(* reseed() keeps the staging table of the interrupted run or, when it has *)
(* too few rows, starts again from page 1; Ingestion.tla has the row counts.  *)
Prepare(r) ==
    /\ req[r].pc = "prepare"
    /\ \E start \in {0, req[r].at} :
          req' = [req EXCEPT ![r] = [@ EXCEPT !.pc = "open", !.at = start]]
    /\ UNCHANGED <<lock, holder, row, created, written, mgr, used>>

(* Mutants of CommitPage: one page too many; chunk_idx never advances. *)
CommitPastEnd(r) ==
    /\ req[r].pc \in {"open", "page"} /\ req[r].at <= NPages
    /\ req' = [req EXCEPT ![r] = [@ EXCEPT !.pc = "report", !.at = req[r].at + 1]]
    /\ UNCHANGED <<lock, holder, row, created, written, mgr, used>>
CommitSamePage(r) ==
    /\ req[r].pc \in {"open", "page"} /\ req[r].at < NPages
    /\ Goto(r, "report")
    /\ UNCHANGED <<lock, holder, row, created, written, mgr, used>>

(* process_chunk commits the next page; on_chunk_done then notes it in the *)
(* TaskState before it awaits the database.                                *)
CommitPage(r) ==
    /\ req[r].pc \in {"open", "page"} /\ req[r].at < NPages
    /\ LET page == req[r].at + 1 IN
       /\ written' = [written EXCEPT ![req[r].task] = @ \cup {page}]
       /\ req' = [req EXCEPT ![r] = [@ EXCEPT !.pc = "report", !.at = page, !.chunks = page]]
    /\ UNCHANGED <<lock, holder, row, created, mgr, used>>

(* A run always asks for the page after its checkpoint.  Past the last one *)
(* it gets an empty page, which counts as a chunk all the same; the model  *)
(* keeps chunks_completed at NPages then, for there is nothing to skip.    *)
EmptyPage(r) ==
    /\ req[r].pc = "open" /\ req[r].at = NPages
    /\ req' = [req EXCEPT ![r] = [@ EXCEPT !.pc = "report", !.chunks = NPages]]
    /\ UNCHANGED <<lock, holder, row, created, written, mgr, used>>

(* Mutant of ReportChunk: the checkpoint names the page to do next. *)
ReportNextPage(r) ==
    /\ req[r].pc = "report"
    /\ UpdateTask(req[r].task, "RUNNING", req[r].chunks + 1)
    /\ Goto(r, "page")
    /\ UNCHANGED <<lock, holder, created, written, mgr, used>>

(* The UPDATE of on_chunk_done, unconditional on the row's status. *)
ReportChunk(r) ==
    /\ req[r].pc = "report"
    /\ UpdateTask(req[r].task, "RUNNING", req[r].chunks)
    /\ Goto(r, "page")
    /\ UNCHANGED <<lock, holder, created, written, mgr, used>>

(* Mutant of LastPage: has_next_page is taken from the page before. *)
LastPageEarly(r) ==
    /\ req[r].pc = "page" /\ req[r].at + 1 >= NPages
    /\ Settle(r, "finish", "COMPLETED")
    /\ UNCHANGED <<lock, holder, row, created, written, mgr, used>>

(* The source has no next page: SEED is done, RESEED has its swap to do. *)
LastPage(r) ==
    /\ req[r].pc = "page" /\ req[r].at = NPages
    /\ IF req[r].op = "SEED" THEN Settle(r, "finish", "COMPLETED") ELSE Goto(r, "swap")
    /\ UNCHANGED <<lock, holder, row, created, written, mgr, used>>

Swap(r) ==
    /\ req[r].pc = "swap"
    /\ Settle(r, "finish", "COMPLETED")
    /\ UNCHANGED <<lock, holder, row, created, written, mgr, used>>

(* Mutant of WorkFails: the exception goes straight to the finally clause. *)
WorkFailsSilently(r) ==
    /\ req[r].pc \in {"open", "page"}
    /\ Goto(r, "release")
    /\ UNCHANGED <<lock, holder, row, created, written, mgr, used>>

(* seed() or reseed() raises.  What is_retryable accepts comes from the    *)
(* fetch of a page or from its embedding calls; an error in the tables is  *)
(* not retryable.  After the last page only a swap can still fail.         *)
WorkFails(r) ==
    /\ \/ /\ req[r].pc = "open" \/ (req[r].pc = "page" /\ req[r].at < NPages)
          /\ \/ Settle(r, "interrupt", "INTERRUPTED")
             \/ Settle(r, "fail", "FAILED")
       \/ /\ req[r].pc \in {"prepare", "swap"}
          /\ Settle(r, "fail", "FAILED")
    /\ UNCHANGED <<lock, holder, row, created, written, mgr, used>>

FinishTask(r) ==
    /\ req[r].pc = "finish"
    /\ UpdateTask(req[r].task, "COMPLETED", req[r].chunks)
    /\ Goto(r, "release")
    /\ UNCHANGED <<lock, holder, created, written, mgr, used>>

(* The except clause: INTERRUPTED keeps the checkpoint current, FAILED     *)
(* leaves the one last reported.                                           *)
RecordFailure(r) ==
    /\ \/ /\ req[r].pc = "interrupt"
          /\ UpdateTask(req[r].task, "INTERRUPTED", req[r].chunks)
       \/ /\ req[r].pc = "fail"
          /\ UpdateStatus(req[r].task, "FAILED")
    /\ Goto(r, "release")
    /\ UNCHANGED <<lock, holder, created, written, mgr, used>>

(* A task-table UPDATE of _run() raises: inside the try block the task     *)
(* fails, inside the except clause only the finally clause is left.        *)
RunFault(r) ==
    /\ Fault
    /\ \/ /\ req[r].pc \in {"report", "finish"}
          /\ Settle(r, "fail", "FAILED")
       \/ /\ req[r].pc \in {"interrupt", "fail"}
          /\ Goto(r, "release")
    /\ UNCHANGED <<lock, holder, row, created, written, mgr>>

(* The finally clause clears whatever _running_async_task is. *)
Release(r) ==
    /\ req[r].pc = "release"
    /\ ReleaseLock(req[r].task)
    /\ Goto(r, "done")
    /\ mgr' = [mgr EXCEPT ![req[r].inst] = [@ EXCEPT !.bg = None]]
    /\ UNCHANGED <<row, created, written, used>>

ReleaseFault(r) ==
    /\ req[r].pc = "release"
    /\ UseRedis /\ Fault
    /\ Goto(r, "done")
    /\ UNCHANGED <<lock, holder, row, created, written, mgr>>

----------------------------------------------------------------------------
(* Graceful shutdown: the server answers the requests in flight, then the  *)
(* lifespan of main.py awaits cancel_running().                            *)

(* task.cancel(): CancelledError reaches the coroutine at its await.  Both *)
(* except clauses of _run() end in finally; there, it skips the rest.      *)
Cancelled(q) ==
    [q EXCEPT !.pc = IF @ \in Running THEN "release"
                     ELSE IF @ = "release" THEN "done" ELSE @]

(* cancel_running() and the lifespan around it go on to their next await. *)
Turn(i, p) == mgr' = [mgr EXCEPT ![i] = [@ EXCEPT !.shut = p]]

Drained(i) == \A r \in Requests : req[r].inst = i => req[r].pc \notin Submitting

(* cancel_running() up to its first await. *)
ShutdownBegin(i) ==
    /\ mgr[i].shut = "up" /\ Drained(i)
    /\ used.shutdowns < MaxShutdowns
    /\ used' = [used EXCEPT !.shutdowns = @ + 1]
    /\ LET s == mgr[i].state IN
       IF s = None \/ mgr[i].bg = None
       THEN /\ Turn(i, "stopped")
            /\ UNCHANGED req
       ELSE /\ mgr' = [mgr EXCEPT ![i] = [@ EXCEPT !.shut = "write", !.snap = req[s].chunks]]
            /\ req' = [req EXCEPT ![s] = [@ EXCEPT !.status = "INTERRUPTED"]]
    /\ UNCHANGED <<lock, holder, row, created, written>>

ShutdownWrite(i) ==
    /\ mgr[i].shut = "write"
    /\ LET t == req[mgr[i].state].task IN
       UpdateTask(t, "INTERRUPTED", mgr[i].snap)
    /\ Turn(i, "unlock")
    /\ UNCHANGED <<lock, holder, created, written, req, used>>

ShutdownUnlock(i) ==
    /\ mgr[i].shut = "unlock"
    /\ ReleaseLock(req[mgr[i].state].task)
    /\ Turn(i, "cancel")
    /\ UNCHANGED <<row, created, written, req, used>>

(* _running_async_task.cancel(); an AttributeError when the run is over. *)
ShutdownCancel(i) ==
    /\ mgr[i].shut = "cancel"
    /\ IF mgr[i].bg = None
       THEN /\ Turn(i, "aborted")
            /\ UNCHANGED req
       ELSE /\ req' = [req EXCEPT ![mgr[i].bg] = Cancelled(@)]
            /\ Turn(i, "join")
    /\ UNCHANGED <<lock, holder, row, created, written, used>>

(* await _running_async_task, which is the run of _state; then clear it. *)
ShutdownJoin(i) ==
    /\ mgr[i].shut = "join"
    /\ req[mgr[i].state].pc \in Ended
    /\ mgr' = [mgr EXCEPT ![i] = [@ EXCEPT !.shut = "stopped", !.bg = None]]
    /\ UNCHANGED <<lock, holder, row, created, written, req, used>>

ShutdownFault(i) ==
    /\ mgr[i].shut = "write" \/ (mgr[i].shut = "unlock" /\ UseRedis)
    /\ Fault
    /\ Turn(i, "aborted")
    /\ UNCHANGED <<lock, holder, row, created, written, req>>

(* The event loop of a process that leaves cancels what still runs in it. *)
CloseLoop(i) ==
    /\ mgr[i].shut \in {"stopped", "aborted"}
    /\ Turn(i, "down")
    /\ req' = [r \in Requests |->
                 IF req[r].inst = i THEN Cancelled(req[r]) ELSE req[r]]
    /\ UNCHANGED <<lock, holder, row, created, written, used>>

----------------------------------------------------------------------------
(* The environment *)

(* The process is killed: its coroutines and its memory are gone. *)
Crash(i) ==
    /\ mgr[i].shut # "down"
    /\ used.crashes < MaxCrashes
    /\ used' = [used EXCEPT !.crashes = @ + 1]
    /\ mgr' = [mgr EXCEPT ![i] = [NewProcess EXCEPT !.shut = "down"]]
    /\ req' = [r \in Requests |->
                 IF req[r].inst = i /\ req[r].pc \in Live
                 THEN [req[r] EXCEPT !.pc = "crashed"] ELSE req[r]]
    /\ UNCHANGED <<lock, holder, row, created, written>>

(* A new process takes the place of one that has ended. *)
Restart(i) ==
    /\ mgr[i].shut = "down"
    /\ \A r \in Requests : req[r].inst = i => req[r].pc \notin Live
    /\ mgr' = [mgr EXCEPT ![i] = NewProcess]
    /\ UNCHANGED <<lock, holder, row, created, written, req, used>>

Owned == \E r \in Requests : holder = r /\ req[r].pc \in Owning

(* Mutant of ExpireLeaked: SET without EX. *)
ExpireNever == FALSE /\ UNCHANGED vars

(* LOCK_TTL runs out on a lock that nobody will release ...                *)
ExpireLeaked ==
    /\ lock # None /\ ~Owned
    /\ lock' = None /\ holder' = None
    /\ UNCHANGED <<row, created, written, req, mgr, used>>

(* ... or under a task that takes longer: nothing renews the lock.         *)
ExpireHeld ==
    /\ lock # None /\ Owned
    /\ used.expiries < MaxExpiries
    /\ used' = [used EXCEPT !.expiries = @ + 1]
    /\ lock' = None /\ holder' = None
    /\ UNCHANGED <<row, created, written, req, mgr>>

----------------------------------------------------------------------------
SubmitStep(r) ==
    \/ Find(r) \/ Acquire(r) \/ MarkRunning(r) \/ CancelOld(r)
    \/ InsertTask(r) \/ SubmitFault(r) \/ UndoLock(r)
RunStep(r) ==
    \/ Prepare(r) \/ CommitPage(r) \/ EmptyPage(r) \/ ReportChunk(r) \/ LastPage(r)
    \/ Swap(r) \/ WorkFails(r) \/ FinishTask(r) \/ RecordFailure(r) \/ RunFault(r)
    \/ Release(r) \/ ReleaseFault(r)
ShutdownStep(i) ==
    \/ ShutdownWrite(i) \/ ShutdownUnlock(i) \/ ShutdownCancel(i)
    \/ ShutdownJoin(i) \/ ShutdownFault(i) \/ CloseLoop(i)

Next ==
    \/ \E r \in Requests :
          \/ \E i \in Instances, o \in Ops, f \in BOOLEAN : Submit(r, i, o, f)
          \/ SubmitStep(r)
          \/ RunStep(r)
    \/ \E i \in Instances :
          ShutdownBegin(i) \/ ShutdownStep(i) \/ Crash(i) \/ Restart(i)
    \/ ExpireLeaked
    \/ ExpireHeld

Spec == Init /\ [][Next]_vars

(* A coroutine at an await is resumed: the calls to the source and to the  *)
(* embedding service have timeouts, and the database and Redis are taken   *)
(* to answer or to raise in the end.  Redis drops a key at its TTL.        *)
(* Nobody has to submit, to shut down, to crash or to restart.             *)
Fairness ==
    /\ \A r \in Requests : WF_vars(SubmitStep(r)) /\ WF_vars(RunStep(r))
    /\ \A i \in Instances : WF_vars(ShutdownStep(i))
    /\ WF_vars(ExpireLeaked)

FairSpec == Spec /\ Fairness

----------------------------------------------------------------------------
(* Properties *)

RequestType ==
    [pc : {"idle"} \cup Live \cup Ended, inst : Instances \cup {None},
     op : Ops \cup {None}, force : BOOLEAN, found : Requests \cup {None},
     task : Requests \cup {None}, status : Statuses,
     chunks : 0..NPages, at : 0..NPages]
ManagerType ==
    [state : Requests \cup {None}, bg : Requests \cup {None}, snap : 0..NPages,
     shut : {"up", "write", "unlock", "cancel", "join", "stopped", "aborted", "down"}]

(* Every variable has its type; a checkpoint is a page number or 0. *)
TypeOK ==
    /\ lock \in Requests \cup {None} /\ holder \in Requests \cup {None}
    /\ row \in [Requests -> [status : RowStatuses, op : Ops \cup {None},
                             chunks : 0..NPages]]
    /\ created \in Seq(Requests)
    /\ written \in [Requests -> SUBSET (1..NPages)]
    /\ req \in [Requests -> RequestType]
    /\ mgr \in [Instances -> ManagerType]
    /\ used \in [shutdowns : Nat, crashes : Nat, expiries : Nat, faults : Nat]

(* The Redis lock keeps two runs from working at once, in one process or   *)
(* in two, across crashes, restarts and failing statements, as long as no  *)
(* process has been shut down gracefully and no lock has expired under its *)
(* owner (_acquire_lock and _release_lock around _run).                    *)
AtMostOneRun ==
    UseRedis /\ used.shutdowns = 0 /\ used.expiries = 0 =>
        \A r, s \in Requests :
            req[r].pc \in Running /\ req[s].pc \in Running => r = s

(* A resumed run skips pages 1..chunks_completed ("already committed" in   *)
(* seed()): whatever run, shutdown or overlap wrote the checkpoint last,   *)
(* those pages have been committed on behalf of the task.                  *)
CheckpointSound ==
    \A t \in Requests : 1..row[t].chunks \subseteq written[t]

(* A row says COMPLETED only when every page of the source was committed   *)
(* by the runs of the task taken together, the interrupted ones included.  *)
CompletedMeansAll ==
    \A t \in Requests : row[t].status = "COMPLETED" => written[t] = 1..NPages

(* A row says RUNNING only while a run works on the task: nothing else     *)
(* would ever move it on, for only INTERRUPTED rows are resumed.  This     *)
(* needs all processes and statements to survive, but no lock: runs that   *)
(* overlap leave each other's rows right in the end.                       *)
RunningRowHasRun ==
    used.shutdowns = 0 /\ used.crashes = 0 /\ used.faults = 0
    => \A t \in Requests : row[t].status = "RUNNING" =>
          \E r \in Requests : req[r].task = t /\ req[r].pc \in Running

(* submit() answers and _run() comes to its end, also next to a shutdown.  *)
EveryRequestEnds ==
    \A r \in Requests : req[r].pc \in Live ~> req[r].pc \in Ended

(* The lock is never stuck: its owner releases it or its TTL runs out.     *)
LockFreed == lock # None ~> lock = None

(* cancel_running() "marks task as INTERRUPTED so it can be resumed": when *)
(* the process has gone, no row it was working on is left RUNNING without  *)
(* a run.                                                                  *)
ShutdownLeavesResumable ==
    \A i \in Instances, r \in Requests :
        mgr[i].shut = "down" /\ req[r].inst = i /\ req[r].pc = "done" =>
            \/ row[req[r].task].status # "RUNNING"
            \/ \E s \in Requests : req[s].task = req[r].task /\ req[s].pc \in Live

(* "atomic owner-check + release": a lock whose owner is alive, in a       *)
(* process nobody shuts down, goes only in a step of the owner itself or   *)
(* when its TTL runs out.                                                  *)
OnlyOwnerReleases ==
    [][\A r \in Requests :
          /\ holder = r /\ req[r].pc \in Owning /\ mgr[req[r].inst].shut = "up"
          /\ holder' # r
          => req'[r].pc # req[r].pc \/ used'.expiries # used.expiries]_vars

(* Whatever is shut down, killed, overlapped or unlocked, the task manager *)
(* keeps the promise of Checkpoints: pages in order, checkpoint behind the *)
(* pages, COMPLETED only when all are there.                               *)
Checkpointed ==
    INSTANCE Checkpoints WITH
        Tasks <- Requests,
        committed <- written,
        checkpoint <- [t \in Requests |-> row[t].chunks],
        complete <- [t \in Requests |-> row[t].status = "COMPLETED"]
KeepsCheckpoints == Checkpointed!Spec
=============================================================================
