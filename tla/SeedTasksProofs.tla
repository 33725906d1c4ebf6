-------------------------- MODULE SeedTasksProofs --------------------------
(***************************************************************************)
(* Theorems about SeedTasks: the types, the checkpoint promise, that the   *)
(* task manager implements Checkpoints, what the Redis lock gives, and     *)
(* what the table says about the runs, for any number of requests,         *)
(* instances and pages and any bounds on shutdowns, crashes, expiries and  *)
(* faults.  The last two hold until a shutdown, an expiry or a fault, so   *)
(* their invariants are conditional on the counters of used.               *)
(***************************************************************************)
EXTENDS SeedTasks, TLAPS

----------------------------------------------------------------------------
(* Record updates keep their types *)

PCs == {"idle"} \cup Live \cup Ended
RowType == [status : RowStatuses, op : Ops \cup {None}, chunks : 0..NPages]

LEMMA ReqUpdate ==
    ASSUME req \in [Requests -> RequestType], NEW r \in Requests,
           NEW q \in RequestType, req' = [req EXCEPT ![r] = q]
    PROVE  /\ req' \in [Requests -> RequestType]
           /\ req'[r] = q
           /\ \A s \in Requests : s # r => req'[s] = req[s]
OBVIOUS

LEMMA GotoReq ==
    ASSUME req \in [Requests -> RequestType], NEW r \in Requests,
           NEW p \in PCs, Goto(r, p)
    PROVE  /\ req' \in [Requests -> RequestType]
           /\ req'[r] = [req[r] EXCEPT !.pc = p]
           /\ \A s \in Requests : s # r => req'[s] = req[s]
<1>1. req[r] \in RequestType
  OBVIOUS
<1>2. [req[r] EXCEPT !.pc = p] \in RequestType
  BY <1>1 DEF RequestType, PCs
<1>3. QED
  BY <1>2, ReqUpdate DEF Goto

LEMMA SettleReq ==
    ASSUME req \in [Requests -> RequestType], NEW r \in Requests,
           NEW p \in PCs, NEW s \in Statuses, Settle(r, p, s)
    PROVE  /\ req' \in [Requests -> RequestType]
           /\ req'[r] = [req[r] EXCEPT !.pc = p, !.status = s]
           /\ \A q \in Requests : q # r => req'[q] = req[q]
<1>1. req[r] \in RequestType
  OBVIOUS
<1>2. [req[r] EXCEPT !.pc = p, !.status = s] \in RequestType
  BY <1>1 DEF RequestType, PCs
<1>3. QED
  BY <1>2, ReqUpdate DEF Settle

LEMMA StatusRow ==
    ASSUME row \in [Requests -> RowType], NEW t \in Requests,
           NEW s \in RowStatuses, UpdateStatus(t, s)
    PROVE  /\ row' \in [Requests -> RowType]
           /\ row'[t].status = s /\ row'[t].chunks = row[t].chunks
           /\ \A u \in Requests : u # t => row'[u] = row[u]
BY DEF UpdateStatus, RowType

LEMMA TaskRow ==
    ASSUME row \in [Requests -> RowType], NEW t \in Requests,
           NEW s \in RowStatuses, NEW c \in 0..NPages, UpdateTask(t, s, c)
    PROVE  /\ row' \in [Requests -> RowType]
           /\ row'[t].status = s /\ row'[t].chunks = c
           /\ \A u \in Requests : u # t => row'[u] = row[u]
BY DEF UpdateTask, RowType

LEMMA ReleaseLockType ==
    ASSUME lock \in Requests \cup {None}, holder \in Requests \cup {None},
           NEW t, ReleaseLock(t)
    PROVE  lock' \in Requests \cup {None} /\ holder' \in Requests \cup {None}
BY DEF ReleaseLock

LEMMA CancelledReq ==
    ASSUME NEW q \in RequestType
    PROVE  /\ Cancelled(q) \in RequestType
           /\ Cancelled(q) = [q EXCEPT !.pc = Cancelled(q).pc]
           /\ q.pc \in Running => Cancelled(q).pc = "release"
           /\ q.pc = "release" => Cancelled(q).pc = "done"
           /\ q.pc \notin Running \cup {"release"} => Cancelled(q) = q
<1>1. PICK p \in PCs : /\ Cancelled(q) = [q EXCEPT !.pc = p]
                       /\ q.pc \in Running => p = "release"
                       /\ q.pc = "release" => p = "done"
                       /\ q.pc \notin Running \cup {"release"} => p = q.pc
  BY DEF Cancelled, PCs, RequestType, Live, Running, Ended
<1>2. QED
  BY <1>1 DEF RequestType, PCs

----------------------------------------------------------------------------
(* What a coroutine has computed by the time it waits at an await: a       *)
(* request in flight knows its process, one that locks or works knows its  *)
(* task, and the manager's current run is past submit().                   *)

Placed(r) ==
    /\ req[r].pc # "idle" => req[r].inst \in Instances /\ req[r].op \in Ops
    /\ req[r].pc \notin {"idle", "find"} \cup Ended => req[r].task \in Requests
    /\ req[r].pc \in {"lockNew", "cancelOld", "insert"} => req[r].task = r
    /\ req[r].pc = "cancelOld" => req[r].found \in Requests

Current(i) ==
    /\ mgr[i].bg # None => mgr[i].state = mgr[i].bg
    /\ mgr[i].shut \in {"write", "unlock", "cancel", "join"} => mgr[i].state # None
    /\ mgr[i].state # None =>
          /\ req[mgr[i].state].task \in Requests
          /\ req[mgr[i].state].pc \in Running \cup {"release"} \cup Ended

TypeInv ==
    /\ TypeOK
    /\ \A r \in Requests : Placed(r)
    /\ \A i \in Instances : Current(i)

(* A step of submit() short of StartRun touches no manager and no current  *)
(* run, so only its own request has to be looked at.                       *)
LEMMA SubmitKeeps ==
    ASSUME TypeInv, NEW r \in Requests, req[r].pc \in {"idle"} \cup Submitting,
           \A s \in Requests : s # r => req'[s] = req[s],
           Placed(r)', UNCHANGED mgr
    PROVE  (\A s \in Requests : Placed(s))' /\ (\A i \in Instances : Current(i))'
<1>1. \A s \in Requests : Placed(s)'
  BY DEF TypeInv, Placed
<1>2. ASSUME NEW i \in Instances PROVE Current(i)'
  <2>1. mgr[i].state # r
    BY NoneAssumption DEF TypeInv, Current, Running, Ended, Submitting, Locking
  <2>2. mgr[i].state \in Requests \cup {None}
    BY DEF TypeInv, TypeOK, ManagerType
  <2>3. QED
    BY <2>1, <2>2 DEF TypeInv, Current
<1>3. QED
  BY <1>1, <1>2

(* A step of _run() keeps its request's process and task. *)
LEMMA RunKeeps ==
    ASSUME TypeInv, NEW r \in Requests, req[r].pc \in Running \cup {"release"},
           \A s \in Requests : s # r => req'[s] = req[s],
           req'[r].pc \in Running \cup {"release", "done"},
           req'[r].inst = req[r].inst, req'[r].op = req[r].op,
           req'[r].task = req[r].task,
           \A i \in Instances :
               \/ mgr'[i] = mgr[i]
               \/ mgr'[i] = [mgr[i] EXCEPT !.bg = None]
    PROVE  (\A s \in Requests : Placed(s))' /\ (\A i \in Instances : Current(i))'
<1>1. ASSUME NEW s \in Requests PROVE Placed(s)'
  <2>1. CASE s = r
    BY <2>1 DEF TypeInv, Placed, Running, Ended
  <2>2. CASE s # r
    BY <2>2 DEF TypeInv, Placed
  <2>3. QED
    BY <2>1, <2>2
<1>2. ASSUME NEW i \in Instances PROVE Current(i)'
  <2>1. /\ mgr'[i].state = mgr[i].state /\ mgr'[i].shut = mgr[i].shut
        /\ mgr'[i].bg \in {None, mgr[i].bg}
    <3>1. mgr[i] \in ManagerType
      BY DEF TypeInv, TypeOK
    <3>2. QED
      BY <3>1 DEF ManagerType
  <2>2. mgr[i].state \in Requests \cup {None}
    BY DEF TypeInv, TypeOK, ManagerType
  <2>3. req[r].task \in Requests
    BY DEF TypeInv, Placed, Running, Ended
  <2>4. ASSUME mgr[i].state # None
        PROVE  /\ req'[mgr[i].state].task \in Requests
               /\ req'[mgr[i].state].pc \in Running \cup {"release"} \cup Ended
    <3>1. CASE mgr[i].state = r
      BY <2>3, <3>1 DEF Ended
    <3>2. CASE mgr[i].state # r
      BY <2>2, <2>4, <3>2 DEF TypeInv, Current
    <3>3. QED
      BY <3>1, <3>2
  <2>5. QED
    BY <2>1, <2>4 DEF TypeInv, Current
<1>3. QED
  BY <1>1, <1>2

----------------------------------------------------------------------------
(* TypeInv is inductive: one lemma per action. *)

LEMMA TypeInit == Init => TypeInv
<1>1. SUFFICES ASSUME Init PROVE TypeInv
  OBVIOUS
<1>2. Idle \in RequestType
  BY PagesAssumption DEF Idle, RequestType, Statuses
<1>3. NewProcess \in ManagerType
  BY PagesAssumption DEF NewProcess, ManagerType
<1>4. [status |-> "absent", op |-> None, chunks |-> 0] \in RowType
  BY PagesAssumption DEF RowType, RowStatuses
<1>5. TypeOK
  BY <1>1, <1>2, <1>3, <1>4 DEF Init, TypeOK, RowType
<1>6. (\A r \in Requests : Placed(r)) /\ (\A i \in Instances : Current(i))
  BY <1>1 DEF Init, Placed, Current, Idle, NewProcess
<1>7. QED
  BY <1>5, <1>6 DEF TypeInv

LEMMA TypeSubmit ==
    ASSUME TypeInv, NEW r \in Requests, NEW i \in Instances, NEW o \in Ops,
           NEW f \in BOOLEAN, Submit(r, i, o, f)
    PROVE  TypeInv'
<1>1. PICK p \in {"refused", "find"} :
         req' = [req EXCEPT ![r] = [req[r] EXCEPT !.pc = p, !.inst = i, !.op = o, !.force = f]]
  BY DEF Submit
<1>2. [req[r] EXCEPT !.pc = p, !.inst = i, !.op = o, !.force = f] \in RequestType
  <2>1. req[r] \in RequestType /\ p \in PCs
    BY DEF TypeInv, TypeOK, PCs, Live, Submitting, Ended
  <2>2. QED
    BY <2>1 DEF RequestType, PCs
<1>3. /\ req' \in [Requests -> RequestType]
      /\ req'[r] = [req[r] EXCEPT !.pc = p, !.inst = i, !.op = o, !.force = f]
      /\ \A s \in Requests : s # r => req'[s] = req[s]
  BY <1>1, <1>2, ReqUpdate DEF TypeInv, TypeOK
<1>4. Placed(r)'
  BY <1>3 DEF TypeInv, TypeOK, RequestType, Placed, Ended
<1>5. UNCHANGED <<lock, holder, row, created, written, mgr, used>>
  BY DEF Submit
<1>6. TypeOK'
  BY <1>3, <1>5 DEF TypeInv, TypeOK
<1>7. QED
  BY <1>3, <1>4, <1>5, <1>6, SubmitKeeps DEF Submit, TypeInv

(* What Find leaves in r: its own new task, or the task of a row with the  *)
(* checkpoint of that row.                                                 *)
FindResult(r, q) ==
    /\ q \in RequestType /\ q.inst = req[r].inst /\ q.op = req[r].op
    /\ q.pc \in {"lockNew", "cancelOld", "lockOld"} /\ q.task \in Requests
    /\ q.pc \in {"lockNew", "cancelOld"} => q.task = r
    /\ q.pc = "cancelOld" => q.found \in Requests
    /\ q.chunks \in {req[r].chunks, row[q.task].chunks}

LEMMA FindReq ==
    ASSUME TypeInv, NEW r \in Requests, Find(r)
    PROVE  \E q \in RequestType : FindResult(r, q) /\ req' = [req EXCEPT ![r] = q]
<1>1. req[r] \in RequestType /\ {"lockNew", "cancelOld", "lockOld"} \subseteq PCs
  BY DEF TypeInv, TypeOK, PCs, Live, Submitting, Locking
<1>2. CASE req' = [req EXCEPT ![r] = [@ EXCEPT !.task = r, !.pc = "lockNew"]]
  <2>1. FindResult(r, [req[r] EXCEPT !.task = r, !.pc = "lockNew"])
    BY <1>1 DEF FindResult, RequestType, PCs
  <2>2. QED
    BY <1>2, <2>1 DEF FindResult
<1>3. ASSUME NEW k \in Interrupted(req[r].op),
             req' = [req EXCEPT ![r] = [@ EXCEPT !.task = r, !.found = created[k],
                                                 !.pc = "cancelOld"]]
      PROVE \E q \in RequestType : FindResult(r, q) /\ req' = [req EXCEPT ![r] = q]
  <2>1. created[k] \in Requests
    BY DEF TypeInv, TypeOK, Interrupted
  <2>2. FindResult(r, [req[r] EXCEPT !.task = r, !.found = created[k], !.pc = "cancelOld"])
    BY <2>1, <1>1 DEF FindResult, RequestType, PCs
  <2>3. QED
    BY <1>3, <2>2 DEF FindResult
<1>4. ASSUME NEW k \in Interrupted(req[r].op),
             req' = [req EXCEPT ![r] = [@ EXCEPT !.task = created[k], !.found = created[k],
                                                 !.chunks = row[created[k]].chunks,
                                                 !.pc = "lockOld"]]
      PROVE \E q \in RequestType : FindResult(r, q) /\ req' = [req EXCEPT ![r] = q]
  <2>1. created[k] \in Requests
    BY DEF TypeInv, TypeOK, Interrupted
  <2>2. row[created[k]].chunks \in 0..NPages
    BY <2>1 DEF TypeInv, TypeOK
  <2>3. FindResult(r, [req[r] EXCEPT !.task = created[k], !.found = created[k],
                               !.chunks = row[created[k]].chunks, !.pc = "lockOld"])
    BY <2>1, <2>2, <1>1 DEF FindResult, RequestType, PCs
  <2>4. QED
    BY <1>4, <2>3 DEF FindResult
<1>5. QED
  BY <1>2, <1>3, <1>4 DEF Find

LEMMA TypeFind ==
    ASSUME TypeInv, NEW r \in Requests, Find(r)
    PROVE  TypeInv'
<1>1. PICK q \in RequestType : FindResult(r, q) /\ req' = [req EXCEPT ![r] = q]
  BY FindReq
<1>2. /\ req' \in [Requests -> RequestType] /\ req'[r] = q
      /\ \A s \in Requests : s # r => req'[s] = req[s]
  BY <1>1, ReqUpdate DEF TypeInv, TypeOK
<1>3. UNCHANGED <<lock, holder, row, created, written, mgr, used>>
  BY DEF Find
<1>4. TypeOK'
  BY <1>2, <1>3 DEF TypeInv, TypeOK
<1>5. Placed(r)'
  BY <1>1, <1>2 DEF FindResult, Find, TypeInv, Placed
<1>6. QED
  BY <1>2, <1>3, <1>4, <1>5, SubmitKeeps DEF Find, TypeInv, Submitting

LEMMA TypeAcquire ==
    ASSUME TypeInv, NEW r \in Requests, Acquire(r)
    PROVE  TypeInv'
<1>1. PICK p \in {"markRunning", "insert", "refused"} :
        /\ Goto(r, p)
        /\ p = "insert" => req[r].pc = "lockNew"
  BY DEF Acquire, Locking
<1>2. /\ req' \in [Requests -> RequestType] /\ req'[r] = [req[r] EXCEPT !.pc = p]
      /\ \A s \in Requests : s # r => req'[s] = req[s]
  BY <1>1, GotoReq DEF PCs, Live, Submitting, Ended, TypeInv, TypeOK
<1>3. lock' \in Requests \cup {None} /\ holder' \in Requests \cup {None}
  BY DEF Acquire, TypeInv, TypeOK, Placed, Locking, Ended
<1>4. UNCHANGED <<row, created, written, mgr, used>>
  BY DEF Acquire
<1>5. TypeOK'
  BY <1>2, <1>3, <1>4 DEF TypeInv, TypeOK
<1>6. Placed(r)'
  <2>1. req[r] \in RequestType
    BY DEF TypeInv, TypeOK
  <2>2. /\ req'[r].pc = p /\ req'[r].inst = req[r].inst /\ req'[r].op = req[r].op
        /\ req'[r].task = req[r].task
    BY <1>2, <2>1 DEF RequestType
  <2>3. QED
    BY <1>1, <2>2 DEF Acquire, TypeInv, Placed, Locking, Ended
<1>7. QED
  BY <1>2, <1>4, <1>5, <1>6, SubmitKeeps DEF Acquire, TypeInv, Submitting

(* The manager's current run becomes r; no other manager knew r. *)
LEMMA StartRunType ==
    ASSUME TypeInv, NEW r \in Requests, req[r].pc \in {"markRunning", "insert"},
           StartRun(r)
    PROVE  /\ req' \in [Requests -> RequestType]
           /\ mgr' \in [Instances -> ManagerType]
           /\ (\A s \in Requests : Placed(s))'
           /\ (\A i \in Instances : Current(i))'
<1> DEFINE home == req[r].inst
           m == [mgr[home] EXCEPT !.state = r, !.bg = r]
<1>1. req[r] \in RequestType /\ home \in Instances /\ req[r].task \in Requests
  BY DEF TypeInv, TypeOK, Placed, Ended
<1>2. PICK p \in {"open", "prepare"} :
        req' = [req EXCEPT ![r] =
                  [req[r] EXCEPT !.pc = p, !.status = "RUNNING", !.at = req[r].chunks]]
  BY DEF StartRun
<1>3. [req[r] EXCEPT !.pc = p, !.status = "RUNNING", !.at = req[r].chunks] \in RequestType
  <2>1. p \in PCs /\ "RUNNING" \in Statuses
    BY DEF PCs, Live, Running, Statuses
  <2>2. QED
    BY <1>1, <2>1 DEF RequestType, PCs
<1>4. /\ req' \in [Requests -> RequestType]
      /\ \A s \in Requests : s # r => req'[s] = req[s]
      /\ req'[r].pc = p /\ req'[r].inst = req[r].inst /\ req'[r].op = req[r].op
      /\ req'[r].task = req[r].task
  BY <1>1, <1>2, <1>3, ReqUpdate DEF RequestType, TypeInv, TypeOK
<1>5. mgr[home] \in ManagerType /\ m \in ManagerType
      /\ m.state = r /\ m.bg = r
  <2>1. mgr[home] \in ManagerType
    BY <1>1 DEF TypeInv, TypeOK
  <2>2. QED
    BY <2>1 DEF ManagerType
<1>6. mgr' = [mgr EXCEPT ![home] = m]
  BY DEF StartRun
<1>7. /\ mgr' \in [Instances -> ManagerType] /\ mgr'[home] = m
      /\ \A i \in Instances : i # home => mgr'[i] = mgr[i]
  <2> HIDE DEF m, home
  <2>1. QED
    BY <1>1, <1>5, <1>6 DEF TypeInv, TypeOK
<1>8. ASSUME NEW s \in Requests PROVE Placed(s)'
  <2>1. CASE s = r
    BY <2>1, <1>1, <1>4 DEF TypeInv, Placed
  <2>2. CASE s # r
    BY <2>2, <1>4 DEF TypeInv, Placed
  <2>3. QED
    BY <2>1, <2>2
<1>9. ASSUME NEW i \in Instances PROVE Current(i)'
  <2>1. CASE i = home
    BY <2>1, <1>1, <1>4, <1>5, <1>7, NoneAssumption DEF Current, Running
  <2>2. CASE i # home
    <3>1. mgr'[i] = mgr[i] /\ mgr[i].state \in Requests \cup {None}
      BY <2>2, <1>7 DEF TypeInv, TypeOK, ManagerType
    <3>2. mgr[i].state # r
      BY NoneAssumption DEF TypeInv, Current, Running, Ended
    <3>3. QED
      BY <3>1, <3>2, <1>4 DEF TypeInv, Current
  <2>3. QED
    BY <2>1, <2>2
<1>10. QED
  BY <1>4, <1>7, <1>8, <1>9

LEMMA TypeMarkRunning ==
    ASSUME TypeInv, NEW r \in Requests, MarkRunning(r)
    PROVE  TypeInv'
<1>1. req[r].task \in Requests
  BY DEF MarkRunning, TypeInv, Placed, Ended
<1>2. row' \in [Requests -> RowType]
  BY <1>1, StatusRow DEF MarkRunning, TypeInv, TypeOK, RowType, RowStatuses, Statuses
<1>3. QED
  BY <1>2, StartRunType DEF MarkRunning, TypeInv, TypeOK, RowType

LEMMA TypeInsertTask ==
    ASSUME TypeInv, NEW r \in Requests, InsertTask(r)
    PROVE  TypeInv'
<1>1. [status |-> "RUNNING", op |-> req[r].op, chunks |-> 0] \in RowType
  BY PagesAssumption DEF InsertTask, TypeInv, Placed, RowType, RowStatuses, Statuses
<1>2. row' \in [Requests -> RowType] /\ created' \in Seq(Requests)
  BY <1>1 DEF InsertTask, TypeInv, TypeOK, RowType
<1>3. QED
  BY <1>2, StartRunType DEF InsertTask, TypeInv, TypeOK, RowType

LEMMA TypeCancelOld ==
    ASSUME TypeInv, NEW r \in Requests, CancelOld(r)
    PROVE  TypeInv'
<1>1. /\ req[r] \in RequestType /\ req[r].found \in Requests
      /\ "CANCELLED" \in RowStatuses /\ "lockNew" \in PCs
  BY DEF CancelOld, TypeInv, TypeOK, Placed, RowStatuses, PCs, Live, Submitting, Locking
<1>2. row' \in [Requests -> RowType]
  BY <1>1, StatusRow DEF CancelOld, TypeInv, TypeOK, RowType
<1>3. /\ req' \in [Requests -> RequestType] /\ req'[r] = [req[r] EXCEPT !.pc = "lockNew"]
      /\ \A s \in Requests : s # r => req'[s] = req[s]
  BY <1>1, GotoReq DEF CancelOld, TypeInv, TypeOK
<1>4. Placed(r)'
  <2>1. /\ req'[r].pc = "lockNew" /\ req'[r].inst = req[r].inst
        /\ req'[r].op = req[r].op /\ req'[r].task = req[r].task
    BY <1>1, <1>3 DEF RequestType
  <2>2. QED
    BY <2>1 DEF CancelOld, TypeInv, Placed, Ended
<1>5. QED
  BY <1>2, <1>3, <1>4, SubmitKeeps DEF CancelOld, TypeInv, TypeOK, RowType, Submitting

LEMMA TypeFault ==
    ASSUME TypeInv, Fault
    PROVE  used' \in [shutdowns : Nat, crashes : Nat, expiries : Nat, faults : Nat]
<1>1. used \in [shutdowns : Nat, crashes : Nat, expiries : Nat, faults : Nat]
  BY DEF TypeInv, TypeOK
<1>2. QED
  BY <1>1 DEF Fault

LEMMA TypeSubmitFault ==
    ASSUME TypeInv, NEW r \in Requests, SubmitFault(r)
    PROVE  TypeInv'
<1>1. PICK p \in {"undo", "error"} :
        Goto(r, p) /\ (p = "undo" => req[r].pc = "insert")
  BY DEF SubmitFault
<1>2. req[r] \in RequestType /\ p \in PCs
  BY DEF TypeInv, TypeOK, PCs, Live, Submitting, Ended
<1>3. /\ req' \in [Requests -> RequestType] /\ req'[r] = [req[r] EXCEPT !.pc = p]
      /\ \A s \in Requests : s # r => req'[s] = req[s]
  BY <1>1, <1>2, GotoReq DEF TypeInv, TypeOK
<1>4. Placed(r)'
  <2>1. /\ req'[r].pc = p /\ req'[r].inst = req[r].inst
        /\ req'[r].op = req[r].op /\ req'[r].task = req[r].task
    BY <1>2, <1>3 DEF RequestType
  <2>2. QED
    BY <1>1, <2>1 DEF SubmitFault, TypeInv, Placed, Ended, Submitting, Locking
<1>5. UNCHANGED <<lock, holder, row, created, written, mgr>>
  BY DEF SubmitFault
<1>6. TypeOK'
  BY <1>3, <1>5, TypeFault DEF SubmitFault, TypeInv, TypeOK
<1>7. QED
  BY <1>3, <1>4, <1>5, <1>6, SubmitKeeps DEF SubmitFault, TypeInv

LEMMA TypeUndoLock ==
    ASSUME TypeInv, NEW r \in Requests, UndoLock(r)
    PROVE  TypeInv'
<1>1. req[r] \in RequestType /\ "error" \in PCs
  BY DEF TypeInv, TypeOK, PCs, Ended
<1>2. /\ req' \in [Requests -> RequestType] /\ req'[r] = [req[r] EXCEPT !.pc = "error"]
      /\ \A s \in Requests : s # r => req'[s] = req[s]
  BY <1>1, GotoReq DEF UndoLock, TypeInv, TypeOK
<1>3. Placed(r)'
  <2>1. req'[r].pc = "error" /\ req'[r].inst = req[r].inst /\ req'[r].op = req[r].op
    BY <1>1, <1>2 DEF RequestType
  <2>2. QED
    BY <2>1 DEF UndoLock, TypeInv, Placed, Ended
<1>4. UNCHANGED <<row, created, written, mgr, used>>
  BY DEF UndoLock
<1>5. TypeOK'
  BY <1>2, <1>4, ReleaseLockType DEF UndoLock, TypeInv, TypeOK
<1>6. QED
  BY <1>2, <1>3, <1>4, <1>5, SubmitKeeps DEF UndoLock, TypeInv, Submitting

(* A step of _run() that leaves the manager alone. *)
LEMMA TypeRun ==
    ASSUME TypeInv, NEW r \in Requests, req[r].pc \in Running \cup {"release"},
           NEW q \in RequestType, req' = [req EXCEPT ![r] = q],
           q.pc \in Running \cup {"release", "done"},
           q.inst = req[r].inst, q.op = req[r].op, q.task = req[r].task,
           row' \in [Requests -> RowType],
           written' \in [Requests -> SUBSET (1..NPages)],
           lock' \in Requests \cup {None}, holder' \in Requests \cup {None},
           used' \in [shutdowns : Nat, crashes : Nat, expiries : Nat, faults : Nat],
           UNCHANGED created,
           \/ UNCHANGED mgr
           \/ mgr' = [mgr EXCEPT ![req[r].inst] = [@ EXCEPT !.bg = None]]
    PROVE  TypeInv'
<1>1. /\ req' \in [Requests -> RequestType] /\ req'[r] = q
      /\ \A s \in Requests : s # r => req'[s] = req[s]
  BY ReqUpdate DEF TypeInv, TypeOK
<1>2. /\ mgr' \in [Instances -> ManagerType]
      /\ \A i \in Instances : mgr'[i] = mgr[i] \/ mgr'[i] = [mgr[i] EXCEPT !.bg = None]
  <2>1. CASE UNCHANGED mgr
    BY <2>1 DEF TypeInv, TypeOK
  <2>2. CASE mgr' = [mgr EXCEPT ![req[r].inst] = [@ EXCEPT !.bg = None]]
    <3> DEFINE home == req[r].inst
               m == [mgr[home] EXCEPT !.bg = None]
    <3>1. home \in Instances
      BY DEF TypeInv, Placed, Running
    <3>2. mgr[home] \in ManagerType
      BY <3>1 DEF TypeInv, TypeOK
    <3>3. m \in ManagerType
      BY <3>2 DEF ManagerType
    <3>4. mgr' = [mgr EXCEPT ![home] = m]
      BY <2>2
    <3>5. \A i \in Instances : mgr'[i] = IF i = home THEN m ELSE mgr[i]
      <4> HIDE DEF m, home
      <4>1. QED
        BY <3>4 DEF TypeInv, TypeOK
    <3>6. mgr' \in [Instances -> ManagerType]
      <4> HIDE DEF m, home
      <4>1. QED
        BY <3>3, <3>4 DEF TypeInv, TypeOK
    <3>7. QED
      BY <3>5, <3>6
  <2>3. QED
    BY <2>1, <2>2
<1>3. TypeOK'
  BY <1>1, <1>2 DEF TypeInv, TypeOK, RowType
<1>4. (\A s \in Requests : Placed(s))' /\ (\A i \in Instances : Current(i))'
  BY <1>1, <1>2, RunKeeps
<1>5. QED
  BY <1>3, <1>4 DEF TypeInv

(* The same for a step that only goes to another await. *)
LEMMA TypeRunGoto ==
    ASSUME TypeInv, NEW r \in Requests, req[r].pc \in Running \cup {"release"},
           NEW p \in Running \cup {"release", "done"}, Goto(r, p),
           row' \in [Requests -> RowType],
           lock' \in Requests \cup {None}, holder' \in Requests \cup {None},
           used' \in [shutdowns : Nat, crashes : Nat, expiries : Nat, faults : Nat],
           UNCHANGED <<written, created>>,
           \/ UNCHANGED mgr
           \/ mgr' = [mgr EXCEPT ![req[r].inst] = [@ EXCEPT !.bg = None]]
    PROVE  TypeInv'
<1> DEFINE q == [req[r] EXCEPT !.pc = p]
<1>1. req[r] \in RequestType /\ p \in PCs
  BY DEF TypeInv, TypeOK, PCs, Live, Ended
<1>2. /\ q \in RequestType /\ q.pc = p
      /\ q.inst = req[r].inst /\ q.op = req[r].op /\ q.task = req[r].task
  BY <1>1 DEF RequestType, PCs
<1>3. req' = [req EXCEPT ![r] = q]
  BY DEF Goto
<1>4. written' \in [Requests -> SUBSET (1..NPages)]
  BY DEF TypeInv, TypeOK
<1> HIDE DEF q
<1>5. QED
  BY <1>2, <1>3, <1>4, TypeRun

LEMMA TypeRunSettle ==
    ASSUME TypeInv, NEW r \in Requests, req[r].pc \in Running,
           NEW p \in Running, NEW s \in Statuses, Settle(r, p, s),
           used' \in [shutdowns : Nat, crashes : Nat, expiries : Nat, faults : Nat],
           UNCHANGED <<lock, holder, row, written, created, mgr>>
    PROVE  TypeInv'
<1> DEFINE q == [req[r] EXCEPT !.pc = p, !.status = s]
<1>1. req[r] \in RequestType /\ p \in PCs
  BY DEF TypeInv, TypeOK, PCs, Live
<1>2. /\ q \in RequestType /\ q.pc = p
      /\ q.inst = req[r].inst /\ q.op = req[r].op /\ q.task = req[r].task
  BY <1>1 DEF RequestType, PCs
<1>3. req' = [req EXCEPT ![r] = q]
  BY DEF Settle
<1>4. /\ written' \in [Requests -> SUBSET (1..NPages)] /\ row' \in [Requests -> RowType]
      /\ lock' \in Requests \cup {None} /\ holder' \in Requests \cup {None}
  BY DEF TypeInv, TypeOK, RowType
<1> HIDE DEF q
<1>5. QED
  BY <1>2, <1>3, <1>4, TypeRun

LEMMA Unchanged ==
    ASSUME TypeInv
    PROVE  /\ UNCHANGED row => row' \in [Requests -> RowType]
           /\ UNCHANGED written => written' \in [Requests -> SUBSET (1..NPages)]
           /\ UNCHANGED lock => lock' \in Requests \cup {None}
           /\ UNCHANGED holder => holder' \in Requests \cup {None}
           /\ UNCHANGED used =>
                 used' \in [shutdowns : Nat, crashes : Nat, expiries : Nat, faults : Nat]
BY DEF TypeInv, TypeOK, RowType

(* A run has a task and a checkpoint to write into the table. *)
LEMMA RunHasTask ==
    ASSUME TypeInv, NEW r \in Requests, req[r].pc \in Running \cup {"release"}
    PROVE  /\ req[r].task \in Requests /\ req[r].chunks \in 0..NPages
           /\ req[r].at \in 0..NPages /\ req[r].status \in Statuses
           /\ req[r].inst \in Instances
           /\ row \in [Requests -> RowType]
<1>1. req[r] \in RequestType
  BY DEF TypeInv, TypeOK
<1>2. req[r].task \in Requests /\ req[r].inst \in Instances
  BY DEF TypeInv, Placed, Running, Ended
<1>3. QED
  BY <1>1, <1>2 DEF RequestType, TypeInv, TypeOK, RowType

LEMMA TypePrepare ==
    ASSUME TypeInv, NEW r \in Requests, Prepare(r)
    PROVE  TypeInv'
<1>1. PICK start \in {0, req[r].at} :
        req' = [req EXCEPT ![r] = [req[r] EXCEPT !.pc = "open", !.at = start]]
  BY DEF Prepare
<1> DEFINE q == [req[r] EXCEPT !.pc = "open", !.at = start]
<1>2. req[r] \in RequestType /\ "open" \in PCs /\ start \in 0..NPages
  BY RunHasTask, PagesAssumption DEF Prepare, Running, TypeInv, TypeOK, PCs, Live
<1>3. /\ q \in RequestType /\ q.pc = "open"
      /\ q.inst = req[r].inst /\ q.op = req[r].op /\ q.task = req[r].task
  BY <1>2 DEF RequestType, PCs
<1> HIDE DEF q
<1>4. QED
  BY <1>1, <1>3, TypeRun, Unchanged DEF q, Prepare, Running

LEMMA TypeCommitPage ==
    ASSUME TypeInv, NEW r \in Requests, CommitPage(r)
    PROVE  TypeInv'
<1> DEFINE page == req[r].at + 1
           q == [req[r] EXCEPT !.pc = "report", !.at = page, !.chunks = page]
<1>1. req[r] \in RequestType /\ "report" \in PCs
      /\ page \in 0..NPages /\ page \in 1..NPages
  BY RunHasTask, PagesAssumption DEF CommitPage, Running, TypeInv, TypeOK, PCs, Live
<1>2. /\ req' = [req EXCEPT ![r] = q]
      /\ written' = [written EXCEPT ![req[r].task] = @ \cup {page}]
  BY DEF CommitPage
<1> HIDE DEF page
<1>3. /\ q \in RequestType /\ q.pc = "report"
      /\ q.inst = req[r].inst /\ q.op = req[r].op /\ q.task = req[r].task
  BY <1>1 DEF RequestType, PCs
<1> HIDE DEF q
<1>4. written' \in [Requests -> SUBSET (1..NPages)]
  BY <1>1, <1>2 DEF TypeInv, TypeOK
<1>5. QED
  BY <1>2, <1>3, <1>4, TypeRun, Unchanged DEF CommitPage, Running

LEMMA TypeEmptyPage ==
    ASSUME TypeInv, NEW r \in Requests, EmptyPage(r)
    PROVE  TypeInv'
<1> DEFINE q == [req[r] EXCEPT !.pc = "report", !.chunks = NPages]
<1>1. req[r] \in RequestType /\ "report" \in PCs /\ NPages \in 0..NPages
  BY PagesAssumption DEF Running, TypeInv, TypeOK, PCs, Live
<1>2. req' = [req EXCEPT ![r] = q]
  BY DEF EmptyPage
<1>3. /\ q \in RequestType /\ q.pc = "report"
      /\ q.inst = req[r].inst /\ q.op = req[r].op /\ q.task = req[r].task
  BY <1>1 DEF RequestType, PCs
<1> HIDE DEF q
<1>4. QED
  BY <1>2, <1>3, TypeRun, Unchanged DEF EmptyPage, Running

LEMMA TypeReportChunk ==
    ASSUME TypeInv, NEW r \in Requests, ReportChunk(r)
    PROVE  TypeInv'
<1>1. row' \in [Requests -> RowType]
  BY RunHasTask, TaskRow DEF ReportChunk, Running, RowStatuses, Statuses
<1>2. QED
  BY <1>1, TypeRunGoto, Unchanged DEF ReportChunk, Running

LEMMA TypeLastPage ==
    ASSUME TypeInv, NEW r \in Requests, LastPage(r)
    PROVE  TypeInv'
<1>1. CASE Settle(r, "finish", "COMPLETED")
  BY <1>1, TypeRunSettle, Unchanged DEF LastPage, Running, Statuses
<1>2. CASE Goto(r, "swap")
  BY <1>2, TypeRunGoto, Unchanged DEF LastPage, Running
<1>3. QED
  BY <1>1, <1>2 DEF LastPage

LEMMA TypeSwap ==
    ASSUME TypeInv, NEW r \in Requests, Swap(r)
    PROVE  TypeInv'
BY TypeRunSettle, Unchanged DEF Swap, Running, Statuses

LEMMA TypeWorkFails ==
    ASSUME TypeInv, NEW r \in Requests, WorkFails(r)
    PROVE  TypeInv'
<1>1. CASE Settle(r, "interrupt", "INTERRUPTED")
  BY <1>1, TypeRunSettle, Unchanged DEF WorkFails, Running, Statuses
<1>2. CASE Settle(r, "fail", "FAILED")
  BY <1>2, TypeRunSettle, Unchanged DEF WorkFails, Running, Statuses
<1>3. QED
  BY <1>1, <1>2 DEF WorkFails

LEMMA TypeFinishTask ==
    ASSUME TypeInv, NEW r \in Requests, FinishTask(r)
    PROVE  TypeInv'
<1>1. row' \in [Requests -> RowType]
  BY RunHasTask, TaskRow DEF FinishTask, Running, RowStatuses, Statuses
<1>2. QED
  BY <1>1, TypeRunGoto, Unchanged DEF FinishTask, Running

LEMMA TypeRecordFailure ==
    ASSUME TypeInv, NEW r \in Requests, RecordFailure(r)
    PROVE  TypeInv'
<1>1. CASE UpdateTask(req[r].task, "INTERRUPTED", req[r].chunks)
  <2>1. row' \in [Requests -> RowType]
    BY <1>1, RunHasTask, TaskRow DEF RecordFailure, Running, RowStatuses, Statuses
  <2>2. QED
    BY <2>1, TypeRunGoto, Unchanged DEF RecordFailure, Running
<1>2. CASE UpdateStatus(req[r].task, "FAILED")
  <2>1. row' \in [Requests -> RowType]
    BY <1>2, RunHasTask, StatusRow DEF RecordFailure, Running, RowStatuses, Statuses
  <2>2. QED
    BY <2>1, TypeRunGoto, Unchanged DEF RecordFailure, Running
<1>3. QED
  BY <1>1, <1>2 DEF RecordFailure

LEMMA TypeRunFault ==
    ASSUME TypeInv, NEW r \in Requests, RunFault(r)
    PROVE  TypeInv'
<1>1. CASE Settle(r, "fail", "FAILED")
  BY <1>1, TypeFault, TypeRunSettle DEF RunFault, Running, Statuses
<1>2. CASE Goto(r, "release")
  BY <1>2, TypeFault, TypeRunGoto, Unchanged DEF RunFault, Running
<1>3. QED
  BY <1>1, <1>2 DEF RunFault

LEMMA TypeRelease ==
    ASSUME TypeInv, NEW r \in Requests, Release(r)
    PROVE  TypeInv'
<1>1. lock' \in Requests \cup {None} /\ holder' \in Requests \cup {None}
  BY ReleaseLockType DEF Release, TypeInv, TypeOK
<1>2. QED
  BY <1>1, TypeRunGoto, Unchanged DEF Release

LEMMA TypeReleaseFault ==
    ASSUME TypeInv, NEW r \in Requests, ReleaseFault(r)
    PROVE  TypeInv'
BY TypeFault, TypeRunGoto, Unchanged DEF ReleaseFault

----------------------------------------------------------------------------
(* Shutdown and environment *)

LEMMA MgrUpdate ==
    ASSUME mgr \in [Instances -> ManagerType], NEW i \in Instances,
           NEW m \in ManagerType, mgr' = [mgr EXCEPT ![i] = m]
    PROVE  /\ mgr' \in [Instances -> ManagerType]
           /\ mgr'[i] = m
           /\ \A j \in Instances : j # i => mgr'[j] = mgr[j]
OBVIOUS

Shuts == {"up", "write", "unlock", "cancel", "join", "stopped", "aborted", "down"}

LEMMA TurnMgr ==
    ASSUME mgr \in [Instances -> ManagerType], NEW i \in Instances,
           NEW p \in Shuts, Turn(i, p)
    PROVE  /\ mgr' \in [Instances -> ManagerType]
           /\ mgr'[i].shut = p /\ mgr'[i].state = mgr[i].state
           /\ mgr'[i].bg = mgr[i].bg /\ mgr'[i].snap = mgr[i].snap
           /\ \A j \in Instances : j # i => mgr'[j] = mgr[j]
<1>1. mgr[i] \in ManagerType
  OBVIOUS
<1>2. [mgr[i] EXCEPT !.shut = p] \in ManagerType
  BY <1>1 DEF ManagerType, Shuts
<1>3. QED
  BY <1>1, <1>2, MgrUpdate DEF Turn, ManagerType

(* Coroutines that are cancelled, killed or left alone stay placed, and    *)
(* the current run of a manager stays past submit().                       *)
LEMMA ReqsMove ==
    ASSUME TypeInv,
           req' \in [Requests -> RequestType],
           \A r \in Requests :
              /\ req'[r].inst = req[r].inst /\ req'[r].op = req[r].op
              /\ req'[r].task = req[r].task /\ req'[r].found = req[r].found
              /\ \/ req'[r].pc = req[r].pc
                 \/ req[r].pc \in Running /\ req'[r].pc = "release"
                 \/ req[r].pc \in Live /\ req'[r].pc \in {"done", "crashed"}
    PROVE  /\ (\A r \in Requests : Placed(r))'
           /\ \A s \in Requests :
                 /\ req[s].task \in Requests => req'[s].task \in Requests
                 /\ req[s].pc \in Running \cup {"release"} \cup Ended
                    => req'[s].pc \in Running \cup {"release"} \cup Ended
<1>1. ASSUME NEW r \in Requests PROVE Placed(r)'
  <2>1. CASE req'[r].pc = req[r].pc
    BY <2>1 DEF TypeInv, Placed
  <2>2. CASE req[r].pc \in Running /\ req'[r].pc = "release"
    BY <2>2 DEF TypeInv, Placed, Running, Ended
  <2>3. CASE req[r].pc \in Live /\ req'[r].pc \in {"done", "crashed"}
    BY <2>3 DEF TypeInv, Placed, Ended, Live, Running, Submitting, Locking
  <2>4. QED
    BY <2>1, <2>2, <2>3
<1>2. QED
  BY <1>1 DEF Ended

(* ... so a step that changes no manager's state or bg keeps the type. *)
LEMMA TypeTurn ==
    ASSUME TypeInv, NEW i \in Instances, NEW p \in Shuts, Turn(i, p),
           p \in {"write", "unlock", "cancel", "join"} => mgr[i].state # None,
           UNCHANGED <<req, created, written>>,
           row' \in [Requests -> RowType],
           lock' \in Requests \cup {None}, holder' \in Requests \cup {None},
           used' \in [shutdowns : Nat, crashes : Nat, expiries : Nat, faults : Nat]
    PROVE  TypeInv'
<1>1. TypeOK'
  BY TurnMgr DEF TypeInv, TypeOK, RowType
<1>2. \A r \in Requests : Placed(r)'
  BY DEF TypeInv, Placed
<1>3. /\ mgr'[i].shut = p /\ mgr'[i].state = mgr[i].state /\ mgr'[i].bg = mgr[i].bg
      /\ \A j \in Instances : j # i => mgr'[j] = mgr[j]
  BY TurnMgr DEF TypeInv, TypeOK
<1>4. ASSUME NEW j \in Instances PROVE Current(j)'
  <2>1. Current(j)
    BY DEF TypeInv
  <2>2. CASE j = i
    BY <1>3, <2>1, <2>2 DEF Current
  <2>3. CASE j # i
    BY <1>3, <2>1, <2>3 DEF Current
  <2>4. QED
    BY <2>2, <2>3
<1>5. QED
  BY <1>1, <1>2, <1>4 DEF TypeInv

LEMMA TypeShutdownBegin ==
    ASSUME TypeInv, NEW i \in Instances, ShutdownBegin(i)
    PROVE  TypeInv'
<1> DEFINE s == mgr[i].state
           m == [mgr[i] EXCEPT !.shut = "write", !.snap = req[s].chunks]
           q == [req[s] EXCEPT !.status = "INTERRUPTED"]
<1>1. used' \in [shutdowns : Nat, crashes : Nat, expiries : Nat, faults : Nat]
  <2>1. used \in [shutdowns : Nat, crashes : Nat, expiries : Nat, faults : Nat]
    BY DEF TypeInv, TypeOK
  <2>2. QED
    BY <2>1 DEF ShutdownBegin
<1>2. CASE Turn(i, "stopped") /\ UNCHANGED req
  BY <1>1, <1>2, TypeTurn, Unchanged DEF ShutdownBegin, Shuts
<1>3. CASE /\ s # None
           /\ mgr' = [mgr EXCEPT ![i] = m] /\ req' = [req EXCEPT ![s] = q]
  <2>1. /\ mgr[i] \in ManagerType /\ s \in Requests /\ req[s] \in RequestType
    BY <1>3 DEF TypeInv, TypeOK, ManagerType
  <2>2. m \in ManagerType /\ m.state = s /\ m.bg = mgr[i].bg
    BY <2>1 DEF ManagerType, RequestType
  <2>3. q \in RequestType /\ q.pc = req[s].pc /\ q.inst = req[s].inst
        /\ q.op = req[s].op /\ q.task = req[s].task /\ q.found = req[s].found
    BY <2>1 DEF RequestType, Statuses
  <2>4. /\ mgr' \in [Instances -> ManagerType] /\ mgr'[i] = m
        /\ \A j \in Instances : j # i => mgr'[j] = mgr[j]
    <3> HIDE DEF m
    <3>1. QED
      BY <1>3, <2>2, MgrUpdate DEF TypeInv, TypeOK
  <2>5. /\ req' \in [Requests -> RequestType] /\ req'[s] = q
        /\ \A r \in Requests : r # s => req'[r] = req[r]
    <3> HIDE DEF q
    <3>1. QED
      BY <1>3, <2>1, <2>3, ReqUpdate DEF TypeInv, TypeOK
  <2> HIDE DEF m, q
  <2>6. \A r \in Requests :
          /\ req'[r].inst = req[r].inst /\ req'[r].op = req[r].op
          /\ req'[r].task = req[r].task /\ req'[r].found = req[r].found
          /\ req'[r].pc = req[r].pc
    BY <2>3, <2>5
  <2>7. (\A r \in Requests : Placed(r))'
    BY <2>5, <2>6, ReqsMove
  <2>8. ASSUME NEW j \in Instances PROVE Current(j)'
    <3>1. mgr'[j].state = mgr[j].state /\ mgr'[j].bg = mgr[j].bg
      BY <2>2, <2>4
    <3>2. mgr[j].state \in Requests \cup {None}
      BY DEF TypeInv, TypeOK, ManagerType
    <3>3. mgr'[j].shut \in {"write", "unlock", "cancel", "join"} => mgr'[j].state # None
      BY <1>3, <2>2, <2>4 DEF TypeInv, Current
    <3>4. QED
      BY <2>6, <3>1, <3>2, <3>3 DEF TypeInv, Current
  <2>9. TypeOK'
    BY <1>1, <2>4, <2>5 DEF ShutdownBegin, TypeInv, TypeOK
  <2>10. QED
    BY <2>7, <2>8, <2>9 DEF TypeInv
<1>4. QED
  BY <1>2, <1>3 DEF ShutdownBegin, Turn

LEMMA TypeShutdownWrite ==
    ASSUME TypeInv, NEW i \in Instances, ShutdownWrite(i)
    PROVE  TypeInv'
<1> DEFINE t == req[mgr[i].state].task
<1>1. mgr[i] \in ManagerType /\ mgr[i].state # None
  BY DEF ShutdownWrite, TypeInv, TypeOK, Current
<1>2. t \in Requests /\ mgr[i].snap \in 0..NPages
  BY <1>1 DEF TypeInv, Current, ManagerType
<1>3. UpdateTask(t, "INTERRUPTED", mgr[i].snap)
  BY DEF ShutdownWrite
<1> HIDE DEF t
<1>4. row' \in [Requests -> RowType]
  BY <1>2, <1>3, TaskRow DEF TypeInv, TypeOK, RowType, RowStatuses, Statuses
<1>5. QED
  BY <1>1, <1>4, TypeTurn, Unchanged DEF ShutdownWrite, Shuts

LEMMA TypeShutdownUnlock ==
    ASSUME TypeInv, NEW i \in Instances, ShutdownUnlock(i)
    PROVE  TypeInv'
<1>1. lock' \in Requests \cup {None} /\ holder' \in Requests \cup {None}
  BY ReleaseLockType DEF ShutdownUnlock, TypeInv, TypeOK
<1>2. mgr[i].state # None
  BY DEF ShutdownUnlock, TypeInv, Current
<1>3. QED
  BY <1>1, <1>2, TypeTurn, Unchanged DEF ShutdownUnlock, Shuts

LEMMA TypeShutdownFault ==
    ASSUME TypeInv, NEW i \in Instances, ShutdownFault(i)
    PROVE  TypeInv'
BY TypeFault, TypeTurn, Unchanged DEF ShutdownFault, Shuts

LEMMA TypeShutdownCancel ==
    ASSUME TypeInv, NEW i \in Instances, ShutdownCancel(i)
    PROVE  TypeInv'
<1> DEFINE b == mgr[i].bg
<1>1. CASE Turn(i, "aborted") /\ UNCHANGED req
  BY <1>1, TypeTurn, Unchanged DEF ShutdownCancel, Shuts
<1>2. CASE b # None /\ Turn(i, "join") /\ req' = [req EXCEPT ![b] = Cancelled(req[b])]
  <2>1. /\ mgr[i] \in ManagerType /\ b \in Requests /\ req[b] \in RequestType
    BY <1>2 DEF TypeInv, TypeOK, ManagerType
  <2>2. /\ req' \in [Requests -> RequestType] /\ req'[b] = Cancelled(req[b])
        /\ \A r \in Requests : r # b => req'[r] = req[r]
    <3>1. Cancelled(req[b]) \in RequestType
      BY <2>1, CancelledReq
    <3> HIDE DEF b
    <3>2. QED
      BY <1>2, <2>1, <3>1, ReqUpdate DEF TypeInv, TypeOK
  <2>3. \A r \in Requests :
          /\ req'[r].inst = req[r].inst /\ req'[r].op = req[r].op
          /\ req'[r].task = req[r].task /\ req'[r].found = req[r].found
          /\ \/ req'[r].pc = req[r].pc
             \/ req[r].pc \in Running /\ req'[r].pc = "release"
             \/ req[r].pc \in Live /\ req'[r].pc \in {"done", "crashed"}
    <3>1. Cancelled(req[b]).inst = req[b].inst /\ Cancelled(req[b]).op = req[b].op
          /\ Cancelled(req[b]).task = req[b].task /\ Cancelled(req[b]).found = req[b].found
      BY <2>1, CancelledReq DEF RequestType
    <3>2. \/ Cancelled(req[b]).pc = req[b].pc
          \/ req[b].pc \in Running /\ Cancelled(req[b]).pc = "release"
          \/ req[b].pc \in Live /\ Cancelled(req[b]).pc \in {"done", "crashed"}
      BY <2>1, CancelledReq DEF Live
    <3> HIDE DEF b
    <3>3. QED
      BY <2>2, <3>1, <3>2
  <2>4. /\ (\A r \in Requests : Placed(r))'
        /\ \A s \in Requests :
              /\ req[s].task \in Requests => req'[s].task \in Requests
              /\ req[s].pc \in Running \cup {"release"} \cup Ended
                 => req'[s].pc \in Running \cup {"release"} \cup Ended
    BY <2>2, <2>3, ReqsMove
  <2>5. /\ mgr' \in [Instances -> ManagerType]
        /\ mgr'[i].shut = "join" /\ mgr'[i].state = mgr[i].state
        /\ mgr'[i].bg = mgr[i].bg
        /\ \A j \in Instances : j # i => mgr'[j] = mgr[j]
    BY <1>2, TurnMgr DEF TypeInv, TypeOK, Shuts
  <2>6. ASSUME NEW j \in Instances PROVE Current(j)'
    <3>1. mgr[j].state \in Requests \cup {None}
      BY DEF TypeInv, TypeOK, ManagerType
    <3>2. mgr'[j].state = mgr[j].state /\ mgr'[j].bg = mgr[j].bg
      BY <2>5
    <3>3. mgr'[j].shut \in {"write", "unlock", "cancel", "join"} => mgr'[j].state # None
      BY <2>5 DEF ShutdownCancel, TypeInv, Current
    <3>4. QED
      BY <2>4, <3>1, <3>2, <3>3 DEF TypeInv, Current
  <2>7. TypeOK'
    BY <2>2, <2>5 DEF ShutdownCancel, TypeInv, TypeOK
  <2>8. QED
    BY <2>4, <2>6, <2>7 DEF TypeInv
<1>3. QED
  BY <1>1, <1>2 DEF ShutdownCancel

LEMMA TypeShutdownJoin ==
    ASSUME TypeInv, NEW i \in Instances, ShutdownJoin(i)
    PROVE  TypeInv'
<1> DEFINE m == [mgr[i] EXCEPT !.shut = "stopped", !.bg = None]
<1>1. mgr[i] \in ManagerType
  BY DEF TypeInv, TypeOK
<1>2. m \in ManagerType /\ m.state = mgr[i].state /\ m.bg = None /\ m.shut = "stopped"
  BY <1>1 DEF ManagerType
<1>3. mgr' = [mgr EXCEPT ![i] = m]
  BY DEF ShutdownJoin
<1> HIDE DEF m
<1>4. /\ mgr' \in [Instances -> ManagerType] /\ mgr'[i] = m
      /\ \A j \in Instances : j # i => mgr'[j] = mgr[j]
  BY <1>2, <1>3, MgrUpdate DEF TypeInv, TypeOK
<1>5. TypeOK' /\ \A r \in Requests : Placed(r)'
  BY <1>4 DEF ShutdownJoin, TypeInv, TypeOK, Placed
<1>6. \A j \in Instances : Current(j)'
  BY <1>2, <1>4 DEF ShutdownJoin, TypeInv, Current
<1>7. QED
  BY <1>5, <1>6 DEF TypeInv

LEMMA TypeCloseLoop ==
    ASSUME TypeInv, NEW i \in Instances, CloseLoop(i)
    PROVE  TypeInv'
<1>1. \A r \in Requests : req[r] \in RequestType
  BY DEF TypeInv, TypeOK
<1>2. \A r \in Requests : req'[r] = req[r] \/ req'[r] = Cancelled(req[r])
  BY DEF CloseLoop
<1>3. req' \in [Requests -> RequestType]
  BY <1>1, CancelledReq DEF CloseLoop
<1>4. ASSUME NEW r \in Requests
      PROVE  /\ req'[r].inst = req[r].inst /\ req'[r].op = req[r].op
             /\ req'[r].task = req[r].task /\ req'[r].found = req[r].found
             /\ \/ req'[r].pc = req[r].pc
                \/ req[r].pc \in Running /\ req'[r].pc = "release"
                \/ req[r].pc \in Live /\ req'[r].pc \in {"done", "crashed"}
  <2>1. Cancelled(req[r]).inst = req[r].inst /\ Cancelled(req[r]).op = req[r].op
        /\ Cancelled(req[r]).task = req[r].task /\ Cancelled(req[r]).found = req[r].found
    BY <1>1, CancelledReq DEF RequestType
  <2>2. \/ Cancelled(req[r]).pc = req[r].pc
        \/ req[r].pc \in Running /\ Cancelled(req[r]).pc = "release"
        \/ req[r].pc \in Live /\ Cancelled(req[r]).pc \in {"done", "crashed"}
    BY <1>1, CancelledReq DEF Live
  <2>3. QED
    BY <1>2, <2>1, <2>2
<1>5. /\ (\A r \in Requests : Placed(r))'
      /\ \A s \in Requests :
            /\ req[s].task \in Requests => req'[s].task \in Requests
            /\ req[s].pc \in Running \cup {"release"} \cup Ended
               => req'[s].pc \in Running \cup {"release"} \cup Ended
  BY <1>3, <1>4, ReqsMove
<1>6. /\ mgr' \in [Instances -> ManagerType]
      /\ mgr'[i].shut = "down" /\ mgr'[i].state = mgr[i].state
      /\ mgr'[i].bg = mgr[i].bg
      /\ \A j \in Instances : j # i => mgr'[j] = mgr[j]
  BY TurnMgr DEF CloseLoop, TypeInv, TypeOK, Shuts
<1>7. ASSUME NEW j \in Instances PROVE Current(j)'
  <2>1. mgr[j].state \in Requests \cup {None}
    BY DEF TypeInv, TypeOK, ManagerType
  <2>2. mgr'[j].state = mgr[j].state /\ mgr'[j].bg = mgr[j].bg
    BY <1>6
  <2>3. mgr'[j].shut \in {"write", "unlock", "cancel", "join"} => mgr'[j].state # None
    BY <1>6 DEF TypeInv, Current
  <2>4. QED
    BY <1>5, <2>1, <2>2, <2>3 DEF TypeInv, Current
<1>8. TypeOK'
  BY <1>3, <1>6 DEF CloseLoop, TypeInv, TypeOK
<1>9. QED
  BY <1>5, <1>7, <1>8 DEF TypeInv

LEMMA TypeCrash ==
    ASSUME TypeInv, NEW i \in Instances, Crash(i)
    PROVE  TypeInv'
<1> DEFINE m == [NewProcess EXCEPT !.shut = "down"]
<1>1. m \in ManagerType /\ m.state = None /\ m.bg = None /\ m.shut = "down"
  BY PagesAssumption DEF NewProcess, ManagerType
<1>2. mgr' = [mgr EXCEPT ![i] = m]
  BY DEF Crash
<1> HIDE DEF m
<1>3. /\ mgr' \in [Instances -> ManagerType] /\ mgr'[i] = m
      /\ \A j \in Instances : j # i => mgr'[j] = mgr[j]
  BY <1>1, <1>2, MgrUpdate DEF TypeInv, TypeOK
<1>4. ASSUME NEW r \in Requests
      PROVE  /\ req'[r] \in RequestType
             /\ req'[r].inst = req[r].inst /\ req'[r].op = req[r].op
             /\ req'[r].task = req[r].task /\ req'[r].found = req[r].found
             /\ \/ req'[r].pc = req[r].pc
                \/ req[r].pc \in Live /\ req'[r].pc = "crashed"
  <2>1. req[r] \in RequestType /\ "crashed" \in PCs
    BY DEF TypeInv, TypeOK, PCs, Ended
  <2>2. [req[r] EXCEPT !.pc = "crashed"] \in RequestType
    BY <2>1 DEF RequestType, PCs
  <2>3. \/ req'[r] = req[r]
        \/ req[r].pc \in Live /\ req'[r] = [req[r] EXCEPT !.pc = "crashed"]
    BY DEF Crash
  <2>4. QED
    BY <2>1, <2>2, <2>3 DEF RequestType
<1>5. req' \in [Requests -> RequestType]
  BY <1>4 DEF Crash
<1>6. /\ (\A r \in Requests : Placed(r))'
      /\ \A s \in Requests :
            /\ req[s].task \in Requests => req'[s].task \in Requests
            /\ req[s].pc \in Running \cup {"release"} \cup Ended
               => req'[s].pc \in Running \cup {"release"} \cup Ended
  BY <1>4, <1>5, ReqsMove
<1>7. ASSUME NEW j \in Instances PROVE Current(j)'
  <2>1. mgr[j].state \in Requests \cup {None}
    BY DEF TypeInv, TypeOK, ManagerType
  <2>2. QED
    BY <1>1, <1>3, <1>6, <2>1 DEF TypeInv, Current
<1>8. used' \in [shutdowns : Nat, crashes : Nat, expiries : Nat, faults : Nat]
  <2>1. used \in [shutdowns : Nat, crashes : Nat, expiries : Nat, faults : Nat]
    BY DEF TypeInv, TypeOK
  <2>2. QED
    BY <2>1 DEF Crash
<1>9. TypeOK'
  BY <1>3, <1>5, <1>8 DEF Crash, TypeInv, TypeOK
<1>10. QED
  BY <1>6, <1>7, <1>9 DEF TypeInv

LEMMA TypeRestart ==
    ASSUME TypeInv, NEW i \in Instances, Restart(i)
    PROVE  TypeInv'
<1>1. NewProcess \in ManagerType /\ NewProcess.state = None /\ NewProcess.bg = None
      /\ NewProcess.shut = "up"
  BY PagesAssumption DEF NewProcess, ManagerType
<1>2. /\ mgr' \in [Instances -> ManagerType] /\ mgr'[i] = NewProcess
      /\ \A j \in Instances : j # i => mgr'[j] = mgr[j]
  BY <1>1, MgrUpdate DEF Restart, TypeInv, TypeOK
<1>3. TypeOK' /\ \A r \in Requests : Placed(r)'
  BY <1>2 DEF Restart, TypeInv, TypeOK, Placed
<1>4. \A j \in Instances : Current(j)'
  BY <1>1, <1>2 DEF Restart, TypeInv, Current
<1>5. QED
  BY <1>3, <1>4 DEF TypeInv

LEMMA TypeExpire ==
    ASSUME TypeInv, ExpireLeaked \/ ExpireHeld
    PROVE  TypeInv'
<1>1. used \in [shutdowns : Nat, crashes : Nat, expiries : Nat, faults : Nat]
  BY DEF TypeInv, TypeOK
<1>2. used' \in [shutdowns : Nat, crashes : Nat, expiries : Nat, faults : Nat]
  BY <1>1 DEF ExpireLeaked, ExpireHeld
<1>3. UNCHANGED <<row, created, written, req, mgr>> /\ lock' = None /\ holder' = None
  BY DEF ExpireLeaked, ExpireHeld
<1>4. QED
  BY <1>2, <1>3 DEF TypeInv, TypeOK, Placed, Current

LEMMA TypeStep == TypeInv /\ [Next]_vars => TypeInv'
<1>1. SUFFICES ASSUME TypeInv, [Next]_vars PROVE TypeInv'
  OBVIOUS
<1>2. ASSUME NEW r \in Requests, SubmitStep(r) PROVE TypeInv'
  BY <1>1, <1>2, TypeFind, TypeAcquire, TypeMarkRunning, TypeCancelOld, TypeInsertTask,
     TypeSubmitFault, TypeUndoLock DEF SubmitStep
<1>3. ASSUME NEW r \in Requests, RunStep(r) PROVE TypeInv'
  BY <1>1, <1>3, TypePrepare, TypeCommitPage, TypeEmptyPage, TypeReportChunk, TypeLastPage, TypeSwap,
     TypeWorkFails, TypeFinishTask, TypeRecordFailure, TypeRunFault, TypeRelease,
     TypeReleaseFault DEF RunStep
<1>4. ASSUME NEW i \in Instances, ShutdownStep(i) PROVE TypeInv'
  BY <1>1, <1>4, TypeShutdownWrite, TypeShutdownUnlock, TypeShutdownCancel,
     TypeShutdownJoin, TypeShutdownFault, TypeCloseLoop DEF ShutdownStep
<1>5. CASE UNCHANGED vars
  BY <1>1, <1>5 DEF vars, TypeInv, TypeOK, Placed, Current
<1>6. QED
  BY <1>1, <1>2, <1>3, <1>4, <1>5, TypeSubmit, TypeShutdownBegin, TypeCrash, TypeRestart,
     TypeExpire DEF Next

(* Every reachable state is well typed (TypeOK of SeedTasks), and a        *)
(* coroutine knows what it needs wherever it waits.                        *)
THEOREM TypeCorrect == Spec => []TypeOK
<1>1. Spec => []TypeInv
  BY TypeInit, TypeStep, PTL DEF Spec
<1>2. TypeInv => TypeOK
  BY DEF TypeInv
<1>3. QED
  BY <1>1, <1>2, PTL

----------------------------------------------------------------------------
(* A process that is not up has no submit() in flight: the server answers  *)
(* them before the lifespan ends, and a killed process has none.           *)

DrainInv == \A i \in Instances : mgr[i].shut # "up" => Drained(i)

(* One request r moves, and not into submit(). *)
LEMMA DrainMove ==
    ASSUME TypeInv, DrainInv, NEW r \in Requests,
           \A s \in Requests : s # r => req'[s] = req[s],
           req'[r].inst = req[r].inst,
           req'[r].pc \in Submitting => req[r].pc \in Submitting,
           \A i \in Instances : mgr'[i].shut = mgr[i].shut
    PROVE  DrainInv'
<1>1. ASSUME NEW i \in Instances, mgr[i].shut # "up", NEW s \in Requests, req'[s].inst = i
      PROVE  req'[s].pc \notin Submitting
  <2>1. CASE s = r
    BY <1>1, <2>1 DEF DrainInv, Drained
  <2>2. CASE s # r
    BY <1>1, <2>2 DEF DrainInv, Drained
  <2>3. QED
    BY <2>1, <2>2
<1>2. QED
  BY <1>1 DEF DrainInv, Drained

LEMMA DrainGoto ==
    ASSUME TypeInv, DrainInv, NEW r \in Requests, NEW p \in PCs,
           Goto(r, p) \/ \E st \in Statuses : Settle(r, p, st),
           p \in Submitting => req[r].pc \in Submitting,
           \A i \in Instances : mgr'[i].shut = mgr[i].shut
    PROVE  DrainInv'
<1>1. req \in [Requests -> RequestType] /\ req[r] \in RequestType
  BY DEF TypeInv, TypeOK
<1>2. CASE Goto(r, p)
  <2>1. req'[r] = [req[r] EXCEPT !.pc = p] /\ \A s \in Requests : s # r => req'[s] = req[s]
    BY <1>1, <1>2, GotoReq
  <2>2. req'[r].pc = p /\ req'[r].inst = req[r].inst
    BY <1>1, <2>1 DEF RequestType
  <2>3. QED
    BY <2>1, <2>2, DrainMove
<1>3. ASSUME NEW st \in Statuses, Settle(r, p, st) PROVE DrainInv'
  <2>1. req'[r] = [req[r] EXCEPT !.pc = p, !.status = st]
        /\ \A s \in Requests : s # r => req'[s] = req[s]
    BY <1>1, <1>3 DEF Settle
  <2>2. req'[r].pc = p /\ req'[r].inst = req[r].inst
    BY <1>1, <2>1 DEF RequestType
  <2>3. QED
    BY <2>1, <2>2, DrainMove
<1>4. QED
  BY <1>2, <1>3

LEMMA DrainSubmitStep ==
    ASSUME TypeInv, DrainInv, NEW r \in Requests, SubmitStep(r)
    PROVE  DrainInv'
<1>1. CASE Find(r)
  <2>1. PICK q \in RequestType : FindResult(r, q) /\ req' = [req EXCEPT ![r] = q]
    BY <1>1, FindReq
  <2>2. req'[r] = q /\ \A s \in Requests : s # r => req'[s] = req[s]
    BY <2>1, ReqUpdate DEF TypeInv, TypeOK
  <2>3. QED
    BY <1>1, <2>1, <2>2, DrainMove DEF Find, FindResult, Submitting, Locking
<1>2. CASE Acquire(r) \/ CancelOld(r) \/ SubmitFault(r) \/ UndoLock(r)
  <2>1. PICK p \in PCs : Goto(r, p)
    BY <1>2 DEF Acquire, CancelOld, SubmitFault, UndoLock, PCs, Live, Submitting, Locking, Ended
  <2>2. req[r].pc \in Submitting /\ UNCHANGED mgr
    BY <1>2 DEF Acquire, CancelOld, SubmitFault, UndoLock, Submitting, Locking
  <2>3. QED
    BY <2>1, <2>2, DrainGoto
<1>3. CASE MarkRunning(r) \/ InsertTask(r)
  <2> DEFINE home == req[r].inst
  <2>1. /\ req \in [Requests -> RequestType] /\ req[r] \in RequestType
        /\ mgr \in [Instances -> ManagerType] /\ StartRun(r)
        /\ req[r].pc \in Submitting
    BY <1>3 DEF TypeInv, TypeOK, MarkRunning, InsertTask, Submitting
  <2>2. PICK p \in {"open", "prepare"} :
          req' = [req EXCEPT ![r] =
                    [req[r] EXCEPT !.pc = p, !.status = "RUNNING", !.at = req[r].chunks]]
    BY <2>1 DEF StartRun
  <2>3. /\ req'[r] = [req[r] EXCEPT !.pc = p, !.status = "RUNNING", !.at = req[r].chunks]
        /\ \A s \in Requests : s # r => req'[s] = req[s]
    BY <2>1, <2>2
  <2>4. req'[r].pc = p /\ req'[r].inst = req[r].inst
    BY <2>1, <2>3 DEF RequestType
  <2>5. \A i \in Instances : mgr'[i].shut = mgr[i].shut
    <3>1. ASSUME NEW i \in Instances PROVE mgr'[i].shut = mgr[i].shut
      <4>1. mgr[i] \in ManagerType
        BY <2>1
      <4>2. mgr'[i] = mgr[i] \/ mgr'[i] = [mgr[i] EXCEPT !.state = r, !.bg = r]
        BY <2>1 DEF StartRun
      <4>3. QED
        BY <4>1, <4>2 DEF ManagerType
    <3>2. QED
      BY <3>1
  <2>6. QED
    BY <2>1, <2>3, <2>4, <2>5, DrainMove
<1>4. QED
  BY <1>1, <1>2, <1>3 DEF SubmitStep

LEMMA DrainRunStep ==
    ASSUME TypeInv, DrainInv, NEW r \in Requests, RunStep(r)
    PROVE  DrainInv'
<1>1. /\ req \in [Requests -> RequestType] /\ req[r] \in RequestType
      /\ mgr \in [Instances -> ManagerType]
  BY DEF TypeInv, TypeOK
<1>2. \A i \in Instances : mgr'[i].shut = mgr[i].shut
  <2>1. CASE Release(r)
    <3>1. ASSUME NEW i \in Instances PROVE mgr'[i].shut = mgr[i].shut
      <4>1. mgr[i] \in ManagerType
        BY <1>1
      <4>2. mgr'[i] = mgr[i] \/ mgr'[i] = [mgr[i] EXCEPT !.bg = None]
        BY <1>1, <2>1 DEF Release
      <4>3. QED
        BY <4>1, <4>2 DEF ManagerType
    <3>2. QED
      BY <3>1
  <2>2. CASE UNCHANGED mgr
    BY <2>2
  <2>3. QED
    BY <2>1, <2>2 DEF RunStep, Prepare, CommitPage, EmptyPage, ReportChunk, LastPage, Swap, WorkFails,
       FinishTask, RecordFailure, RunFault, ReleaseFault
<1>3. CASE Prepare(r) \/ CommitPage(r) \/ EmptyPage(r)
  <2>1. PICK p \in {"open", "report"}, c \in 0..NPages, a \in 0..NPages :
          req' = [req EXCEPT ![r] = [req[r] EXCEPT !.pc = p, !.at = a, !.chunks = c]]
    <3>0. NPages \in Nat /\ req[r].at \in 0..NPages /\ req[r].chunks \in 0..NPages
      BY <1>1, PagesAssumption DEF RequestType
    <3>1. CASE CommitPage(r)
      <4>1. req[r].at + 1 \in 0..NPages
        BY <3>0, <3>1 DEF CommitPage
      <4>2. QED
        BY <3>1, <4>1 DEF CommitPage
    <3>2. CASE Prepare(r)
      <4>1. PICK start \in {0, req[r].at} :
              req' = [req EXCEPT ![r] = [req[r] EXCEPT !.pc = "open", !.at = start]]
        BY <3>2 DEF Prepare
      <4>2. [req[r] EXCEPT !.pc = "open", !.at = start] =
              [req[r] EXCEPT !.pc = "open", !.at = start, !.chunks = req[r].chunks]
        BY <1>1 DEF RequestType
      <4>3. start \in 0..NPages
        BY <3>0
      <4>4. QED
        BY <3>0, <4>1, <4>2, <4>3
    <3>3. CASE EmptyPage(r)
      <4>1. req' = [req EXCEPT ![r] = [req[r] EXCEPT !.pc = "report", !.chunks = NPages]]
        BY <3>3 DEF EmptyPage
      <4>2. [req[r] EXCEPT !.pc = "report", !.chunks = NPages] =
              [req[r] EXCEPT !.pc = "report", !.at = req[r].at, !.chunks = NPages]
        BY <1>1 DEF RequestType
      <4>3. NPages \in 0..NPages
        BY <3>0
      <4>4. QED
        BY <3>0, <4>1, <4>2, <4>3
    <3>4. QED
      BY <1>3, <3>1, <3>2, <3>3
  <2>2. /\ req'[r] = [req[r] EXCEPT !.pc = p, !.at = a, !.chunks = c]
        /\ \A s \in Requests : s # r => req'[s] = req[s]
    BY <1>1, <2>1
  <2>3. req'[r].pc = p /\ req'[r].inst = req[r].inst
    BY <1>1, <2>2 DEF RequestType
  <2>4. QED
    BY <1>2, <2>2, <2>3, DrainMove DEF Submitting, Locking
<1>4. CASE \E p \in Running \cup {"release", "done"} :
             Goto(r, p) \/ \E st \in Statuses : Settle(r, p, st)
  <2>1. PICK p \in Running \cup {"release", "done"} :
          Goto(r, p) \/ \E st \in Statuses : Settle(r, p, st)
    BY <1>4
  <2>2. p \in PCs /\ p \notin Submitting
    BY <2>1 DEF PCs, Live, Running, Ended, Submitting, Locking
  <2>3. QED
    BY <1>2, <2>1, <2>2, DrainGoto
<1>5. ReportChunk(r) \/ FinishTask(r) \/ RecordFailure(r) \/ Release(r) \/ ReleaseFault(r)
      => \E p \in Running \cup {"release", "done"} : Goto(r, p)
  BY DEF ReportChunk, FinishTask, RecordFailure, Release, ReleaseFault, Running
<1>6. LastPage(r) \/ Swap(r) \/ WorkFails(r) \/ RunFault(r)
      => \E p \in Running \cup {"release", "done"} :
            Goto(r, p) \/ \E st \in Statuses : Settle(r, p, st)
  BY DEF LastPage, Swap, WorkFails, RunFault, Running, Statuses
<1>7. QED
  BY <1>3, <1>4, <1>5, <1>6 DEF RunStep

(* ... and the steps of the processes and of the environment. *)
LEMMA DrainInstance ==
    ASSUME TypeInv, DrainInv, NEW i \in Instances,
           ShutdownBegin(i) \/ ShutdownStep(i) \/ Crash(i) \/ Restart(i)
    PROVE  DrainInv'
<1>1. /\ req \in [Requests -> RequestType] /\ \A r \in Requests : req[r] \in RequestType
      /\ mgr \in [Instances -> ManagerType]
      /\ \A j \in Instances : mgr[j].state \in Requests \cup {None}
                            /\ mgr[j].bg \in Requests \cup {None}
  BY DEF TypeInv, TypeOK, ManagerType
<1>2. ASSUME NEW r \in Requests
      PROVE  /\ req'[r].inst = req[r].inst
             /\ req'[r].pc \in Submitting => req[r].pc \in Submitting
  <2>1. Cancelled(req[r]).inst = req[r].inst
        /\ (Cancelled(req[r]).pc \in Submitting => req[r].pc \in Submitting)
    BY <1>1, CancelledReq DEF RequestType, Submitting, Locking
  <2>2. CASE Crash(i)
    <3>1. CASE req[r].inst = i /\ req[r].pc \in Live
      <4>1. req'[r] = [req[r] EXCEPT !.pc = "crashed"]
        BY <2>2, <3>1 DEF Crash
      <4>2. QED
        BY <1>1, <3>1, <4>1 DEF RequestType, Submitting, Locking
    <3>2. CASE ~(req[r].inst = i /\ req[r].pc \in Live)
      BY <2>2, <3>2 DEF Crash, Live
    <3>3. QED
      BY <3>1, <3>2
  <2>3. CASE CloseLoop(i)
    <3>1. req'[r] = req[r] \/ req'[r] = Cancelled(req[r])
      BY <2>3 DEF CloseLoop
    <3>2. QED
      BY <2>1, <3>1
  <2>4. CASE ShutdownCancel(i)
    <3>1. req'[r] = req[r] \/ req'[r] = Cancelled(req[r])
      BY <1>1, <2>4 DEF ShutdownCancel
    <3>2. QED
      BY <2>1, <3>1
  <2>5. CASE ShutdownBegin(i)
    <3>1. \/ req'[r] = req[r]
          \/ req'[r] = [req[r] EXCEPT !.status = "INTERRUPTED"]
      BY <1>1, <2>5 DEF ShutdownBegin
    <3>2. QED
      BY <1>1, <3>1 DEF RequestType
  <2>6. CASE UNCHANGED req
    BY <2>6
  <2>7. QED
    BY <2>2, <2>3, <2>4, <2>5, <2>6 DEF ShutdownStep, ShutdownWrite, ShutdownUnlock,
       ShutdownJoin, ShutdownFault, Restart
<1>3. ASSUME NEW r \in Requests, Crash(i), req[r].inst = i
      PROVE  req'[r].pc \notin Submitting
  <2>1. CASE req[r].pc \in Live
    <3>1. req'[r] = [req[r] EXCEPT !.pc = "crashed"]
      BY <1>3, <2>1 DEF Crash
    <3>2. QED
      BY <1>1, <3>1 DEF RequestType, Submitting, Locking
  <2>2. CASE req[r].pc \notin Live
    BY <1>3, <2>2 DEF Crash, Live
  <2>3. QED
    BY <2>1, <2>2
<1>4. ASSUME NEW j \in Instances, mgr'[j].shut # "up"
      PROVE  Drained(j) \/ (Crash(i) /\ j = i)
  <2>1. CASE mgr'[j] = mgr[j]
    BY <1>4, <2>1 DEF DrainInv
  <2>2. CASE j = i
    <3>1. Restart(i) => mgr'[i].shut = "up"
      BY <1>1 DEF Restart, NewProcess
    <3>2. ShutdownStep(i) => mgr[i].shut # "up"
      BY DEF ShutdownStep, ShutdownWrite, ShutdownUnlock, ShutdownCancel, ShutdownJoin,
         ShutdownFault, CloseLoop
    <3>3. ShutdownBegin(i) => Drained(i)
      BY DEF ShutdownBegin
    <3>4. QED
      BY <1>4, <2>2, <3>1, <3>2, <3>3 DEF DrainInv
  <2>3. j # i => mgr'[j] = mgr[j]
    BY <1>1 DEF ShutdownBegin, ShutdownStep, ShutdownWrite, ShutdownUnlock, ShutdownCancel,
       ShutdownJoin, ShutdownFault, CloseLoop, Crash, Restart, Turn
  <2>4. QED
    BY <2>1, <2>2, <2>3
<1>5. QED
  BY <1>2, <1>3, <1>4 DEF DrainInv, Drained

LEMMA DrainSubmit ==
    ASSUME TypeInv, DrainInv, NEW r \in Requests, NEW i \in Instances, NEW o \in Ops,
           NEW f \in BOOLEAN, Submit(r, i, o, f)
    PROVE  DrainInv'
<1>1. req \in [Requests -> RequestType] /\ req[r] \in RequestType
  BY DEF TypeInv, TypeOK
<1>2. PICK p \in {"refused", "find"} :
         req' = [req EXCEPT ![r] = [req[r] EXCEPT !.pc = p, !.inst = i, !.op = o, !.force = f]]
  BY DEF Submit
<1>3. req'[r] = [req[r] EXCEPT !.pc = p, !.inst = i, !.op = o, !.force = f]
      /\ \A s \in Requests : s # r => req'[s] = req[s]
  BY <1>1, <1>2
<1>4. req'[r].inst = i
  BY <1>1, <1>3 DEF RequestType
<1>5. UNCHANGED mgr /\ mgr[i].shut = "up"
  BY DEF Submit
<1>6. ASSUME NEW j \in Instances, mgr[j].shut # "up", NEW s \in Requests, req'[s].inst = j
      PROVE  req'[s].pc \notin Submitting
  <2>1. s # r
    BY <1>4, <1>5, <1>6
  <2>2. QED
    BY <1>3, <1>6, <2>1 DEF DrainInv, Drained
<1>7. QED
  BY <1>5, <1>6 DEF DrainInv, Drained

LEMMA DrainStep == TypeInv /\ DrainInv /\ [Next]_vars => DrainInv'
<1>1. SUFFICES ASSUME TypeInv, DrainInv, [Next]_vars PROVE DrainInv'
  OBVIOUS
<1>2. CASE UNCHANGED <<req, mgr>>
  BY <1>1, <1>2 DEF DrainInv, Drained
<1>3. ASSUME NEW r \in Requests, SubmitStep(r) PROVE DrainInv'
  BY <1>1, <1>3, DrainSubmitStep
<1>4. ASSUME NEW r \in Requests, RunStep(r) PROVE DrainInv'
  BY <1>1, <1>4, DrainRunStep
<1>5. ASSUME NEW r \in Requests, NEW i \in Instances, NEW o \in Ops, NEW f \in BOOLEAN,
             Submit(r, i, o, f)
      PROVE  DrainInv'
  BY <1>1, <1>5, DrainSubmit
<1>6. ASSUME NEW i \in Instances,
             ShutdownBegin(i) \/ ShutdownStep(i) \/ Crash(i) \/ Restart(i)
      PROVE  DrainInv'
  BY <1>1, <1>6, DrainInstance
<1>7. ExpireLeaked \/ ExpireHeld \/ UNCHANGED vars => UNCHANGED <<req, mgr>>
  BY DEF ExpireLeaked, ExpireHeld, vars
<1>8. QED
  BY <1>1, <1>2, <1>3, <1>4, <1>5, <1>6, <1>7 DEF Next

----------------------------------------------------------------------------
(* Checkpoints.  CheckpointSound is not inductive: the row is written from *)
(* TaskStates and from the snapshot of a shutdown, so those must be behind *)
(* the committed pages as well, and so must the page a run is at.          *)

RowSound(t) ==
    /\ 1..row[t].chunks \subseteq written[t]
    /\ row[t].status = "COMPLETED" => written[t] = 1..NPages

StateSound(r) ==
    /\ req[r].pc \in {"idle", "find"} => req[r].chunks = 0
    /\ req[r].task # None => 1..req[r].chunks \subseteq written[req[r].task]
    /\ req[r].pc \in Running => 1..req[r].at \subseteq written[req[r].task]
    /\ req[r].pc \in {"swap", "finish"} => written[req[r].task] = 1..NPages

SnapSound(i) ==
    mgr[i].shut = "write" => 1..mgr[i].snap \subseteq written[req[mgr[i].state].task]

CheckpointInv ==
    /\ \A t \in Requests : RowSound(t)
    /\ \A r \in Requests : StateSound(r)
    /\ \A i \in Instances : SnapSound(i)

(* r keeps its task and its place among the pages in this step. *)
Kept(r) == /\ req'[r].task = req[r].task
           /\ req'[r].chunks = req[r].chunks /\ req'[r].at = req[r].at
(* i has no new snapshot in this step. *)
NoSnap(i) == mgr'[i].shut = "write" =>
                /\ mgr[i].shut = "write" /\ mgr'[i].snap = mgr[i].snap
                /\ mgr'[i].state = mgr[i].state

LEMMA CheckpointInit == Init => CheckpointInv
<1>1. SUFFICES ASSUME Init PROVE CheckpointInv
  OBVIOUS
<1>2. 1..0 = {}
  OBVIOUS
<1>3. \A t \in Requests : RowSound(t)
  BY <1>1, <1>2 DEF Init, RowSound
<1>4. \A r \in Requests : StateSound(r)
  BY <1>1, <1>2 DEF Init, StateSound, Idle, Running
<1>5. \A i \in Instances : SnapSound(i)
  BY <1>1 DEF Init, SnapSound, NewProcess
<1>6. QED
  BY <1>3, <1>4, <1>5 DEF CheckpointInv

LEMMA GotoKeeps ==
    ASSUME TypeInv, NEW r \in Requests, NEW p \in PCs, Goto(r, p)
    PROVE  /\ req'[r].pc = p
           /\ \A s \in Requests : Kept(s) /\ (s # r => req'[s].pc = req[s].pc)
<1>1. req[r] \in RequestType
  BY DEF TypeInv, TypeOK
<1>2. req'[r] = [req[r] EXCEPT !.pc = p] /\ \A s \in Requests : s # r => req'[s] = req[s]
  BY GotoReq DEF TypeInv, TypeOK
<1>3. req'[r].pc = p /\ Kept(r)
  BY <1>1, <1>2 DEF RequestType, Kept
<1>4. QED
  BY <1>2, <1>3 DEF Kept

LEMMA SettleKeeps ==
    ASSUME TypeInv, NEW r \in Requests, NEW p \in PCs, NEW st \in Statuses, Settle(r, p, st)
    PROVE  /\ req'[r].pc = p
           /\ \A s \in Requests : Kept(s) /\ (s # r => req'[s].pc = req[s].pc)
<1>1. req \in [Requests -> RequestType] /\ req[r] \in RequestType
  BY DEF TypeInv, TypeOK
<1>2. req'[r] = [req[r] EXCEPT !.pc = p, !.status = st]
  BY <1>1 DEF Settle
<1>3. \A s \in Requests : s # r => req'[s] = req[s]
  BY <1>1 DEF Settle
<1>4. req'[r].pc = p /\ Kept(r)
  BY <1>1, <1>2 DEF RequestType, Kept
<1>5. QED
  BY <1>3, <1>4 DEF Kept

(* A step that only moves coroutines, and lets none reach the end of the   *)
(* pages, keeps the checkpoints.                                           *)
LEMMA MoveKeepsStates ==
    ASSUME CheckpointInv, UNCHANGED written,
           \A r \in Requests :
              /\ Kept(r)
              /\ req'[r].pc \in {"idle", "find"} => req[r].pc \in {"idle", "find"}
              /\ req'[r].pc \in Running => req[r].pc \in Running
              /\ req'[r].pc \in {"swap", "finish"} => written[req[r].task] = 1..NPages
    PROVE  \A r \in Requests : StateSound(r)'
BY DEF CheckpointInv, StateSound, Kept

LEMMA MoveKeepsSnaps ==
    ASSUME TypeInv, CheckpointInv, UNCHANGED written,
           \A r \in Requests : Kept(r),
           \A i \in Instances : NoSnap(i)
    PROVE  \A i \in Instances : SnapSound(i)'
<1>1. ASSUME NEW i \in Instances, mgr'[i].shut = "write"
      PROVE  1..mgr'[i].snap \subseteq written'[req'[mgr'[i].state].task]
  <2>1. /\ mgr[i].shut = "write" /\ mgr'[i].snap = mgr[i].snap
        /\ mgr'[i].state = mgr[i].state
    BY <1>1 DEF NoSnap
  <2>2. mgr[i].state \in Requests
    BY <1>1, <2>1 DEF TypeInv, TypeOK, Current, ManagerType
  <2>3. QED
    BY <1>1, <2>1, <2>2 DEF CheckpointInv, SnapSound, Kept
<1>2. QED
  BY <1>1 DEF SnapSound

LEMMA MoveKeepsCheckpoints ==
    ASSUME TypeInv, CheckpointInv, UNCHANGED <<row, written>>,
           \A r \in Requests :
              /\ Kept(r)
              /\ req'[r].pc \in {"idle", "find"} => req[r].pc \in {"idle", "find"}
              /\ req'[r].pc \in Running => req[r].pc \in Running
              /\ req'[r].pc \in {"swap", "finish"} => written[req[r].task] = 1..NPages,
           \A i \in Instances : NoSnap(i)
    PROVE  CheckpointInv'
<1>1. \A t \in Requests : RowSound(t)'
  BY DEF CheckpointInv, RowSound
<1>2. QED
  BY <1>1, MoveKeepsStates, MoveKeepsSnaps DEF CheckpointInv

LEMMA GotoKeepsStates ==
    ASSUME TypeInv, CheckpointInv, UNCHANGED written,
           NEW r \in Requests, NEW p \in PCs,
           Goto(r, p) \/ \E st \in Statuses : Settle(r, p, st),
           p \notin {"idle", "find"},
           p \in Running => req[r].pc \in Running,
           p \in {"swap", "finish"} => written[req[r].task] = 1..NPages,
           \A i \in Instances : NoSnap(i)
    PROVE  /\ \A s \in Requests : StateSound(s)'
           /\ \A i \in Instances : SnapSound(i)'
<1>1. /\ req'[r].pc = p
      /\ \A s \in Requests : Kept(s) /\ (s # r => req'[s].pc = req[s].pc)
  BY GotoKeeps, SettleKeeps
<1>2. ASSUME NEW s \in Requests
      PROVE  /\ Kept(s)
             /\ req'[s].pc \in {"idle", "find"} => req[s].pc \in {"idle", "find"}
             /\ req'[s].pc \in Running => req[s].pc \in Running
             /\ req'[s].pc \in {"swap", "finish"} => written[req[s].task] = 1..NPages
  <2>1. CASE s = r
    BY <1>1, <2>1
  <2>2. CASE s # r
    BY <1>1, <2>2 DEF CheckpointInv, StateSound
  <2>3. QED
    BY <2>1, <2>2
<1>3. QED
  BY <1>2, MoveKeepsStates, MoveKeepsSnaps

LEMMA RunGotoKeepsCheckpoints ==
    ASSUME TypeInv, CheckpointInv, UNCHANGED <<row, written>>,
           NEW r \in Requests, NEW p \in PCs,
           Goto(r, p) \/ \E st \in Statuses : Settle(r, p, st),
           p \notin {"idle", "find"},
           p \in Running => req[r].pc \in Running,
           p \in {"swap", "finish"} => written[req[r].task] = 1..NPages,
           \A i \in Instances : NoSnap(i)
    PROVE  CheckpointInv'
<1>1. \A t \in Requests : RowSound(t)'
  BY DEF CheckpointInv, RowSound
<1>2. QED
  BY <1>1, GotoKeepsStates DEF CheckpointInv

(* The actions of a request. *)

LEMMA CheckpointSubmit ==
    ASSUME TypeInv, CheckpointInv, NEW r \in Requests, NEW i \in Instances,
           NEW o \in Ops, NEW f \in BOOLEAN, Submit(r, i, o, f)
    PROVE  CheckpointInv'
<1>1. PICK p \in {"refused", "find"} :
         req' = [req EXCEPT ![r] = [req[r] EXCEPT !.pc = p, !.inst = i, !.op = o, !.force = f]]
  BY DEF Submit
<1>2. req \in [Requests -> RequestType] /\ req[r] \in RequestType
  BY DEF TypeInv, TypeOK
<1>3. req'[r] = [req[r] EXCEPT !.pc = p, !.inst = i, !.op = o, !.force = f]
      /\ \A s \in Requests : s # r => req'[s] = req[s]
  BY <1>1, <1>2
<1>4. Kept(r) /\ req'[r].pc = p /\ req[r].pc = "idle"
  BY <1>2, <1>3 DEF RequestType, Kept, Submit
<1>5. ASSUME NEW s \in Requests
      PROVE  /\ Kept(s)
             /\ req'[s].pc \in {"idle", "find"} => req[s].pc \in {"idle", "find"}
             /\ req'[s].pc \in Running => req[s].pc \in Running
             /\ req'[s].pc \in {"swap", "finish"} => written[req[s].task] = 1..NPages
  <2>1. CASE s = r
    BY <1>4, <2>1 DEF Running
  <2>2. CASE s # r
    BY <1>3, <2>2 DEF CheckpointInv, StateSound, Kept
  <2>3. QED
    BY <2>1, <2>2
<1>6. QED
  BY <1>5, MoveKeepsCheckpoints DEF Submit, NoSnap

LEMMA CheckpointFind ==
    ASSUME TypeInv, CheckpointInv, NEW r \in Requests, Find(r)
    PROVE  CheckpointInv'
<1>1. PICK q \in RequestType : FindResult(r, q) /\ req' = [req EXCEPT ![r] = q]
  BY FindReq
<1>2. /\ req'[r] = q
      /\ \A s \in Requests : s # r => req'[s] = req[s]
  BY <1>1, ReqUpdate DEF TypeInv, TypeOK
<1>3. 1..q.chunks \subseteq written[q.task]
  <2>1. req[r].chunks = 0
    BY DEF CheckpointInv, StateSound, Find
  <2>2. CASE q.chunks = req[r].chunks
    <3>1. q.chunks = 0
      BY <2>1, <2>2
    <3>2. 1..0 = {}
      OBVIOUS
    <3>3. QED
      BY <3>1, <3>2
  <2>3. CASE q.chunks = row[q.task].chunks
    <3>1. q.task \in Requests
      BY <1>1 DEF FindResult
    <3>2. QED
      BY <2>3, <3>1 DEF CheckpointInv, RowSound
  <2>4. QED
    BY <1>1, <2>2, <2>3 DEF FindResult
<1>4. UNCHANGED <<row, written, mgr>>
  BY DEF Find
<1>5. ASSUME NEW s \in Requests PROVE StateSound(s)'
  <2>1. CASE s = r
    BY <1>1, <1>2, <1>3, <1>4, <2>1 DEF StateSound, FindResult, Running
  <2>2. CASE s # r
    BY <1>2, <1>4, <2>2 DEF StateSound, CheckpointInv
  <2>3. QED
    BY <2>1, <2>2
<1>6. ASSUME NEW i \in Instances, mgr[i].shut = "write"
      PROVE  1..mgr[i].snap \subseteq written[req'[mgr[i].state].task]
  <2>1. mgr[i].state \in Requests /\ mgr[i].state # r
    BY <1>6 DEF TypeInv, TypeOK, Current, ManagerType, Find, Running, Ended
  <2>2. QED
    BY <1>2, <1>6, <2>1 DEF CheckpointInv, SnapSound
<1>7. QED
  BY <1>4, <1>5, <1>6 DEF CheckpointInv, RowSound, SnapSound

LEMMA CheckpointAcquire ==
    ASSUME TypeInv, CheckpointInv, NEW r \in Requests, Acquire(r)
    PROVE  CheckpointInv'
<1>1. PICK p \in {"markRunning", "insert", "refused"} : Goto(r, p)
  BY DEF Acquire
<1>2. p \in PCs /\ p \notin {"idle", "find"} \cup Running
  BY DEF PCs, Live, Submitting, Ended, Running
<1>3. QED
  BY <1>1, <1>2, RunGotoKeepsCheckpoints DEF Acquire, NoSnap, Running

LEMMA CheckpointSubmitFault ==
    ASSUME TypeInv, CheckpointInv, NEW r \in Requests, SubmitFault(r)
    PROVE  CheckpointInv'
<1>1. PICK p \in {"undo", "error"} : Goto(r, p)
  BY DEF SubmitFault
<1>2. p \in PCs /\ p \notin {"idle", "find"} \cup Running
  BY DEF PCs, Live, Submitting, Ended, Running
<1>3. QED
  BY <1>1, <1>2, RunGotoKeepsCheckpoints DEF SubmitFault, NoSnap, Running

LEMMA CheckpointUndoLock ==
    ASSUME TypeInv, CheckpointInv, NEW r \in Requests, UndoLock(r)
    PROVE  CheckpointInv'
<1>1. "error" \in PCs /\ "error" \notin {"idle", "find"} \cup Running
  BY DEF PCs, Ended, Running
<1>2. QED
  BY <1>1, RunGotoKeepsCheckpoints DEF UndoLock, NoSnap, Running

(* A write to a row keeps the others; the written one gets a checkpoint    *)
(* that is behind the pages.                                               *)
LEMMA RowWrite ==
    ASSUME CheckpointInv, NEW t \in Requests, UNCHANGED written,
           \A u \in Requests : u # t => row'[u] = row[u],
           1..row'[t].chunks \subseteq written[t],
           row'[t].status = "COMPLETED" => written[t] = 1..NPages
    PROVE  \A u \in Requests : RowSound(u)'
BY DEF CheckpointInv, RowSound

LEMMA StatusWrite ==
    ASSUME TypeInv, CheckpointInv, NEW t \in Requests, NEW st \in RowStatuses,
           st # "COMPLETED", UpdateStatus(t, st), UNCHANGED written
    PROVE  \A u \in Requests : RowSound(u)'
<1>1. row \in [Requests -> RowType]
  BY DEF TypeInv, TypeOK, RowType
<1>2. QED
  BY <1>1, StatusRow, RowWrite DEF CheckpointInv, RowSound

LEMMA TaskWrite ==
    ASSUME TypeInv, CheckpointInv, NEW t \in Requests, NEW st \in RowStatuses,
           NEW c \in 0..NPages, UpdateTask(t, st, c), UNCHANGED written,
           1..c \subseteq written[t],
           st = "COMPLETED" => written[t] = 1..NPages
    PROVE  \A u \in Requests : RowSound(u)'
<1>1. row \in [Requests -> RowType]
  BY DEF TypeInv, TypeOK, RowType
<1>2. QED
  BY <1>1, TaskRow, RowWrite

(* StartRun sets out from the checkpoint the TaskState was given. *)
LEMMA CheckpointStartRun ==
    ASSUME TypeInv, DrainInv, CheckpointInv, NEW r \in Requests, UNCHANGED written,
           req[r].pc \in {"markRunning", "insert"}, StartRun(r)
    PROVE  /\ \A s \in Requests : StateSound(s)'
           /\ \A i \in Instances : SnapSound(i)'
<1> DEFINE home == req[r].inst
<1>1. /\ req \in [Requests -> RequestType] /\ req[r] \in RequestType
      /\ req[r].task \in Requests /\ home \in Instances
  BY DEF TypeInv, TypeOK, Placed, Ended
<1>2. PICK p \in {"open", "prepare"} :
        req' = [req EXCEPT ![r] =
                  [req[r] EXCEPT !.pc = p, !.status = "RUNNING", !.at = req[r].chunks]]
  BY DEF StartRun
<1>3. /\ req'[r] = [req[r] EXCEPT !.pc = p, !.status = "RUNNING", !.at = req[r].chunks]
      /\ \A s \in Requests : s # r => req'[s] = req[s]
  BY <1>1, <1>2
<1>4. /\ req'[r].pc = p /\ req'[r].task = req[r].task
      /\ req'[r].chunks = req[r].chunks /\ req'[r].at = req[r].chunks
  BY <1>1, <1>3 DEF RequestType
<1>5. ASSUME NEW s \in Requests PROVE StateSound(s)'
  <2>1. CASE s = r
    BY <1>1, <1>4, <2>1, NoneAssumption DEF StateSound, CheckpointInv
  <2>2. CASE s # r
    BY <1>3, <2>2 DEF StateSound, CheckpointInv
  <2>3. QED
    BY <2>1, <2>2
<1>6. ASSUME NEW i \in Instances PROVE SnapSound(i)'
  <2>1. mgr[i] \in ManagerType
    BY DEF TypeInv, TypeOK
  <2>2. CASE i = home /\ mgr'[i] = [mgr[i] EXCEPT !.state = r, !.bg = r]
    <3>1. mgr'[i].shut = mgr[i].shut /\ mgr'[i].snap = mgr[i].snap /\ mgr'[i].state = r
      BY <2>1, <2>2 DEF ManagerType
    <3>2. mgr[i].shut # "write"
      BY <2>2 DEF DrainInv, Drained, Submitting
    <3>3. QED
      BY <3>1, <3>2 DEF SnapSound
  <2>3. CASE mgr'[i] = mgr[i]
    <3>1. mgr[i].state # r
      BY NoneAssumption DEF TypeInv, Current, Running, Ended
    <3>2. mgr[i].state \in Requests \cup {None}
      BY <2>1 DEF ManagerType
    <3>3. mgr[i].shut = "write" => mgr[i].state # None
      BY DEF TypeInv, Current
    <3>4. QED
      BY <1>3, <2>3, <3>1, <3>2, <3>3 DEF SnapSound, CheckpointInv
  <2>4. QED
    BY <1>1, <2>2, <2>3 DEF StartRun, TypeInv, TypeOK
<1>7. QED
  BY <1>5, <1>6

LEMMA CheckpointMarkRunning ==
    ASSUME TypeInv, DrainInv, CheckpointInv, NEW r \in Requests, MarkRunning(r)
    PROVE  CheckpointInv'
<1>1. req[r].task \in Requests /\ "RUNNING" \in RowStatuses
  BY DEF MarkRunning, TypeInv, Placed, Ended, RowStatuses, Statuses
<1>2. \A t \in Requests : RowSound(t)'
  BY <1>1, StatusWrite DEF MarkRunning
<1>3. QED
  BY <1>2, CheckpointStartRun DEF MarkRunning, CheckpointInv

LEMMA CheckpointInsertTask ==
    ASSUME TypeInv, DrainInv, CheckpointInv, NEW r \in Requests, InsertTask(r)
    PROVE  CheckpointInv'
<1>1. row'[r] = [status |-> "RUNNING", op |-> req[r].op, chunks |-> 0]
      /\ \A u \in Requests : u # r => row'[u] = row[u]
  BY DEF InsertTask, TypeInv, TypeOK
<1>2. 1..0 = {}
  OBVIOUS
<1>3. \A t \in Requests : RowSound(t)'
  BY <1>1, <1>2, RowWrite DEF InsertTask
<1>4. QED
  BY <1>3, CheckpointStartRun DEF InsertTask, CheckpointInv

LEMMA CheckpointCancelOld ==
    ASSUME TypeInv, CheckpointInv, NEW r \in Requests, CancelOld(r)
    PROVE  CheckpointInv'
<1>1. req[r].found \in Requests /\ "CANCELLED" \in RowStatuses /\ "lockNew" \in PCs
  BY DEF CancelOld, TypeInv, Placed, RowStatuses, PCs, Live, Submitting, Locking
<1>2. \A t \in Requests : RowSound(t)'
  BY <1>1, StatusWrite DEF CancelOld
<1>3. "lockNew" \notin Running
  BY DEF Running
<1>4. QED
  BY <1>1, <1>2, <1>3, GotoKeepsStates DEF CancelOld, NoSnap, CheckpointInv

(* The actions of a run. *)

LEMMA CheckpointPrepare ==
    ASSUME TypeInv, CheckpointInv, NEW r \in Requests, Prepare(r)
    PROVE  CheckpointInv'
<1>1. PICK start \in {0, req[r].at} :
        req' = [req EXCEPT ![r] = [req[r] EXCEPT !.pc = "open", !.at = start]]
  BY DEF Prepare
<1>2. req \in [Requests -> RequestType] /\ req[r] \in RequestType
  BY DEF TypeInv, TypeOK
<1>3. req'[r] = [req[r] EXCEPT !.pc = "open", !.at = start]
      /\ \A s \in Requests : s # r => req'[s] = req[s]
  BY <1>1, <1>2
<1>4. /\ req'[r].pc = "open" /\ req'[r].task = req[r].task
      /\ req'[r].chunks = req[r].chunks /\ req'[r].at = start
  BY <1>2, <1>3 DEF RequestType
<1>5. 1..start \subseteq written[req[r].task]
  <2>1. 1..0 = {}
    OBVIOUS
  <2>2. 1..req[r].at \subseteq written[req[r].task]
    BY DEF CheckpointInv, StateSound, Prepare, Running
  <2>3. QED
    BY <2>1, <2>2
<1>6. UNCHANGED <<row, written, mgr>>
  BY DEF Prepare
<1>7. ASSUME NEW s \in Requests PROVE StateSound(s)'
  <2>1. CASE s = r
    BY <1>4, <1>5, <1>6, <2>1 DEF StateSound, CheckpointInv
  <2>2. CASE s # r
    BY <1>3, <1>6, <2>2 DEF StateSound, CheckpointInv
  <2>3. QED
    BY <2>1, <2>2
<1>8. \A i \in Instances : SnapSound(i)'
  <2>1. \A s \in Requests : req'[s].task = req[s].task
    BY <1>3, <1>4
  <2>2. QED
    BY <1>6, <2>1 DEF SnapSound, CheckpointInv, TypeInv, TypeOK, Current, ManagerType
<1>9. QED
  BY <1>6, <1>7, <1>8 DEF CheckpointInv, RowSound

(* The committed pages of a task only grow, and a run adds the page after  *)
(* the ones it has behind it.                                              *)
LEMMA CheckpointCommitPage ==
    ASSUME TypeInv, CheckpointInv, NEW r \in Requests, CommitPage(r)
    PROVE  CheckpointInv'
<1> DEFINE page == req[r].at + 1
           t == req[r].task
<1>1. /\ req \in [Requests -> RequestType] /\ req[r] \in RequestType
      /\ written \in [Requests -> SUBSET (1..NPages)]
  BY DEF TypeInv, TypeOK
<1>2. /\ t \in Requests /\ page \in 1..NPages /\ req[r].at \in Nat
      /\ 1..req[r].at \subseteq written[t]
  BY RunHasTask, PagesAssumption DEF CommitPage, Running, CheckpointInv, StateSound
<1>3. 1..page \subseteq written[t] \cup {page}
  BY <1>2
<1>4. /\ req' = [req EXCEPT ![r] =
                     [req[r] EXCEPT !.pc = "report", !.at = page, !.chunks = page]]
      /\ written' = [written EXCEPT ![t] = written[t] \cup {page}]
      /\ UNCHANGED <<row, mgr>>
  BY DEF CommitPage
<1> HIDE DEF page
<1>5. /\ written'[t] = written[t] \cup {page}
      /\ \A u \in Requests : written[u] \subseteq written'[u]
      /\ \A u \in Requests : written'[u] \subseteq 1..NPages
  <2> HIDE DEF t
  <2>1. QED
    BY <1>1, <1>2, <1>4
<1>6. req'[r] = [req[r] EXCEPT !.pc = "report", !.at = page, !.chunks = page]
      /\ \A s \in Requests : s # r => req'[s] = req[s]
  BY <1>1, <1>4
<1>7. /\ req'[r].pc = "report" /\ req'[r].task = t
      /\ req'[r].chunks = page /\ req'[r].at = page
  BY <1>1, <1>6 DEF RequestType
<1>8. ASSUME NEW u \in Requests, written[u] = 1..NPages PROVE written'[u] = 1..NPages
  BY <1>5, <1>8
<1>9. ASSUME NEW u \in Requests PROVE RowSound(u)'
  BY <1>4, <1>5, <1>8 DEF RowSound, CheckpointInv
<1>10. ASSUME NEW s \in Requests PROVE StateSound(s)'
  <2>1. CASE s = r
    BY <1>3, <1>5, <1>7, <2>1 DEF StateSound
  <2>2. CASE s # r
    <3>1. req[s].task \in Requests \cup {None}
          /\ (req[s].pc \in Running => req[s].task \in Requests)
      BY RunHasTask DEF TypeInv, TypeOK, RequestType
    <3>2. {"swap", "finish"} \subseteq Running
      BY DEF Running
    <3>3. QED
      BY <1>5, <1>6, <1>8, <2>2, <3>1, <3>2 DEF StateSound, CheckpointInv
  <2>3. QED
    BY <2>1, <2>2
<1>11. ASSUME NEW i \in Instances, mgr[i].shut = "write"
       PROVE  1..mgr[i].snap \subseteq written'[req'[mgr[i].state].task]
  <2>1. mgr[i].state \in Requests
    BY <1>11 DEF TypeInv, TypeOK, Current, ManagerType
  <2>2. req'[mgr[i].state].task = req[mgr[i].state].task
    BY <1>6, <1>7, <2>1
  <2>3. req[mgr[i].state].task \in Requests
    BY <1>11 DEF TypeInv, Current
  <2>4. QED
    BY <1>5, <1>11, <2>2, <2>3 DEF CheckpointInv, SnapSound
<1>12. QED
  BY <1>4, <1>9, <1>10, <1>11 DEF CheckpointInv, SnapSound

LEMMA CheckpointEmptyPage ==
    ASSUME TypeInv, CheckpointInv, NEW r \in Requests, EmptyPage(r)
    PROVE  CheckpointInv'
<1>1. /\ req \in [Requests -> RequestType] /\ req[r] \in RequestType
      /\ req[r].task \in Requests
  BY RunHasTask DEF TypeInv, TypeOK, EmptyPage, Running
<1>2. req' = [req EXCEPT ![r] = [req[r] EXCEPT !.pc = "report", !.chunks = NPages]]
  BY DEF EmptyPage
<1>3. req'[r] = [req[r] EXCEPT !.pc = "report", !.chunks = NPages]
      /\ \A s \in Requests : s # r => req'[s] = req[s]
  BY <1>1, <1>2
<1>4. /\ req'[r].pc = "report" /\ req'[r].task = req[r].task
      /\ req'[r].chunks = NPages /\ req'[r].at = req[r].at
  BY <1>1, <1>3 DEF RequestType
<1>5. 1..req[r].at \subseteq written[req[r].task] /\ req[r].at = NPages
  BY DEF EmptyPage, CheckpointInv, StateSound, Running
<1>6. UNCHANGED <<row, written, mgr>>
  BY DEF EmptyPage
<1>7. ASSUME NEW s \in Requests PROVE StateSound(s)'
  <2>1. CASE s = r
    BY <1>4, <1>5, <1>6, <2>1 DEF StateSound
  <2>2. CASE s # r
    BY <1>3, <1>6, <2>2 DEF StateSound, CheckpointInv
  <2>3. QED
    BY <2>1, <2>2
<1>8. \A i \in Instances : SnapSound(i)'
  <2>1. \A s \in Requests : req'[s].task = req[s].task
    BY <1>3, <1>4
  <2>2. QED
    BY <1>6, <2>1 DEF SnapSound, CheckpointInv, TypeInv, TypeOK, Current, ManagerType
<1>9. QED
  BY <1>6, <1>7, <1>8 DEF CheckpointInv, RowSound

LEMMA CheckpointReportChunk ==
    ASSUME TypeInv, CheckpointInv, NEW r \in Requests, ReportChunk(r)
    PROVE  CheckpointInv'
<1>1. /\ req[r].task \in Requests /\ req[r].chunks \in 0..NPages
      /\ req[r].task # None /\ "RUNNING" \in RowStatuses /\ "page" \in PCs
  BY RunHasTask, NoneAssumption
     DEF ReportChunk, Running, RowStatuses, Statuses, PCs, Live
<1>2. 1..req[r].chunks \subseteq written[req[r].task]
  BY <1>1 DEF CheckpointInv, StateSound
<1>3. \A t \in Requests : RowSound(t)'
  BY <1>1, <1>2, TaskWrite DEF ReportChunk
<1>4. QED
  BY <1>1, <1>3, GotoKeepsStates DEF ReportChunk, NoSnap, CheckpointInv, Running

(* The run that finds no next page has all the pages behind it. *)
LEMMA CheckpointLastPage ==
    ASSUME TypeInv, CheckpointInv, NEW r \in Requests, LastPage(r)
    PROVE  CheckpointInv'
<1>1. written[req[r].task] = 1..NPages
  <2>1. 1..req[r].at \subseteq written[req[r].task] /\ req[r].at = NPages
    BY DEF LastPage, CheckpointInv, StateSound, Running
  <2>2. req[r].task \in Requests
    BY RunHasTask DEF LastPage, Running
  <2>3. QED
    BY <2>1, <2>2 DEF TypeInv, TypeOK
<1>2. PICK p \in {"finish", "swap"} :
        Goto(r, p) \/ \E st \in Statuses : Settle(r, p, st)
  BY DEF LastPage, Statuses
<1>3. p \in PCs /\ p \notin {"idle", "find"}
  BY DEF PCs, Live, Running
<1>4. QED
  BY <1>1, <1>2, <1>3, RunGotoKeepsCheckpoints DEF LastPage, NoSnap, Running

LEMMA CheckpointSwap ==
    ASSUME TypeInv, CheckpointInv, NEW r \in Requests, Swap(r)
    PROVE  CheckpointInv'
<1>1. "finish" \in PCs /\ "COMPLETED" \in Statuses
      /\ written[req[r].task] = 1..NPages
  BY DEF PCs, Live, Running, Statuses, Swap, CheckpointInv, StateSound
<1>2. QED
  BY <1>1, RunGotoKeepsCheckpoints DEF Swap, NoSnap, Running

LEMMA CheckpointWorkFails ==
    ASSUME TypeInv, CheckpointInv, NEW r \in Requests, WorkFails(r)
    PROVE  CheckpointInv'
<1>1. PICK p \in {"interrupt", "fail"} : \E st \in Statuses : Settle(r, p, st)
  BY DEF WorkFails, Statuses
<1>2. p \in PCs /\ p \notin {"idle", "find", "swap", "finish"}
  BY DEF PCs, Live, Running
<1>3. QED
  BY <1>1, <1>2, RunGotoKeepsCheckpoints DEF WorkFails, NoSnap, Running

LEMMA CheckpointFinishTask ==
    ASSUME TypeInv, CheckpointInv, NEW r \in Requests, FinishTask(r)
    PROVE  CheckpointInv'
<1>1. /\ req[r].task \in Requests /\ req[r].chunks \in 0..NPages
      /\ req[r].task # None /\ "COMPLETED" \in RowStatuses /\ "release" \in PCs
  BY RunHasTask, NoneAssumption
     DEF FinishTask, Running, RowStatuses, Statuses, PCs, Live
<1>2. /\ 1..req[r].chunks \subseteq written[req[r].task]
      /\ written[req[r].task] = 1..NPages
  BY <1>1 DEF CheckpointInv, StateSound, FinishTask
<1>3. \A t \in Requests : RowSound(t)'
  BY <1>1, <1>2, TaskWrite DEF FinishTask
<1>4. QED
  BY <1>1, <1>3, GotoKeepsStates DEF FinishTask, NoSnap, CheckpointInv, Running

LEMMA CheckpointRecordFailure ==
    ASSUME TypeInv, CheckpointInv, NEW r \in Requests, RecordFailure(r)
    PROVE  CheckpointInv'
<1>1. /\ req[r].task \in Requests /\ req[r].chunks \in 0..NPages
      /\ req[r].task # None /\ {"INTERRUPTED", "FAILED"} \subseteq RowStatuses
      /\ "release" \in PCs
  BY RunHasTask, NoneAssumption
     DEF RecordFailure, Running, RowStatuses, Statuses, PCs, Live
<1>2. 1..req[r].chunks \subseteq written[req[r].task]
  BY <1>1 DEF CheckpointInv, StateSound
<1>3. \A t \in Requests : RowSound(t)'
  <2>1. CASE UpdateTask(req[r].task, "INTERRUPTED", req[r].chunks)
    BY <1>1, <1>2, <2>1, TaskWrite DEF RecordFailure
  <2>2. CASE UpdateStatus(req[r].task, "FAILED")
    BY <1>1, <2>2, StatusWrite DEF RecordFailure
  <2>3. QED
    BY <2>1, <2>2 DEF RecordFailure
<1>4. QED
  BY <1>1, <1>3, GotoKeepsStates DEF RecordFailure, NoSnap, CheckpointInv, Running

LEMMA CheckpointRunFault ==
    ASSUME TypeInv, CheckpointInv, NEW r \in Requests, RunFault(r)
    PROVE  CheckpointInv'
<1>1. PICK p \in {"fail", "release"} :
        Goto(r, p) \/ \E st \in Statuses : Settle(r, p, st)
  BY DEF RunFault, Statuses
<1>2. p \in PCs /\ p \notin {"idle", "find", "swap", "finish"}
  BY DEF PCs, Live, Running
<1>3. QED
  BY <1>1, <1>2, RunGotoKeepsCheckpoints DEF RunFault, NoSnap, Running

LEMMA CheckpointRelease ==
    ASSUME TypeInv, CheckpointInv, NEW r \in Requests, Release(r) \/ ReleaseFault(r)
    PROVE  CheckpointInv'
<1>1. "done" \in PCs /\ "done" \notin Running
  BY DEF PCs, Ended, Running
<1>2. ASSUME NEW i \in Instances PROVE NoSnap(i)
  <2>1. mgr[i] \in ManagerType /\ mgr \in [Instances -> ManagerType]
    BY DEF TypeInv, TypeOK
  <2>2. mgr'[i] = mgr[i] \/ mgr'[i] = [mgr[i] EXCEPT !.bg = None]
    BY <2>1 DEF Release, ReleaseFault
  <2>3. QED
    BY <2>1, <2>2 DEF NoSnap, ManagerType
<1>3. Goto(r, "done") /\ UNCHANGED <<row, written>>
  BY DEF Release, ReleaseFault
<1>4. QED
  BY <1>1, <1>2, <1>3, RunGotoKeepsCheckpoints

(* Shutdown and environment. *)

(* The snapshot is taken from the TaskState, which is behind the pages. *)
LEMMA CheckpointShutdownBegin ==
    ASSUME TypeInv, CheckpointInv, NEW i \in Instances, ShutdownBegin(i)
    PROVE  CheckpointInv'
<1> DEFINE s == mgr[i].state
           m == [mgr[i] EXCEPT !.shut = "write", !.snap = req[s].chunks]
<1>1. /\ req \in [Requests -> RequestType] /\ mgr \in [Instances -> ManagerType]
      /\ mgr[i] \in ManagerType
  BY DEF TypeInv, TypeOK
<1>2. CASE Turn(i, "stopped") /\ UNCHANGED req
  <2>1. \A r \in Requests : Kept(r) /\ req'[r].pc = req[r].pc
    BY <1>2 DEF Kept
  <2>2. \A j \in Instances : NoSnap(j)
    BY <1>1, <1>2, TurnMgr DEF NoSnap, Shuts
  <2>3. QED
    BY <2>1, <2>2, MoveKeepsCheckpoints DEF ShutdownBegin, CheckpointInv, StateSound
<1>3. CASE /\ s # None /\ mgr' = [mgr EXCEPT ![i] = m]
           /\ req' = [req EXCEPT ![s] = [req[s] EXCEPT !.status = "INTERRUPTED"]]
  <2>1. s \in Requests /\ req[s] \in RequestType /\ req[s].task \in Requests
    BY <1>1, <1>3 DEF ManagerType, TypeInv, Current
  <2>2. ASSUME NEW r \in Requests
        PROVE  Kept(r) /\ req'[r].pc = req[r].pc
    <3>1. req'[r] = req[r] \/ req'[r] = [req[r] EXCEPT !.status = "INTERRUPTED"]
      BY <1>1, <1>3
    <3>2. req[r] \in RequestType
      BY <1>1
    <3>3. QED
      BY <3>1, <3>2 DEF RequestType, Kept
  <2>3. \A r \in Requests : StateSound(r)'
    BY <2>2, MoveKeepsStates DEF ShutdownBegin, CheckpointInv, StateSound
  <2>4. /\ mgr'[i].shut = "write" /\ mgr'[i].state = s /\ mgr'[i].snap = req[s].chunks
    <3>1. mgr'[i] = m
      <4> HIDE DEF m
      <4>1. QED
        BY <1>1, <1>3
    <3>2. QED
      BY <1>1, <3>1 DEF ManagerType
  <2>5. 1..req[s].chunks \subseteq written[req[s].task]
    BY <2>1, NoneAssumption DEF CheckpointInv, StateSound
  <2>6. ASSUME NEW j \in Instances PROVE SnapSound(j)'
    <3>1. CASE j = i
      BY <2>1, <2>2, <2>4, <2>5, <3>1 DEF SnapSound, Kept, ShutdownBegin
    <3>2. CASE j # i
      <4>1. mgr'[j] = mgr[j]
        BY <1>1, <1>3, <3>2
      <4>2. QED
        BY <2>2, <4>1 DEF SnapSound, CheckpointInv, ShutdownBegin, TypeInv, TypeOK,
           Current, ManagerType, Kept
    <3>3. QED
      BY <3>1, <3>2
  <2>7. QED
    BY <2>3, <2>6 DEF ShutdownBegin, CheckpointInv, RowSound
<1>4. QED
  BY <1>2, <1>3 DEF ShutdownBegin

LEMMA CheckpointShutdownWrite ==
    ASSUME TypeInv, CheckpointInv, NEW i \in Instances, ShutdownWrite(i)
    PROVE  CheckpointInv'
<1> DEFINE t == req[mgr[i].state].task
<1>1. mgr[i].state # None /\ mgr[i].snap \in 0..NPages /\ t \in Requests
      /\ "INTERRUPTED" \in RowStatuses
  BY DEF ShutdownWrite, TypeInv, TypeOK, Current, ManagerType, RowStatuses, Statuses
<1>2. 1..mgr[i].snap \subseteq written[t]
  BY DEF ShutdownWrite, CheckpointInv, SnapSound
<1>3. UpdateTask(t, "INTERRUPTED", mgr[i].snap) /\ UNCHANGED <<req, written>>
  BY DEF ShutdownWrite
<1>4. \A u \in Requests : RowSound(u)'
  <2> HIDE DEF t
  <2>1. QED
    BY <1>1, <1>2, <1>3, TaskWrite
<1>5. \A j \in Instances : NoSnap(j)
  BY TurnMgr DEF ShutdownWrite, NoSnap, TypeInv, TypeOK, Shuts
<1>6. QED
  BY <1>3, <1>4, <1>5, MoveKeepsStates, MoveKeepsSnaps
     DEF CheckpointInv, StateSound, Kept

LEMMA CheckpointInstance ==
    ASSUME TypeInv, CheckpointInv, NEW i \in Instances,
           \/ ShutdownUnlock(i) \/ ShutdownCancel(i) \/ ShutdownJoin(i)
           \/ ShutdownFault(i) \/ CloseLoop(i) \/ Crash(i) \/ Restart(i)
    PROVE  CheckpointInv'
<1>1. /\ req \in [Requests -> RequestType] /\ mgr \in [Instances -> ManagerType]
      /\ \A r \in Requests : req[r] \in RequestType
      /\ mgr[i] \in ManagerType
  BY DEF TypeInv, TypeOK
<1>2. UNCHANGED <<row, written>>
  BY DEF ShutdownUnlock, ShutdownCancel, ShutdownJoin, ShutdownFault, CloseLoop, Crash, Restart
<1>3. ASSUME NEW r \in Requests
      PROVE  \/ req'[r] = req[r] \/ req'[r] = Cancelled(req[r])
             \/ req'[r] = [req[r] EXCEPT !.pc = "crashed"]
  <2>1. ShutdownCancel(i) => req'[r] = req[r] \/ req'[r] = Cancelled(req[r])
    BY <1>1 DEF ShutdownCancel
  <2>2. CloseLoop(i) => req'[r] = req[r] \/ req'[r] = Cancelled(req[r])
    BY DEF CloseLoop
  <2>3. Crash(i) => req'[r] = req[r] \/ req'[r] = [req[r] EXCEPT !.pc = "crashed"]
    BY DEF Crash
  <2>4. QED
    BY <2>1, <2>2, <2>3 DEF ShutdownUnlock, ShutdownJoin, ShutdownFault, Restart
<1>4. ASSUME NEW r \in Requests
      PROVE  Kept(r) /\ (req'[r].pc = req[r].pc \/ req'[r].pc \in {"release", "done", "crashed"})
  <2>1. CASE req'[r] = Cancelled(req[r])
    BY <1>1, <2>1, CancelledReq DEF Kept, RequestType
  <2>2. CASE req'[r] = [req[r] EXCEPT !.pc = "crashed"]
    BY <1>1, <2>2 DEF Kept, RequestType
  <2>3. QED
    BY <1>3, <2>1, <2>2 DEF Kept
<1>5. ASSUME NEW j \in Instances PROVE NoSnap(j)
  <2>1. CASE \E p \in Shuts \ {"write"} : Turn(i, p)
    BY <1>1, <2>1, TurnMgr DEF NoSnap
  <2>2. CASE mgr' = [mgr EXCEPT ![i] = [mgr[i] EXCEPT !.shut = "stopped", !.bg = None]]
    <3>1. [mgr[i] EXCEPT !.shut = "stopped", !.bg = None].shut = "stopped"
      BY <1>1 DEF ManagerType
    <3>2. QED
      BY <1>1, <2>2, <3>1 DEF NoSnap
  <2>3. CASE \/ mgr' = [mgr EXCEPT ![i] = [NewProcess EXCEPT !.shut = "down"]]
             \/ mgr' = [mgr EXCEPT ![i] = NewProcess]
    BY <1>1, <2>3 DEF NoSnap, NewProcess
  <2>4. QED
    BY <2>1, <2>2, <2>3 DEF ShutdownUnlock, ShutdownCancel, ShutdownJoin, ShutdownFault,
       CloseLoop, Crash, Restart, Shuts
<1>6. ASSUME NEW r \in Requests
      PROVE  /\ req'[r].pc \in {"idle", "find"} => req[r].pc \in {"idle", "find"}
             /\ req'[r].pc \in Running => req[r].pc \in Running
             /\ req'[r].pc \in {"swap", "finish"} => written[req[r].task] = 1..NPages
  BY <1>4 DEF Running, CheckpointInv, StateSound
<1>7. QED
  BY <1>2, <1>4, <1>5, <1>6, MoveKeepsCheckpoints

LEMMA CheckpointStep ==
    TypeInv /\ DrainInv /\ CheckpointInv /\ [Next]_vars => CheckpointInv'
<1>1. SUFFICES ASSUME TypeInv, DrainInv, CheckpointInv, [Next]_vars
               PROVE  CheckpointInv'
  OBVIOUS
<1>2. ASSUME NEW r \in Requests, SubmitStep(r) PROVE CheckpointInv'
  BY <1>1, <1>2, CheckpointFind, CheckpointAcquire, CheckpointMarkRunning,
     CheckpointCancelOld, CheckpointInsertTask, CheckpointSubmitFault, CheckpointUndoLock
     DEF SubmitStep
<1>3. ASSUME NEW r \in Requests, RunStep(r) PROVE CheckpointInv'
  BY <1>1, <1>3, CheckpointPrepare, CheckpointCommitPage, CheckpointEmptyPage,
     CheckpointReportChunk, CheckpointLastPage, CheckpointSwap, CheckpointWorkFails,
     CheckpointFinishTask, CheckpointRecordFailure, CheckpointRunFault, CheckpointRelease
     DEF RunStep
<1>4. ASSUME NEW i \in Instances,
             ShutdownBegin(i) \/ ShutdownStep(i) \/ Crash(i) \/ Restart(i)
      PROVE  CheckpointInv'
  BY <1>1, <1>4, CheckpointShutdownBegin, CheckpointShutdownWrite, CheckpointInstance
     DEF ShutdownStep
<1>5. ASSUME NEW r \in Requests, NEW i \in Instances, NEW o \in Ops, NEW f \in BOOLEAN,
             Submit(r, i, o, f)
      PROVE  CheckpointInv'
  BY <1>1, <1>5, CheckpointSubmit
<1>6. CASE ExpireLeaked \/ ExpireHeld \/ UNCHANGED vars
  <2>1. UNCHANGED <<row, written, req, mgr>>
    BY <1>6 DEF ExpireLeaked, ExpireHeld, vars
  <2>2. QED
    BY <1>1, <2>1 DEF CheckpointInv, RowSound, StateSound, SnapSound
<1>7. QED
  BY <1>1, <1>2, <1>3, <1>4, <1>5, <1>6 DEF Next

(* The invariant of every reachable state. *)
LEMMA Invariants == Spec => [](TypeInv /\ DrainInv /\ CheckpointInv)
<1>1. Init => TypeInv /\ DrainInv /\ CheckpointInv
  <2>1. Init => DrainInv
    BY DEF Init, DrainInv, NewProcess
  <2>2. QED
    BY <2>1, TypeInit, CheckpointInit
<1>2. TypeInv /\ DrainInv /\ CheckpointInv /\ [Next]_vars
      => (TypeInv /\ DrainInv /\ CheckpointInv)'
  BY TypeStep, DrainStep, CheckpointStep
<1>3. QED
  BY <1>1, <1>2, PTL DEF Spec

(* No checkpoint in the table ever runs ahead of the committed pages: not  *)
(* after any number of runs, resumptions, shutdowns, crashes, failing      *)
(* statements and lost locks.                                              *)
THEOREM CheckpointsSound == Spec => []CheckpointSound
<1>1. CheckpointInv => CheckpointSound
  BY DEF CheckpointInv, RowSound, CheckpointSound
<1>2. QED
  BY <1>1, Invariants, PTL

(* A task that the table calls COMPLETED has all its pages. *)
THEOREM CompletedSound == Spec => []CompletedMeansAll
<1>1. CheckpointInv => CompletedMeansAll
  BY DEF CheckpointInv, RowSound, CompletedMeansAll
<1>2. QED
  BY <1>1, Invariants, PTL

----------------------------------------------------------------------------
(* Refinement.  A step commits one page, or writes at most one row.        *)

WritesRow(t) ==
    /\ UNCHANGED written
    /\ \A u \in Requests : u # t => row'[u] = row[u]

(* A write leaves what the invariant says of the row in the next state, so *)
(* it is a Save of Checkpoints.                                            *)
LEMMA RowIsSave ==
    ASSUME TypeInv, TypeInv', CheckpointInv', NEW t \in Requests, WritesRow(t)
    PROVE  Checkpointed!Save(t)
<1>1. row \in [Requests -> RowType] /\ row' \in [Requests -> RowType]
  BY DEF TypeInv, TypeOK, RowType
<1> DEFINE c == row'[t].chunks
           d == row'[t].status = "COMPLETED"
<1>2. c \in 0..NPages /\ d \in BOOLEAN
  BY <1>1 DEF RowType
<1>3. 1..c \subseteq written[t] /\ (d => written[t] = 1..NPages)
  BY DEF WritesRow, CheckpointInv, RowSound
<1>4. [u \in Requests |-> row'[u].chunks] =
         [[u \in Requests |-> row[u].chunks] EXCEPT ![t] = c]
  BY DEF WritesRow
<1>5. [u \in Requests |-> row'[u].status = "COMPLETED"] =
         [[u \in Requests |-> row[u].status = "COMPLETED"] EXCEPT ![t] = d]
  BY DEF WritesRow
<1>6. QED
  BY <1>2, <1>3, <1>4, <1>5 DEF Checkpointed!Save, WritesRow

(* Of a run, CommitPage is a Commit: the pages before it are there.        *)
LEMMA PageIsCommit ==
    ASSUME TypeInv, CheckpointInv, NEW r \in Requests, CommitPage(r)
    PROVE  Checkpointed!Commit(req[r].task)
<1> DEFINE t == req[r].task
           page == req[r].at + 1
<1>1. t \in Requests /\ req[r].at \in 0..NPages /\ req[r].pc \in Running
  BY RunHasTask DEF CommitPage, Running
<1>2. page \in 1..NPages /\ page - 1 = req[r].at
  BY <1>1, PagesAssumption DEF CommitPage
<1>3. 1..(page - 1) \subseteq written[t]
  BY <1>1, <1>2 DEF CheckpointInv, StateSound
<1>4. written' = [written EXCEPT ![t] = @ \cup {page}] /\ UNCHANGED row
  BY DEF CommitPage
<1>5. QED
  BY <1>2, <1>3, <1>4 DEF Checkpointed!Commit

LEMMA OtherStepsWriteRows ==
    ASSUME TypeInv, [Next]_vars, \A r \in Requests : ~CommitPage(r)
    PROVE  UNCHANGED <<row, written>> \/ \E t \in Requests : WritesRow(t)
<1>1. row \in [Requests -> RowType]
  BY DEF TypeInv, TypeOK, RowType
<1>2. ASSUME NEW r \in Requests, SubmitStep(r)
      PROVE  UNCHANGED <<row, written>> \/ \E t \in Requests : WritesRow(t)
  <2>1. CASE MarkRunning(r) \/ CancelOld(r) \/ InsertTask(r)
    <3>1. PICK t \in {req[r].task, req[r].found, r} : \E v : row' = [row EXCEPT ![t] = v]
      BY <2>1 DEF MarkRunning, CancelOld, InsertTask, UpdateStatus
    <3>2. PICK v : row' = [row EXCEPT ![t] = v]
      BY <3>1
    <3>3. UNCHANGED written
      BY <2>1 DEF MarkRunning, CancelOld, InsertTask
    <3>4. CASE t \in Requests
      BY <1>1, <3>2, <3>3, <3>4 DEF WritesRow
    <3>5. CASE t \notin Requests
      BY <1>1, <3>2, <3>3, <3>5 DEF WritesRow
    <3>6. QED
      BY <3>4, <3>5
  <2>2. CASE ~(MarkRunning(r) \/ CancelOld(r) \/ InsertTask(r))
    BY <1>2, <2>2 DEF SubmitStep, Find, Acquire, SubmitFault, UndoLock
  <2>3. QED
    BY <2>1, <2>2
<1>3. ASSUME NEW r \in Requests, RunStep(r), ~CommitPage(r)
      PROVE  UNCHANGED <<row, written>> \/ \E t \in Requests : WritesRow(t)
  <2>1. CASE ReportChunk(r) \/ FinishTask(r) \/ RecordFailure(r)
    <3>1. \E v : row' = [row EXCEPT ![req[r].task] = v]
      BY <2>1 DEF ReportChunk, FinishTask, RecordFailure, UpdateTask, UpdateStatus
    <3>2. req[r].task \in Requests /\ UNCHANGED written
      BY <2>1, RunHasTask DEF ReportChunk, FinishTask, RecordFailure, Running
    <3>3. QED
      BY <1>1, <3>1, <3>2 DEF WritesRow
  <2>2. CASE ~(ReportChunk(r) \/ FinishTask(r) \/ RecordFailure(r))
    BY <1>3, <2>2 DEF RunStep, Prepare, EmptyPage, LastPage, Swap, WorkFails, RunFault,
       Release, ReleaseFault
  <2>3. QED
    BY <2>1, <2>2
<1>4. ASSUME NEW i \in Instances, ShutdownWrite(i) PROVE \E t \in Requests : WritesRow(t)
  <2>1. mgr[i].state \in Requests /\ req[mgr[i].state].task \in Requests
    BY <1>4 DEF ShutdownWrite, TypeInv, TypeOK, Current, ManagerType
  <2>2. \E v : row' = [row EXCEPT ![req[mgr[i].state].task] = v]
    BY <1>4 DEF ShutdownWrite, UpdateTask
  <2>3. UNCHANGED written
    BY <1>4 DEF ShutdownWrite
  <2>4. QED
    BY <1>1, <2>1, <2>2, <2>3 DEF WritesRow
<1>5. ASSUME NEW i \in Instances,
             ShutdownBegin(i) \/ ShutdownStep(i) \/ Crash(i) \/ Restart(i)
      PROVE  UNCHANGED <<row, written>> \/ ShutdownWrite(i)
  BY <1>5 DEF ShutdownBegin, ShutdownStep, ShutdownUnlock, ShutdownCancel, ShutdownJoin,
     ShutdownFault, CloseLoop, Crash, Restart
<1>6. ASSUME NEW r \in Requests, NEW i \in Instances, NEW o \in Ops, NEW f \in BOOLEAN,
             Submit(r, i, o, f)
      PROVE  UNCHANGED <<row, written>>
  BY <1>6 DEF Submit
<1>7. ExpireLeaked \/ ExpireHeld \/ UNCHANGED vars => UNCHANGED <<row, written>>
  BY DEF ExpireLeaked, ExpireHeld, vars
<1>8. QED
  BY <1>2, <1>3, <1>4, <1>5, <1>6, <1>7 DEF Next

LEMMA ImplementsStep ==
    ASSUME TypeInv, TypeInv', CheckpointInv, CheckpointInv', [Next]_vars
    PROVE  [Checkpointed!Next]_<<written, [t \in Requests |-> row[t].chunks],
                                 [t \in Requests |-> row[t].status = "COMPLETED"]>>
<1>1. CASE UNCHANGED <<row, written>>
  BY <1>1
<1>2. ASSUME NEW r \in Requests, CommitPage(r) PROVE Checkpointed!Next
  BY <1>2, PageIsCommit, RunHasTask DEF Checkpointed!Next, CommitPage, Running
<1>3. ASSUME NEW t \in Requests, WritesRow(t) PROVE Checkpointed!Next
  BY <1>3, RowIsSave DEF Checkpointed!Next
<1>4. QED
  BY <1>1, <1>2, <1>3, OtherStepsWriteRows

LEMMA ImplementsInit == Init => Checkpointed!Init
<1>1. SUFFICES ASSUME Init PROVE Checkpointed!Init
  OBVIOUS
<1>2. \A t \in Requests : row[t].chunks = 0 /\ row[t].status # "COMPLETED"
  BY <1>1 DEF Init
<1>3. QED
  BY <1>1, <1>2 DEF Init, Checkpointed!Init

(* The task manager, with its lock, its processes, its coroutines and all  *)
(* that can cut them off, implements Checkpoints: pages are committed in   *)
(* order, and every write to a row keeps its promise.                      *)
THEOREM ImplementsCheckpoints == Spec => KeepsCheckpoints
<1>1. TypeInv /\ CheckpointInv /\ TypeInv' /\ CheckpointInv' /\ [Next]_vars
      => [Checkpointed!Next]_<<written, [t \in Requests |-> row[t].chunks],
                               [t \in Requests |-> row[t].status = "COMPLETED"]>>
  BY ImplementsStep
<1>2. QED
  BY <1>1, ImplementsInit, Invariants, PTL DEF Spec, KeepsCheckpoints, Checkpointed!Spec

----------------------------------------------------------------------------
(* What has never happened has not happened before. *)

Counters == {"shutdowns", "crashes", "expiries", "faults"}
UsedGrows == \A c \in Counters : used'[c] = 0 => used[c] = 0

LEMMA CountUp ==
    ASSUME TypeOK, NEW n \in Counters,
           UNCHANGED used \/ used' = [used EXCEPT ![n] = @ + 1]
    PROVE  UsedGrows /\ (used' # used => used'[n] # 0)
<1>1. \A c \in Counters : used[c] \in Nat /\ c \in DOMAIN used
  BY DEF TypeOK, Counters
<1>2. CASE UNCHANGED used
  BY <1>2 DEF UsedGrows
<1>3. CASE used' = [used EXCEPT ![n] = @ + 1]
  <2>1. \A c \in Counters : used'[c] = IF c = n THEN used[c] + 1 ELSE used[c]
    BY <1>1, <1>3
  <2>2. QED
    BY <1>1, <2>1 DEF UsedGrows
<1>4. QED
  BY <1>2, <1>3

LEMMA UsedStep == ASSUME TypeOK, [Next]_vars PROVE UsedGrows
<1> DEFINE Counts(n) == UNCHANGED used \/ used' = [used EXCEPT ![n] = @ + 1]
<1>1. ASSUME NEW r \in Requests, NEW i \in Instances, NEW o \in Ops, NEW f \in BOOLEAN,
             Submit(r, i, o, f)
      PROVE  Counts("faults")
  BY <1>1 DEF Submit
<1>2. ASSUME NEW r \in Requests, SubmitStep(r) PROVE Counts("faults")
  BY <1>2 DEF SubmitStep, Find, Acquire, MarkRunning, CancelOld, InsertTask, SubmitFault,
     UndoLock, Fault
<1>3. ASSUME NEW r \in Requests, RunStep(r) PROVE Counts("faults")
  BY <1>3 DEF RunStep, Prepare, CommitPage, EmptyPage, ReportChunk, LastPage, Swap, WorkFails,
     FinishTask, RecordFailure, RunFault, Release, ReleaseFault, Fault
<1>4. ASSUME NEW i \in Instances, ShutdownStep(i) PROVE Counts("faults")
  BY <1>4 DEF ShutdownStep, ShutdownWrite, ShutdownUnlock, ShutdownCancel, ShutdownJoin,
     ShutdownFault, CloseLoop, Fault
<1>5. ASSUME NEW i \in Instances, ShutdownBegin(i) PROVE Counts("shutdowns")
  BY <1>5 DEF ShutdownBegin
<1>6. ASSUME NEW i \in Instances, Crash(i) \/ Restart(i) PROVE Counts("crashes")
  BY <1>6 DEF Crash, Restart
<1>7. ExpireLeaked \/ ExpireHeld \/ UNCHANGED vars => Counts("expiries")
  BY DEF ExpireLeaked, ExpireHeld, vars
<1>8. \A n \in Counters : Counts(n) => UsedGrows
  BY CountUp
<1>9. QED
  <2> HIDE DEF Counts
  <2>1. QED
    BY <1>1, <1>2, <1>3, <1>4, <1>5, <1>6, <1>7, <1>8 DEF Next, Counters

----------------------------------------------------------------------------
(* Without a shutdown, a process is up or has been killed.                 *)

ShutInv ==
    used.shutdowns = 0 => \A i \in Instances : mgr[i].shut \in {"up", "down"}

(* r is the only request that moves; it stays a run of the same task, or   *)
(* ends.                                                                   *)
RunMoves(r) ==
    /\ req[r].pc \in Running \cup {"release"}
    /\ req'[r].pc \in Running \cup {"release", "done"}
    /\ req'[r].pc \in Running => req[r].pc \in Running
    /\ \A s \in Requests : req'[s].task = req[s].task /\ (s # r => req'[s].pc = req[s].pc)
    /\ \A i \in Instances : mgr'[i].shut = mgr[i].shut

LEMMA RunStepMoves ==
    ASSUME TypeInv, NEW r \in Requests, RunStep(r)
    PROVE  RunMoves(r)
<1>1. /\ req \in [Requests -> RequestType] /\ req[r] \in RequestType
      /\ mgr \in [Instances -> ManagerType]
  BY DEF TypeInv, TypeOK
<1>2. req[r].pc \in Running \cup {"release"}
  BY DEF RunStep, Prepare, CommitPage, EmptyPage, ReportChunk, LastPage, Swap, WorkFails,
     FinishTask, RecordFailure, RunFault, Release, ReleaseFault, Running
<1>3. \A i \in Instances : mgr'[i].shut = mgr[i].shut
  <2>1. CASE Release(r)
    <3>1. ASSUME NEW i \in Instances PROVE mgr'[i].shut = mgr[i].shut
      <4>1. mgr[i] \in ManagerType
        BY <1>1
      <4>2. mgr'[i] = mgr[i] \/ mgr'[i] = [mgr[i] EXCEPT !.bg = None]
        BY <1>1, <2>1 DEF Release
      <4>3. QED
        BY <4>1, <4>2 DEF ManagerType
    <3>2. QED
      BY <3>1
  <2>2. CASE ~Release(r)
    BY <2>2 DEF RunStep, Prepare, CommitPage, EmptyPage, ReportChunk, LastPage, Swap, WorkFails,
       FinishTask, RecordFailure, RunFault, ReleaseFault
  <2>3. QED
    BY <2>1, <2>2
<1>4. CASE Prepare(r) \/ CommitPage(r) \/ EmptyPage(r)
  <2>1. \A s \in Requests : s # r => req'[s] = req[s]
    BY <1>4 DEF Prepare, CommitPage, EmptyPage, TypeInv, TypeOK
  <2>2. \/ \E a : req'[r] = [req[r] EXCEPT !.pc = "open", !.at = a]
        \/ \E a : req'[r] = [req[r] EXCEPT !.pc = "report", !.at = a, !.chunks = a]
        \/ \E c : req'[r] = [req[r] EXCEPT !.pc = "report", !.chunks = c]
    BY <1>1, <1>4 DEF Prepare, CommitPage, EmptyPage
  <2>3. req'[r].pc \in {"open", "report"} /\ req'[r].task = req[r].task
    BY <1>1, <2>2 DEF RequestType
  <2>4. req[r].pc \in Running
    BY <1>4 DEF Prepare, CommitPage, EmptyPage, Running
  <2>5. QED
    BY <1>2, <1>3, <2>1, <2>3, <2>4 DEF RunMoves, Running
<1>5. CASE \E p \in Running \cup {"release", "done"} :
             /\ Goto(r, p) \/ \E st \in Statuses : Settle(r, p, st)
             /\ p \in Running => req[r].pc \in Running
  <2>1. PICK p \in Running \cup {"release", "done"} :
          /\ Goto(r, p) \/ \E st \in Statuses : Settle(r, p, st)
          /\ p \in Running => req[r].pc \in Running
    BY <1>5
  <2>2. p \in PCs
    BY DEF PCs, Live, Ended
  <2>3. /\ req'[r].pc = p
        /\ \A s \in Requests : Kept(s) /\ (s # r => req'[s].pc = req[s].pc)
    BY <2>1, <2>2, GotoKeeps, SettleKeeps
  <2>4. QED
    BY <1>2, <1>3, <2>1, <2>3 DEF RunMoves, Kept
<1>6. ReportChunk(r) \/ FinishTask(r) \/ RecordFailure(r) \/ Release(r) \/ ReleaseFault(r)
      => \E p \in Running \cup {"release", "done"} :
            Goto(r, p) /\ (p \in Running => req[r].pc \in Running)
  BY DEF ReportChunk, FinishTask, RecordFailure, Release, ReleaseFault, Running
<1>7. LastPage(r) \/ Swap(r) \/ WorkFails(r) \/ RunFault(r)
      => \E p \in Running \cup {"release", "done"} :
            /\ Goto(r, p) \/ \E st \in Statuses : Settle(r, p, st)
            /\ p \in Running => req[r].pc \in Running
  BY DEF LastPage, Swap, WorkFails, RunFault, Running, Statuses
<1>8. QED
  BY <1>4, <1>5, <1>6, <1>7 DEF RunStep

(* A request of submit() moves alone; until it locks, no lock is touched.  *)
SubmitMoves(r) ==
    /\ req[r].pc \in {"idle"} \cup Submitting
    /\ \A s \in Requests : s # r => req'[s].task = req[s].task /\ req'[s].pc = req[s].pc
    /\ \A i \in Instances : mgr'[i].shut = mgr[i].shut

LEMMA SubmitStepMoves ==
    ASSUME TypeInv, NEW r \in Requests,
           \/ \E i \in Instances, o \in Ops, f \in BOOLEAN : Submit(r, i, o, f)
           \/ SubmitStep(r)
    PROVE  SubmitMoves(r)
<1>1. /\ req \in [Requests -> RequestType] /\ mgr \in [Instances -> ManagerType]
  BY DEF TypeInv, TypeOK
<1>2. req[r].pc \in {"idle"} \cup Submitting
  BY DEF Submit, SubmitStep, Find, Acquire, MarkRunning, CancelOld, InsertTask, SubmitFault,
     UndoLock, Submitting, Locking
<1>3. ASSUME NEW s \in Requests, s # r PROVE req'[s] = req[s]
  <2>1. CASE SubmitStep(r)
    BY <1>1, <1>3, <2>1 DEF SubmitStep, Find, Acquire, MarkRunning, CancelOld, InsertTask,
       SubmitFault, UndoLock, StartRun, Goto
  <2>2. CASE \E i \in Instances, o \in Ops, f \in BOOLEAN : Submit(r, i, o, f)
    BY <1>1, <1>3, <2>2 DEF Submit
  <2>3. QED
    BY <2>1, <2>2
<1>4. ASSUME NEW i \in Instances PROVE mgr'[i].shut = mgr[i].shut
  <2>1. mgr[i] \in ManagerType
    BY <1>1
  <2>2. mgr'[i] = mgr[i] \/ mgr'[i] = [mgr[i] EXCEPT !.state = r, !.bg = r]
    BY <1>1 DEF Submit, SubmitStep, Find, Acquire, MarkRunning, CancelOld, InsertTask,
       SubmitFault, UndoLock, StartRun
  <2>3. QED
    BY <2>1, <2>2 DEF ManagerType
<1>5. QED
  BY <1>2, <1>3, <1>4 DEF SubmitMoves

LEMMA CrashMoves ==
    ASSUME TypeInv, NEW i \in Instances, Crash(i) \/ Restart(i), NEW r \in Requests
    PROVE  /\ req'[r].task = req[r].task
           /\ req'[r].pc = req[r].pc \/ req'[r].pc = "crashed"
<1>1. req[r] \in RequestType
  BY DEF TypeInv, TypeOK
<1>2. req'[r] = req[r] \/ req'[r] = [req[r] EXCEPT !.pc = "crashed"]
  BY DEF Crash, Restart
<1>3. QED
  BY <1>1, <1>2 DEF RequestType

LEMMA ShutStep ==
    ASSUME TypeInv, ShutInv, [Next]_vars
    PROVE  ShutInv'
<1>1. SUFFICES ASSUME used'.shutdowns = 0, NEW i \in Instances
               PROVE  mgr'[i].shut \in {"up", "down"}
  BY DEF ShutInv
<1>2. used.shutdowns = 0 /\ \A j \in Instances : mgr[j].shut \in {"up", "down"}
  BY <1>1, UsedStep DEF UsedGrows, Counters, TypeInv, ShutInv
<1>3. CASE \A j \in Instances : mgr'[j].shut = mgr[j].shut
  BY <1>2, <1>3
<1>4. ASSUME NEW j \in Instances, ShutdownBegin(j) PROVE FALSE
  <2>1. used' = [used EXCEPT !.shutdowns = @ + 1] /\ used.shutdowns \in Nat
    BY <1>4 DEF ShutdownBegin, TypeInv, TypeOK
  <2>2. used'.shutdowns = used.shutdowns + 1
    BY <2>1 DEF TypeInv, TypeOK
  <2>3. QED
    BY <1>1, <1>2, <2>2
<1>5. ASSUME NEW j \in Instances PROVE ~ShutdownStep(j)
  BY <1>2 DEF ShutdownStep, ShutdownWrite, ShutdownUnlock, ShutdownCancel, ShutdownJoin,
     ShutdownFault, CloseLoop
<1>6. ASSUME NEW j \in Instances, Crash(j) \/ Restart(j) PROVE mgr'[i].shut \in {"up", "down"}
  BY <1>2, <1>6 DEF Crash, Restart, NewProcess, TypeInv, TypeOK
<1>7. ExpireLeaked \/ ExpireHeld \/ UNCHANGED vars => UNCHANGED mgr
  BY DEF ExpireLeaked, ExpireHeld, vars
<1>8. QED
  BY <1>3, <1>4, <1>5, <1>6, <1>7, RunStepMoves, SubmitStepMoves
     DEF Next, RunMoves, SubmitMoves

----------------------------------------------------------------------------
(* Mutual exclusion.  A request between its SET NX and its release is the  *)
(* holder of the lock, so there is only one; that the key holds its task   *)
(* is what makes the next SET NX fail.                                     *)

AtWork(r) == req[r].pc \in Owning => holder = r /\ lock = req[r].task
Guarded == UseRedis /\ used.shutdowns = 0 /\ used.expiries = 0
LockInv == Guarded => \A r \in Requests : AtWork(r)

(* A step that lets nobody in keeps the owner. *)
LEMMA OwnersStay ==
    ASSUME \A r \in Requests : AtWork(r), UNCHANGED <<lock, holder>>,
           \A r \in Requests : req'[r].pc \in Owning =>
               req[r].pc \in Owning /\ req'[r].task = req[r].task
    PROVE  \A r \in Requests : AtWork(r)'
BY DEF AtWork

(* When the owner is out there is none: it was the only holder. *)
LEMMA OwnerLeaves ==
    ASSUME \A s \in Requests : AtWork(s), NEW r \in Requests, req[r].pc \in Owning,
           req'[r].pc \notin Owning,
           \A s \in Requests : s # r => req'[s].pc = req[s].pc
    PROVE  \A s \in Requests : AtWork(s)'
BY DEF AtWork

(* The SET succeeds only when the key is absent, and then nobody owns it.  *)
LEMMA LockAcquire ==
    ASSUME TypeInv, UseRedis, \A s \in Requests : AtWork(s), NEW r \in Requests, Acquire(r)
    PROVE  \A s \in Requests : AtWork(s)'
<1>1. PICK p \in {"markRunning", "insert", "refused"} : Goto(r, p)
  BY DEF Acquire, Locking
<1>2. p \in PCs
  BY DEF PCs, Live, Submitting, Ended
<1>3. /\ req'[r].pc = p
      /\ \A s \in Requests : req'[s].task = req[s].task /\ (s # r => req'[s].pc = req[s].pc)
  BY <1>1, <1>2, GotoKeeps DEF Kept
<1>4. req[r].pc \notin Owning
  BY DEF Acquire, Locking, Owning, Running
<1>5. CASE lock = None
  <2>1. ASSUME NEW s \in Requests PROVE req[s].pc \notin Owning
    <3>1. req[s].pc \in Owning => req[s].task \in Requests
      BY DEF TypeInv, Placed, Owning, Running, Ended
    <3>2. QED
      BY <1>5, <3>1, NoneAssumption DEF AtWork
  <2>2. lock' = req[r].task /\ holder' = r
    BY <1>5 DEF Acquire
  <2>3. QED
    BY <1>3, <2>1, <2>2 DEF AtWork
<1>6. CASE lock # None
  <2>1. req'[r].pc = "refused" /\ UNCHANGED <<lock, holder>>
    <3>1. Goto(r, "refused") /\ UNCHANGED <<lock, holder>>
      BY <1>6 DEF Acquire
    <3>2. "refused" \in PCs
      BY DEF PCs, Ended
    <3>3. QED
      BY <3>1, <3>2, GotoKeeps
  <2>2. "refused" \notin Owning
    BY DEF Owning, Running
  <2>3. QED
    BY <1>3, <2>1, <2>2, OwnersStay
<1>7. QED
  BY <1>5, <1>6

LEMMA LockSubmit ==
    ASSUME TypeInv, UseRedis, \A s \in Requests : AtWork(s), NEW r \in Requests,
           \/ \E i \in Instances, o \in Ops, f \in BOOLEAN : Submit(r, i, o, f)
           \/ SubmitStep(r)
    PROVE  \A s \in Requests : AtWork(s)'
<1>1. SubmitMoves(r) /\ req[r] \in RequestType /\ req \in [Requests -> RequestType]
  BY SubmitStepMoves DEF TypeInv, TypeOK
<1>2. CASE Acquire(r)
  BY <1>2, LockAcquire
<1>3. CASE UndoLock(r)
  <2>1. "error" \in PCs /\ "error" \notin Owning /\ "undo" \in Owning
    BY DEF PCs, Ended, Owning, Running
  <2>2. req'[r].pc = "error" /\ req[r].pc = "undo"
    BY <1>3, <2>1, GotoKeeps DEF UndoLock
  <2>3. QED
    BY <1>1, <2>1, <2>2, OwnerLeaves DEF SubmitMoves
<1>4. CASE Find(r) \/ \E i \in Instances, o \in Ops, f \in BOOLEAN : Submit(r, i, o, f)
  <2>1. req'[r].pc \notin Owning
    <3>1. CASE Find(r)
      <4>1. PICK q \in RequestType : FindResult(r, q) /\ req' = [req EXCEPT ![r] = q]
        BY <3>1, FindReq
      <4>2. QED
        BY <1>1, <4>1 DEF FindResult, Owning, Running
    <3>2. ASSUME NEW i \in Instances, NEW o \in Ops, NEW f \in BOOLEAN, Submit(r, i, o, f)
          PROVE  req'[r].pc \notin Owning
      <4>1. PICK p \in {"refused", "find"} :
              req' = [req EXCEPT ![r] = [req[r] EXCEPT !.pc = p, !.inst = i, !.op = o,
                                                       !.force = f]]
        BY <3>2 DEF Submit
      <4>2. req'[r].pc = p
        BY <1>1, <4>1 DEF RequestType
      <4>3. QED
        BY <4>2 DEF Owning, Running
    <3>3. QED
      BY <1>4, <3>1, <3>2
  <2>2. UNCHANGED <<lock, holder>>
    BY <1>4 DEF Find, Submit
  <2>3. QED
    BY <1>1, <2>1, <2>2, OwnersStay DEF SubmitMoves
<1>5. CASE CancelOld(r) \/ SubmitFault(r)
  <2>1. PICK p \in {"lockNew", "undo", "error"} :
          Goto(r, p) /\ (p = "undo" => req[r].pc = "insert")
    BY <1>5 DEF CancelOld, SubmitFault
  <2>2. p \in PCs
    BY DEF PCs, Live, Submitting, Locking, Ended
  <2>3. req'[r].pc = p /\ req'[r].task = req[r].task
    BY <2>1, <2>2, GotoKeeps DEF Kept
  <2>4. UNCHANGED <<lock, holder>>
    BY <1>5 DEF CancelOld, SubmitFault
  <2>5. req'[r].pc \in Owning => req[r].pc \in Owning
    BY <2>1, <2>3 DEF Owning, Running
  <2>6. QED
    BY <1>1, <2>3, <2>4, <2>5, OwnersStay DEF SubmitMoves
<1>6. CASE MarkRunning(r) \/ InsertTask(r)
  <2>1. req'[r] = [req[r] EXCEPT !.pc = IF req[r].op = "SEED" THEN "open" ELSE "prepare",
                                 !.status = "RUNNING", !.at = req[r].chunks]
    BY <1>1, <1>6 DEF MarkRunning, InsertTask, StartRun
  <2>2. req'[r].task = req[r].task
    BY <1>1, <2>1 DEF RequestType
  <2>3. req[r].pc \in Owning /\ UNCHANGED <<lock, holder>>
    BY <1>6 DEF MarkRunning, InsertTask, Owning
  <2>4. QED
    BY <1>1, <2>2, <2>3, OwnersStay DEF SubmitMoves
<1>7. QED
  BY <1>2, <1>3, <1>4, <1>5, <1>6 DEF SubmitStep

LEMMA LockRun ==
    ASSUME TypeInv, \A s \in Requests : AtWork(s), NEW r \in Requests, RunStep(r)
    PROVE  \A s \in Requests : AtWork(s)'
<1>1. RunMoves(r) /\ Running \cup {"release"} \subseteq Owning /\ "done" \notin Owning
  BY RunStepMoves DEF Owning, Running
<1>2. CASE Release(r)
  <2>1. "done" \in PCs
    BY DEF PCs, Ended
  <2>2. req'[r].pc = "done"
    BY <1>2, <2>1, GotoKeeps DEF Release
  <2>3. QED
    BY <1>1, <2>2, OwnerLeaves DEF RunMoves
<1>3. CASE ~Release(r)
  <2>1. UNCHANGED <<lock, holder>>
    BY <1>3 DEF RunStep, Prepare, CommitPage, EmptyPage, ReportChunk, LastPage, Swap, WorkFails,
       FinishTask, RecordFailure, RunFault, ReleaseFault
  <2>2. QED
    BY <1>1, <2>1, OwnersStay DEF RunMoves
<1>4. QED
  BY <1>2, <1>3

(* A crash leaves the lock behind; its TTL ends it when nobody owns it.    *)
LEMMA LockStep ==
    ASSUME TypeInv, ShutInv, LockInv, [Next]_vars
    PROVE  LockInv'
<1>1. SUFFICES ASSUME Guarded' PROVE \A r \in Requests : AtWork(r)'
  BY DEF LockInv
<1>2. Guarded /\ \A r \in Requests : AtWork(r)
  BY <1>1, UsedStep DEF Guarded, UsedGrows, Counters, TypeInv, LockInv
<1>3. ASSUME NEW r \in Requests,
             \/ \E i \in Instances, o \in Ops, f \in BOOLEAN : Submit(r, i, o, f)
             \/ SubmitStep(r)
      PROVE  \A s \in Requests : AtWork(s)'
  BY <1>2, <1>3, LockSubmit DEF Guarded
<1>4. ASSUME NEW r \in Requests, RunStep(r) PROVE \A s \in Requests : AtWork(s)'
  BY <1>2, <1>4, LockRun
<1>5. ASSUME NEW i \in Instances, Crash(i) \/ Restart(i)
      PROVE  \A r \in Requests : AtWork(r)'
  <2>1. "crashed" \notin Owning
    BY DEF Owning, Running
  <2>2. UNCHANGED <<lock, holder>>
    BY <1>5 DEF Crash, Restart
  <2>3. QED
    BY <1>2, <1>5, <2>1, <2>2, CrashMoves, OwnersStay
<1>6. ASSUME NEW i \in Instances PROVE ~ShutdownBegin(i) /\ ~ShutdownStep(i)
  <2>1. used.shutdowns = 0 /\ used'.shutdowns = 0
    BY <1>1, <1>2 DEF Guarded
  <2>2. ~ShutdownBegin(i)
    BY <2>1 DEF ShutdownBegin, TypeInv, TypeOK
  <2>3. ~ShutdownStep(i)
    BY <2>1 DEF ShutInv, ShutdownStep, ShutdownWrite, ShutdownUnlock, ShutdownCancel,
       ShutdownJoin, ShutdownFault, CloseLoop
  <2>4. QED
    BY <2>2, <2>3
<1>7. ~ExpireHeld
  BY <1>1, <1>2 DEF Guarded, ExpireHeld, TypeInv, TypeOK
<1>8. CASE ExpireLeaked
  <2>1. \A r \in Requests : req[r].pc \notin Owning
    BY <1>2, <1>8 DEF ExpireLeaked, Owned, AtWork
  <2>2. QED
    BY <1>8, <2>1 DEF ExpireLeaked, AtWork
<1>9. CASE UNCHANGED vars
  BY <1>2, <1>9 DEF vars, AtWork
<1>10. QED
  BY <1>3, <1>4, <1>5, <1>6, <1>7, <1>8, <1>9 DEF Next

LEMMA LockInvariants == Spec => [](TypeInv /\ ShutInv /\ LockInv)
<1>1. Init => ShutInv /\ LockInv
  BY DEF Init, ShutInv, NewProcess, LockInv, AtWork, Idle, Owning, Running
<1>2. Spec => []TypeInv
  BY Invariants, PTL
<1>3. QED
  BY <1>1, <1>2, ShutStep, LockStep, PTL DEF Spec

(* _acquire_lock and _release_lock keep two runs from working at once, for *)
(* any number of processes, requests, crashes, restarts and failing        *)
(* statements, until a process is shut down gracefully or a lock expires   *)
(* under its owner.                                                        *)
THEOREM MutualExclusion == Spec => []AtMostOneRun
<1>1. LockInv => AtMostOneRun
  BY DEF LockInv, Guarded, AtWork, AtMostOneRun, Owning
<1>2. QED
  BY <1>1, LockInvariants, PTL

----------------------------------------------------------------------------
(* Rows and runs.  A row becomes RUNNING together with its run, and a run  *)
(* that nothing kills writes another status before it ends.                *)

RowHasRun(t) ==
    row[t].status = "RUNNING" => \E r \in Requests : req[r].task = t /\ req[r].pc \in Running
Calm == used.shutdowns = 0 /\ used.crashes = 0 /\ used.faults = 0
RowInv == Calm => \A t \in Requests : RowHasRun(t)

(* A step of r: the rows that say RUNNING are that of r, if it runs now,   *)
(* and those of which r was not the run.                                   *)
RowsFollow(r) ==
    \A t \in Requests : row'[t].status = "RUNNING" =>
        \/ req'[r].task = t /\ req'[r].pc \in Running
        \/ row[t].status = "RUNNING" /\ ~(req[r].task = t /\ req[r].pc \in Running)

LEMMA RowsStay ==
    ASSUME \A t \in Requests : RowHasRun(t), NEW r \in Requests,
           \A s \in Requests : s # r => req'[s].task = req[s].task /\ req'[s].pc = req[s].pc,
           RowsFollow(r)
    PROVE  \A t \in Requests : RowHasRun(t)'
<1>1. SUFFICES ASSUME NEW t \in Requests, row'[t].status = "RUNNING"
               PROVE  \E s \in Requests : req'[s].task = t /\ req'[s].pc \in Running
  BY DEF RowHasRun
<1>2. CASE req'[r].task = t /\ req'[r].pc \in Running
  BY <1>2
<1>3. CASE row[t].status = "RUNNING" /\ ~(req[r].task = t /\ req[r].pc \in Running)
  <2>1. PICK s \in Requests : req[s].task = t /\ req[s].pc \in Running
    BY <1>3 DEF RowHasRun
  <2>2. s # r
    BY <1>3, <2>1
  <2>3. QED
    BY <2>1, <2>2
<1>4. QED
  BY <1>1, <1>2, <1>3 DEF RowsFollow

LEMMA RowsSubmit ==
    ASSUME TypeInv, NEW r \in Requests,
           \/ \E i \in Instances, o \in Ops, f \in BOOLEAN : Submit(r, i, o, f)
           \/ SubmitStep(r)
    PROVE  RowsFollow(r)
<1>1. /\ req \in [Requests -> RequestType] /\ req[r] \in RequestType
      /\ row \in [Requests -> RowType] /\ "CANCELLED" \in RowStatuses
      /\ "RUNNING" \in RowStatuses
  BY DEF TypeInv, TypeOK, RowType, RowStatuses, Statuses
<1>2. req[r].pc \notin Running
  BY SubmitStepMoves DEF SubmitMoves, Submitting, Locking, Running
<1>3. CASE UNCHANGED row
  BY <1>2, <1>3 DEF RowsFollow
<1>4. CASE CancelOld(r)
  <2>1. req[r].found \in Requests
    BY <1>4 DEF CancelOld, TypeInv, Placed
  <2>2. /\ row'[req[r].found].status = "CANCELLED"
        /\ \A u \in Requests : u # req[r].found => row'[u] = row[u]
    BY <1>1, <1>4, <2>1, StatusRow DEF CancelOld
  <2>3. QED
    BY <1>2, <2>2 DEF RowsFollow
<1>5. CASE MarkRunning(r) \/ InsertTask(r)
  <2>1. PICK p \in {"open", "prepare"} :
          req'[r] = [req[r] EXCEPT !.pc = p, !.status = "RUNNING", !.at = req[r].chunks]
    BY <1>1, <1>5 DEF MarkRunning, InsertTask, StartRun
  <2>2. req'[r].task = req[r].task /\ req'[r].pc \in Running
    BY <1>1, <2>1 DEF RequestType, Running
  <2>3. req[r].task \in Requests /\ (InsertTask(r) => req[r].task = r)
    BY <1>5 DEF MarkRunning, InsertTask, TypeInv, Placed, Ended
  <2>4. \A u \in Requests : u # req[r].task => row'[u] = row[u]
    <3>1. CASE MarkRunning(r)
      BY <1>1, <2>3, <3>1, StatusRow DEF MarkRunning
    <3>2. CASE InsertTask(r)
      BY <1>1, <2>3, <3>2 DEF InsertTask
    <3>3. QED
      BY <1>5, <3>1, <3>2
  <2>5. QED
    BY <1>2, <2>2, <2>4 DEF RowsFollow
<1>6. QED
  BY <1>3, <1>4, <1>5 DEF Submit, SubmitStep, Find, Acquire, SubmitFault, UndoLock

LEMMA RowsRun ==
    ASSUME TypeInv, NEW r \in Requests, RunStep(r), ~Fault
    PROVE  RowsFollow(r)
<1> DEFINE t == req[r].task
<1>1. RunMoves(r) /\ t \in Requests /\ row \in [Requests -> RowType]
      /\ req[r].chunks \in 0..NPages
  BY RunStepMoves, RunHasTask DEF RunMoves
<1>2. {"release", "done", "page"} \subseteq PCs /\ "release" \notin Running /\ "page" \in Running
      /\ {"COMPLETED", "INTERRUPTED", "FAILED", "RUNNING"} \subseteq RowStatuses
  BY DEF PCs, Live, Running, Ended, RowStatuses, Statuses
<1>3. CASE FinishTask(r) \/ RecordFailure(r)
  <2>1. PICK s \in {"COMPLETED", "INTERRUPTED", "FAILED"} :
          UpdateStatus(t, s) \/ \E c \in 0..NPages : UpdateTask(t, s, c)
    BY <1>1, <1>3 DEF FinishTask, RecordFailure
  <2>2. row'[t].status = s /\ \A u \in Requests : u # t => row'[u] = row[u]
    BY <1>1, <1>2, <2>1, StatusRow, TaskRow
  <2>3. QED
    BY <2>1, <2>2 DEF RowsFollow
<1>4. CASE ReportChunk(r)
  <2>1. \A u \in Requests : u # t => row'[u] = row[u]
    BY <1>1, <1>2, <1>4, TaskRow DEF ReportChunk
  <2>2. req'[r].pc \in Running /\ req'[r].task = t
    BY <1>1, <1>2, <1>4, GotoKeeps DEF ReportChunk, RunMoves
  <2>3. QED
    BY <2>1, <2>2 DEF RowsFollow
<1>5. CASE Release(r)
  <2>1. req[r].pc \notin Running /\ UNCHANGED row
    BY <1>2, <1>5 DEF Release
  <2>2. QED
    BY <2>1 DEF RowsFollow
<1>6. CASE Prepare(r) \/ CommitPage(r) \/ EmptyPage(r) \/ LastPage(r) \/ Swap(r) \/ WorkFails(r)
  <2>1. UNCHANGED row
    BY <1>6 DEF Prepare, CommitPage, EmptyPage, LastPage, Swap, WorkFails
  <2>2. req'[r].pc \in Running
    <3>1. CASE Prepare(r) \/ CommitPage(r) \/ EmptyPage(r)
      <4>1. req[r] \in RequestType /\ req \in [Requests -> RequestType]
        BY DEF TypeInv, TypeOK
      <4>2. \/ \E a : req'[r] = [req[r] EXCEPT !.pc = "open", !.at = a]
            \/ \E a : req'[r] = [req[r] EXCEPT !.pc = "report", !.at = a, !.chunks = a]
            \/ \E c : req'[r] = [req[r] EXCEPT !.pc = "report", !.chunks = c]
        BY <3>1, <4>1 DEF Prepare, CommitPage, EmptyPage
      <4>3. QED
        BY <4>1, <4>2 DEF RequestType, Running
    <3>2. CASE LastPage(r) \/ Swap(r) \/ WorkFails(r)
      <4>1. PICK p \in Running : Goto(r, p) \/ \E st \in Statuses : Settle(r, p, st)
        BY <3>2 DEF LastPage, Swap, WorkFails, Running, Statuses
      <4>2. p \in PCs
        BY DEF PCs, Live
      <4>3. QED
        BY <4>1, <4>2, GotoKeeps, SettleKeeps
    <3>3. QED
      BY <1>6, <3>1, <3>2
  <2>3. QED
    BY <1>1, <2>1, <2>2 DEF RowsFollow, RunMoves
<1>7. QED
  BY <1>3, <1>4, <1>5, <1>6 DEF RunStep, RunFault, ReleaseFault

LEMMA RowStep ==
    ASSUME TypeInv, ShutInv, RowInv, [Next]_vars
    PROVE  RowInv'
<1>1. SUFFICES ASSUME Calm' PROVE \A t \in Requests : RowHasRun(t)'
  BY DEF RowInv
<1>2. Calm /\ \A t \in Requests : RowHasRun(t)
  BY <1>1, UsedStep DEF Calm, UsedGrows, Counters, TypeInv, RowInv
<1>3. ASSUME NEW r \in Requests,
             \/ \E i \in Instances, o \in Ops, f \in BOOLEAN : Submit(r, i, o, f)
             \/ SubmitStep(r)
      PROVE  \A t \in Requests : RowHasRun(t)'
  BY <1>2, <1>3, SubmitStepMoves, RowsSubmit, RowsStay DEF SubmitMoves
<1>4. ~Fault
  BY <1>1, <1>2 DEF Calm, Fault, TypeInv, TypeOK
<1>5. ASSUME NEW r \in Requests, RunStep(r) PROVE \A t \in Requests : RowHasRun(t)'
  BY <1>2, <1>4, <1>5, RunStepMoves, RowsRun, RowsStay DEF RunMoves
<1>6. ASSUME NEW i \in Instances
      PROVE  ~ShutdownBegin(i) /\ ~ShutdownStep(i) /\ ~Crash(i)
  <2>1. used.shutdowns = 0 /\ used'.shutdowns = 0 /\ used.crashes = 0 /\ used'.crashes = 0
    BY <1>1, <1>2 DEF Calm
  <2>2. ~ShutdownBegin(i)
    BY <2>1 DEF ShutdownBegin, TypeInv, TypeOK
  <2>3. ~Crash(i)
    BY <2>1 DEF Crash, TypeInv, TypeOK
  <2>4. ~ShutdownStep(i)
    BY <2>1 DEF ShutInv, ShutdownStep, ShutdownWrite, ShutdownUnlock, ShutdownCancel,
       ShutdownJoin, ShutdownFault, CloseLoop
  <2>5. QED
    BY <2>2, <2>3, <2>4
<1>7. (\E i \in Instances : Restart(i)) \/ ExpireLeaked \/ ExpireHeld \/ UNCHANGED vars
      => UNCHANGED <<row, req>>
  BY DEF Restart, ExpireLeaked, ExpireHeld, vars
<1>8. CASE UNCHANGED <<row, req>>
  BY <1>2, <1>8 DEF RowHasRun
<1>9. QED
  BY <1>3, <1>5, <1>6, <1>7, <1>8 DEF Next

(* _update_task writes RUNNING for runs only, and _run() writes another    *)
(* status before it ends: without a shutdown, a crash or a failing         *)
(* statement no row is left RUNNING without a run, overlapping runs and    *)
(* runs without a lock included.                                           *)
THEOREM RunningRowsHaveRuns == Spec => []RunningRowHasRun
<1>1. Init => RowInv
  BY DEF Init, RowInv, RowHasRun
<1>2. RowInv => RunningRowHasRun
  BY DEF RowInv, Calm, RowHasRun, RunningRowHasRun
<1>3. Spec => []RowInv
  BY <1>1, LockInvariants, RowStep, PTL DEF Spec
<1>4. QED
  BY <1>2, <1>3, PTL
=============================================================================
