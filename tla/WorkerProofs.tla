----------------------------- MODULE WorkerProofs -----------------------------
(* What the background tasks promise, for any jobs, mails, retries and     *)
(* shutdowns that meet WorkerAssumption, with and without crashes.         *)
EXTENDS Worker, TLAPS

(* A handler runs only on an active task, and the API queues a task once.  *)
Active(t) ==
    /\ worker[t] # "idle" => task[t].state = "active"
    /\ api[t] = "idle" => task[t].state = "none"

(* The order of handleReport: whatever speaks of a file is written after   *)
(* the file.                                                               *)
Stored(j) ==
    \/ worker[j] \in {"key", "done", "completed"}
    \/ hash[j].file
    \/ hash[j].status = "done"
    \/ task[j].state = "completed"
    => object[j]

(* As long as nothing was lost, the hash tells what the handler has done.  *)
Shown(j) ==
    ~mishap[j] =>
        /\ worker[j] = "done" => hash[j].file
        /\ worker[j] = "completed" \/ task[j].state = "completed" =>
              hash[j].status = "done" /\ hash[j].file
        /\ worker[j] = "failed" \/ task[j].state = "archived" =>
              hash[j].status = "failed" /\ hash[j].error
        /\ hash[j].error => \/ worker[j] = "failed"
                            \/ task[j].state = "archived"
                            \/ task[j].retried > 0
                            \/ task[j].returned > 0

(* A mail is sent at most once by each attempt that has begun.             *)
Counted(m) ==
    /\ task[m].state \in {"none", "pending"} \/ worker[m] = "send" =>
          sent[m] <= task[m].retried + task[m].returned
    /\ sent[m] <= 1 + task[m].retried + task[m].returned
    /\ worker[m] = "completed" \/ task[m].state = "completed" => sent[m] > 0

WorkerInv ==
    /\ TypeOK
    /\ \A t \in Tasks : Active(t)
    /\ \A j \in Jobs : Stored(j) /\ Shown(j)
    /\ \A m \in Mails : Counted(m)

USE WorkerAssumption DEF Tasks

(* ------------------------------------------------------------------------ *)
(* HSET keeps the type of the hash, and marks a job whose write is lost.   *)
LEMMA HSetKeeps ==
    ASSUME TypeOK, NEW j \in Jobs, NEW fields \in Hash, HSet(j, fields)
    PROVE  /\ hash' \in [Jobs -> Hash]
           /\ mishap' \in [Jobs -> BOOLEAN]
           /\ \A i \in Jobs \ {j} : hash'[i] = hash[i] /\ mishap'[i] = mishap[i]
           /\ \/ hash'[j] = fields /\ mishap'[j] = mishap[j]
              \/ hash'[j] = hash[j] /\ mishap'[j]
BY DEF HSet, Mishap, TypeOK

(* So does setJob, which sets the status and clears no error.              *)
LEMMA SetJobKeeps ==
    ASSUME TypeOK, NEW j \in Jobs, NEW status \in {"processing", "done", "failed"},
           NEW error \in BOOLEAN, SetJob(j, status, error)
    PROVE  /\ hash' \in [Jobs -> Hash]
           /\ mishap' \in [Jobs -> BOOLEAN]
           /\ \A i \in Jobs \ {j} : hash'[i] = hash[i] /\ mishap'[i] = mishap[i]
           /\ hash'[j].file = hash[j].file
           /\ \/ /\ hash'[j].status = status
                 /\ hash'[j].error = (hash[j].error \/ error)
                 /\ mishap'[j] = mishap[j]
              \/ hash'[j] = hash[j] /\ mishap'[j]
<1> DEFINE fields == [hash[j] EXCEPT !.status = status, !.error = @ \/ error]
<1>1. hash[j] \in Hash
  BY DEF TypeOK
<1>2. /\ fields \in Hash /\ fields.file = hash[j].file
      /\ fields.status = status /\ fields.error = (hash[j].error \/ error)
  BY <1>1 DEF Hash
<1>3. HSet(j, fields)
  BY DEF SetJob
<1> HIDE DEF fields
<1> QED BY <1>2, <1>3, HSetKeeps

(* What asynq does with a task whose attempt did not succeed.              *)
LEMMA PutBackKeeps ==
    ASSUME TypeOK, NEW t \in Tasks, PutBack(t)
    PROVE  /\ task' \in [Tasks -> Task]
           /\ \A u \in Tasks \ {t} : task'[u] = task[u]
           /\ task'[t].returned = task[t].returned
           /\ \/ /\ task'[t].state = "pending"
                 /\ task'[t].retried = task[t].retried + 1
              \/ /\ task'[t].state = "archived"
                 /\ task'[t].retried = task[t].retried
<1>1. task[t] \in Task
  BY DEF TypeOK
<1>2. CASE task[t].retried < MaxRetry
  <2>1. task' = [task EXCEPT ![t].state = "pending", ![t].retried = @ + 1]
    BY <1>2 DEF PutBack
  <2>2. /\ task[t].retried + 1 \in 0..MaxRetry
    BY <1>1, <1>2 DEF Task
  <2>3. /\ task'[t] \in Task /\ task'[t].state = "pending"
        /\ task'[t].retried = task[t].retried + 1
        /\ task'[t].returned = task[t].returned
    BY <1>1, <2>1, <2>2 DEF TypeOK, Task
  <2> QED BY <2>1, <2>3 DEF TypeOK
<1>3. CASE task[t].retried = MaxRetry
  <2>1. task' = [task EXCEPT ![t].state = "archived"]
    BY <1>1, <1>3 DEF PutBack, Task
  <2>2. /\ task'[t] \in Task /\ task'[t].state = "archived"
        /\ task'[t].retried = task[t].retried
        /\ task'[t].returned = task[t].returned
    BY <1>1, <2>1 DEF TypeOK, Task
  <2> QED BY <2>1, <2>2 DEF TypeOK
<1> QED BY <1>1, <1>2, <1>3 DEF Task, PutBack

(* A task that moves to another state keeps its counts.                    *)
LEMMA StateOnly ==
    ASSUME TypeOK, NEW t \in Tasks,
           NEW s \in {"pending", "active", "completed"},
           task' = [task EXCEPT ![t].state = s]
    PROVE  /\ task' \in [Tasks -> Task]
           /\ \A u \in Tasks \ {t} : task'[u] = task[u]
           /\ task'[t].state = s
           /\ task'[t].retried = task[t].retried
           /\ task'[t].returned = task[t].returned
<1>1. task[t] \in Task
  BY DEF TypeOK
<1> QED BY <1>1 DEF TypeOK, Task

(* ------------------------------------------------------------------------ *)
LEMMA InitWorker == Init => WorkerInv
<1> SUFFICES ASSUME Init PROVE WorkerInv
  OBVIOUS
<1>1. [state |-> "none", retried |-> 0, returned |-> 0] \in Task
  BY DEF Task
<1>2. NoHash \in Hash
  BY DEF NoHash, Hash
<1>3. TypeOK
  BY <1>1, <1>2 DEF Init, TypeOK
<1>4. \A t \in Tasks : Active(t)
  BY DEF Init, Active
<1>5. \A j \in Jobs : Stored(j) /\ Shown(j)
  BY DEF Init, Stored, Shown, NoHash
<1>6. \A m \in Mails : Counted(m)
  BY DEF Init, Counted
<1> QED BY <1>3, <1>4, <1>5, <1>6 DEF WorkerInv

(* ------------------------------------------------------------------------ *)
(* A step for one task leaves the story of the others as it is.            *)
Others(t) ==
    /\ \A u \in Tasks \ {t} : /\ api'[u] = api[u] /\ task'[u] = task[u]
                              /\ worker'[u] = worker[u]
    /\ \A j \in Jobs \ {t} : /\ hash'[j] = hash[j] /\ object'[j] = object[j]
                             /\ mishap'[j] = mishap[j]
    /\ \A m \in Mails \ {t} : sent'[m] = sent[m]

(* A step of one task keeps the invariant if it does so for that task.     *)
LEMMA OneTask ==
    ASSUME WorkerInv, NEW t \in Tasks, TypeOK', Others(t), Active(t)',
           t \in Jobs => Stored(t)' /\ Shown(t)',
           t \in Mails => Counted(t)'
    PROVE  WorkerInv'
<1>1. \A u \in Tasks \ {t} : Active(u)'
  BY DEF WorkerInv, Others, Active
<1>2. \A j \in Jobs \ {t} : Stored(j)' /\ Shown(j)'
  BY DEF WorkerInv, Others, Stored, Shown
<1>3. \A m \in Mails \ {t} : Counted(m)'
  BY DEF WorkerInv, Others, Counted
<1> QED BY <1>1, <1>2, <1>3 DEF WorkerInv

(* The counts of a task and of a mail are numbers.                         *)
LEMMA Counts ==
    ASSUME TypeOK, NEW t \in Tasks
    PROVE  /\ task[t] \in Task /\ task[t].retried \in Nat /\ task[t].returned \in Nat
           /\ t \in Mails => sent[t] \in Nat
BY DEF TypeOK, Task

(* The API: a task is queued, and its job registered.                      *)
LEMMA EnqueueKeeps ==
    ASSUME WorkerInv, NEW t \in Tasks, NEW then \in {"register", "answered"},
           Enqueue(t, then)
    PROVE  WorkerInv'
<1> USE DEF WorkerInv
<1>1. CASE task' = [task EXCEPT ![t].state = "pending"] /\ api' = [api EXCEPT ![t] = then]
  <2>1. TypeOK'
    BY <1>1, StateOnly DEF Enqueue, TypeOK
  <2>2. task[t].state = "none" /\ worker[t] = "idle"
    BY DEF Active, Enqueue
  <2>3. Active(t)' /\ Others(t)
    BY <1>1, <2>2, StateOnly DEF Enqueue, Active, Others, TypeOK
  <2>4. t \in Jobs => Stored(t)' /\ Shown(t)'
    BY <1>1, <2>2, StateOnly DEF Enqueue, Stored, Shown
  <2>5. t \in Mails => Counted(t)'
    BY <1>1, <2>2, StateOnly DEF Enqueue, Counted
  <2> QED BY <2>1, <2>3, <2>4, <2>5, OneTask
<1>2. CASE task' = task /\ api' = [api EXCEPT ![t] = "refused"]
  <2>1. TypeOK' /\ Active(t)' /\ Others(t)
    BY <1>2 DEF Enqueue, Active, Others, TypeOK
  <2>2. t \in Jobs => Stored(t)' /\ Shown(t)'
    BY <1>2 DEF Enqueue, Stored, Shown
  <2>3. t \in Mails => Counted(t)'
    BY <1>2 DEF Enqueue, Counted
  <2> QED BY <2>1, <2>2, <2>3, OneTask
<1> QED BY <1>1, <1>2 DEF Enqueue

(* The API registers an export, before or after the worker has begun.      *)
LEMMA RegisterKeeps ==
    ASSUME WorkerInv, NEW j \in Jobs, Register(j) PROVE WorkerInv'
<1> USE DEF WorkerInv
<1> DEFINE queued == [hash[j] EXCEPT !.status = "queued"]
<1>0. /\ hash[j] \in Hash
      /\ queued \in Hash /\ queued.status = "queued"
      /\ queued.file = hash[j].file /\ queued.error = hash[j].error
  BY DEF TypeOK, Hash
<1>1. /\ hash' \in [Jobs -> Hash] /\ mishap' \in [Jobs -> BOOLEAN]
      /\ \A i \in Jobs \ {j} : hash'[i] = hash[i] /\ mishap'[i] = mishap[i]
      /\ hash'[j] \in {hash[j], queued}
      /\ ~mishap'[j] => ~mishap[j] /\ hash'[j] = queued /\ task[j].state = "pending"
  <2>1. CASE task[j].state = "pending" /\ task[j].retried = 0 /\ task[j].returned = 0
    <3>1. HSet(j, queued)
      BY <2>1 DEF Register
    <3> HIDE DEF queued
    <3> QED BY <1>0, <2>1, <3>1, HSetKeeps
  <2>2. CASE ~(task[j].state = "pending" /\ task[j].retried = 0 /\ task[j].returned = 0)
    <3>1. hash' \in {hash, [hash EXCEPT ![j] = queued]} /\ Mishap(j)
      BY <2>2 DEF Register
    <3> HIDE DEF queued
    <3> QED BY <1>0, <3>1 DEF Mishap, TypeOK
  <2> QED BY <2>1, <2>2
<1> HIDE DEF queued
<1>2. /\ api' = [api EXCEPT ![j] = "answered"]
      /\ UNCHANGED <<task, worker, object, sent>>
  BY DEF Register
<1>3. TypeOK' /\ Active(j)' /\ Others(j)
  BY <1>1, <1>2 DEF TypeOK, Active, Others
<1>4. Stored(j)'
  BY <1>0, <1>1, <1>2 DEF Stored
<1>5. Shown(j)'
  BY <1>0, <1>1, <1>2 DEF Shown, Active
<1> QED BY <1>3, <1>4, <1>5, OneTask

(* asynq: deliver, complete, retry, and what a dead or stopped worker      *)
(* leaves to it.                                                           *)
LEMMA DeliverKeeps ==
    ASSUME WorkerInv, NEW t \in Tasks, Deliver(t) PROVE WorkerInv'
<1> USE DEF WorkerInv
<1>1. /\ task[t].state = "pending"
      /\ task' = [task EXCEPT ![t].state = "active"]
      /\ worker' = [worker EXCEPT ![t] = IF t \in Jobs THEN "start" ELSE "send"]
      /\ UNCHANGED <<api, hash, object, sent, mishap>>
  BY DEF Deliver, Goto
<1>2. TypeOK' /\ Active(t)' /\ Others(t)
  BY <1>1, StateOnly DEF TypeOK, Active, Others
<1>3. t \in Jobs => Stored(t)' /\ Shown(t)'
  BY <1>1, StateOnly DEF TypeOK, Stored, Shown, Active
<1>4. t \in Mails => Counted(t)'
  BY <1>1, StateOnly DEF TypeOK, Counted
<1> QED BY <1>2, <1>3, <1>4, OneTask

(* A task whose handler returned without an error is over.                 *)
LEMMA CompleteKeeps ==
    ASSUME WorkerInv, NEW t \in Tasks, Complete(t) PROVE WorkerInv'
<1> USE DEF WorkerInv
<1>1. /\ worker[t] = "completed"
      /\ task' = [task EXCEPT ![t].state = "completed"]
      /\ worker' = [worker EXCEPT ![t] = "idle"]
      /\ UNCHANGED <<api, hash, object, sent, mishap>>
  BY DEF Complete, Goto
<1>2. TypeOK' /\ Active(t)' /\ Others(t)
  BY <1>1, StateOnly DEF TypeOK, Active, Others
<1>3. t \in Jobs => Stored(t)' /\ Shown(t)'
  BY <1>1, StateOnly DEF TypeOK, Stored, Shown, Active
<1>4. t \in Mails => Counted(t)'
  BY <1>1, StateOnly DEF TypeOK, Counted
<1> QED BY <1>2, <1>3, <1>4, OneTask

(* An attempt that failed or was lost is over, whether the task is put     *)
(* back or archived.                                                       *)
LEMMA AttemptOver ==
    ASSUME WorkerInv, NEW t \in Tasks, PutBack(t),
           worker' = [worker EXCEPT ![t] = "idle"],
           UNCHANGED <<api, hash, object, sent>>,
           mishap' \in [Jobs -> BOOLEAN],
           \A j \in Jobs \ {t} : mishap'[j] = mishap[j],
           \/ worker[t] = "failed" /\ mishap' = mishap
           \/ worker[t] # "idle" /\ (t \in Jobs => mishap'[t])
    PROVE  WorkerInv'
<1> USE DEF WorkerInv
<1>1. TypeOK'
  BY PutBackKeeps DEF TypeOK
<1>2. Active(t)' /\ Others(t)
  BY PutBackKeeps DEF TypeOK, Active, Others
<1>3. t \in Jobs => Stored(t)'
  BY PutBackKeeps DEF TypeOK, Stored
<1>4. t \in Jobs => Shown(t)'
  BY PutBackKeeps, Counts DEF TypeOK, Shown
<1>5. t \in Mails => Counted(t)'
  BY PutBackKeeps, Counts DEF TypeOK, Counted
<1> QED BY <1>1, <1>2, <1>3, <1>4, <1>5, OneTask

(* A shutdown that does not wait for a handler puts its task back.         *)
LEMMA ShutdownKeeps ==
    ASSUME WorkerInv, NEW t \in Tasks, Shutdown(t) PROVE WorkerInv'
<1> USE DEF WorkerInv
<1>1. /\ worker[t] # "idle" /\ task[t].returned < MaxReturns
      /\ task' = [task EXCEPT ![t].state = "pending", ![t].returned = @ + 1]
      /\ worker' = [worker EXCEPT ![t] = "idle"]
      /\ UNCHANGED <<api, hash, object, sent, mishap>>
  BY DEF Shutdown, Goto
<1>2. task[t].returned + 1 \in 0..MaxReturns
  BY <1>1, Counts DEF Task
<1>3. /\ task' \in [Tasks -> Task]
      /\ \A u \in Tasks \ {t} : task'[u] = task[u]
      /\ task'[t].state = "pending" /\ task'[t].retried = task[t].retried
      /\ task'[t].returned = task[t].returned + 1
  BY <1>1, <1>2, Counts DEF TypeOK, Task
<1>4. TypeOK' /\ Active(t)' /\ Others(t)
  BY <1>1, <1>3 DEF TypeOK, Active, Others
<1>5. t \in Jobs => Stored(t)'
  BY <1>1, <1>3 DEF TypeOK, Stored
<1>6. t \in Jobs => Shown(t)'
  BY <1>1, <1>3, Counts DEF TypeOK, Shown
<1>7. t \in Mails => Counted(t)'
  BY <1>1, <1>3, Counts DEF TypeOK, Counted
<1> QED BY <1>4, <1>5, <1>6, <1>7, OneTask

(* ------------------------------------------------------------------------ *)
(* The handlers.                                                           *)
LEMMA StartReportKeeps ==
    ASSUME WorkerInv, NEW j \in Jobs, StartReport(j) PROVE WorkerInv'
<1> USE DEF WorkerInv
<1>1. /\ worker[j] = "start" /\ SetJob(j, "processing", FALSE)
      /\ worker' = [worker EXCEPT ![j] = "query"]
      /\ UNCHANGED <<api, task, object, sent>>
  BY DEF StartReport, Goto
<1>2. TypeOK' /\ Active(j)' /\ Others(j)
  BY <1>1, SetJobKeeps DEF TypeOK, Active, Others
<1>3. Stored(j)'
  BY <1>1, SetJobKeeps DEF TypeOK, Stored
<1>4. Shown(j)'
  BY <1>1, SetJobKeeps DEF TypeOK, Shown, Active
<1> QED BY <1>2, <1>3, <1>4, OneTask

(* A handler that cannot go on marks its export as failed.                 *)
LEMMA GiveUpKeeps ==
    ASSUME WorkerInv, NEW j \in Jobs, GiveUp(j) PROVE WorkerInv'
<1> USE DEF WorkerInv
<1>1. /\ worker[j] \in {"query", "upload"} /\ SetJob(j, "failed", TRUE)
      /\ worker' = [worker EXCEPT ![j] = "failed"]
      /\ UNCHANGED <<api, task, object, sent>>
  BY DEF GiveUp, Goto
<1>2. TypeOK' /\ Active(j)' /\ Others(j)
  BY <1>1, SetJobKeeps DEF TypeOK, Active, Others
<1>3. Stored(j)'
  BY <1>1, SetJobKeeps DEF TypeOK, Stored
<1>4. Shown(j)'
  BY <1>1, SetJobKeeps DEF TypeOK, Shown, Active
<1> QED BY <1>2, <1>3, <1>4, OneTask

(* An export that is stored is marked as done.                             *)
LEMMA FinishKeeps ==
    ASSUME WorkerInv, NEW j \in Jobs, Finish(j) PROVE WorkerInv'
<1> USE DEF WorkerInv
<1>1. /\ worker[j] = "done" /\ SetJob(j, "done", FALSE)
      /\ worker' = [worker EXCEPT ![j] = "completed"]
      /\ UNCHANGED <<api, task, object, sent>>
  BY DEF Finish, Goto
<1>2. TypeOK' /\ Active(j)' /\ Others(j)
  BY <1>1, SetJobKeeps DEF TypeOK, Active, Others
<1>3. Stored(j)'
  BY <1>1, SetJobKeeps DEF TypeOK, Stored
<1>4. Shown(j)'
  BY <1>1, SetJobKeeps DEF TypeOK, Shown, Active
<1> QED BY <1>2, <1>3, <1>4, OneTask

(* The rows of an export are read.                                         *)
LEMMA QueryClaimsKeeps ==
    ASSUME WorkerInv, NEW j \in Jobs, QueryClaims(j) PROVE WorkerInv'
<1> USE DEF WorkerInv
<1>1. /\ worker[j] = "query" /\ worker' = [worker EXCEPT ![j] = "upload"]
      /\ UNCHANGED <<api, task, hash, object, sent, mishap>>
  BY DEF QueryClaims, Goto
<1>2. TypeOK' /\ Active(j)' /\ Others(j)
  BY <1>1 DEF TypeOK, Active, Others
<1>3. Stored(j)' /\ Shown(j)'
  BY <1>1 DEF TypeOK, Stored, Shown
<1> QED BY <1>2, <1>3, OneTask

(* The file of an export is stored.                                        *)
LEMMA PutObjectKeeps ==
    ASSUME WorkerInv, NEW j \in Jobs, PutObject(j) PROVE WorkerInv'
<1> USE DEF WorkerInv
<1>1. /\ worker[j] = "upload" /\ worker' = [worker EXCEPT ![j] = "key"]
      /\ object' = [object EXCEPT ![j] = TRUE]
      /\ UNCHANGED <<api, task, hash, sent, mishap>>
  BY DEF PutObject, Goto
<1>2. TypeOK' /\ Active(j)' /\ Others(j)
  BY <1>1 DEF TypeOK, Active, Others
<1>3. Stored(j)' /\ Shown(j)'
  BY <1>1 DEF TypeOK, Stored, Shown
<1> QED BY <1>2, <1>3, OneTask

(* The hash of an export is told the key of its file.                      *)
LEMMA RecordKeyKeeps ==
    ASSUME WorkerInv, NEW j \in Jobs, RecordKey(j) PROVE WorkerInv'
<1> USE DEF WorkerInv
<1> DEFINE keyed == [hash[j] EXCEPT !.file = TRUE]
<1>0. /\ keyed \in Hash /\ keyed.file
      /\ keyed.status = hash[j].status /\ keyed.error = hash[j].error
  BY DEF TypeOK, Hash
<1>1. /\ worker[j] = "key" /\ HSet(j, keyed)
      /\ worker' = [worker EXCEPT ![j] = "done"]
      /\ UNCHANGED <<api, task, object, sent>>
  BY DEF RecordKey, Goto
<1> HIDE DEF keyed
<1>2. TypeOK' /\ Active(j)' /\ Others(j)
  BY <1>0, <1>1, HSetKeeps DEF TypeOK, Active, Others
<1>3. Stored(j)'
  BY <1>0, <1>1, HSetKeeps DEF TypeOK, Stored
<1>4. Shown(j)'
  BY <1>0, <1>1, HSetKeeps DEF TypeOK, Shown, Active
<1> QED BY <1>2, <1>3, <1>4, OneTask

(* A mail is handed to the SMTP server, which may or may not have sent it. *)
LEMMA SendMailKeeps ==
    ASSUME WorkerInv, NEW m \in Mails, SendMail(m) PROVE WorkerInv'
<1> USE DEF WorkerInv
<1>1. /\ worker[m] = "send"
      /\ sent' \in {sent, [sent EXCEPT ![m] = @ + 1]}
      /\ \/ worker' = [worker EXCEPT ![m] = "failed"]
         \/ /\ worker' = [worker EXCEPT ![m] = "completed"]
            /\ sent' = [sent EXCEPT ![m] = @ + 1]
      /\ UNCHANGED <<api, task, hash, object, mishap>>
  BY DEF SendMail, Goto
<1>2. /\ sent' \in [Mails -> Nat]
      /\ sent'[m] \in {sent[m], sent[m] + 1}
      /\ worker'[m] = "completed" => sent'[m] = sent[m] + 1
      /\ \A n \in Mails \ {m} : sent'[n] = sent[n]
  BY <1>1, Counts DEF TypeOK
<1>3. TypeOK' /\ Active(m)' /\ Others(m)
  BY <1>1, <1>2 DEF TypeOK, Active, Others
<1>4. worker'[m] # "send" /\ task[m].state = "active"
  BY <1>1 DEF TypeOK, Active
<1>5. Counted(m)'
  BY <1>1, <1>2, <1>4, Counts DEF Counted
<1> QED BY <1>3, <1>5, OneTask

(* Every step keeps the invariant.                                         *)
LEMMA NextWorker == WorkerInv /\ [Next]_vars => WorkerInv'
<1> SUFFICES ASSUME WorkerInv, [Next]_vars PROVE WorkerInv'
  OBVIOUS
<1>1. CASE UNCHANGED vars
  BY <1>1 DEF vars, WorkerInv, TypeOK, Active, Stored, Shown, Counted
<1>2. ASSUME NEW j \in Jobs, QueueExport(j) \/ Register(j) PROVE WorkerInv'
  BY <1>2, EnqueueKeeps, RegisterKeeps DEF QueueExport
<1>3. ASSUME NEW m \in Mails, NotifyEmployee(m) PROVE WorkerInv'
  BY <1>3, EnqueueKeeps DEF NotifyEmployee
<1>4. ASSUME NEW t \in Tasks, Deliver(t) \/ Handle(t) PROVE WorkerInv'
  <2>1. ASSUME t \in Jobs, HandleReport(t) PROVE WorkerInv'
    BY <2>1, StartReportKeeps, QueryClaimsKeeps, PutObjectKeeps, RecordKeyKeeps,
       FinishKeeps, GiveUpKeeps DEF HandleReport
  <2>2. ASSUME Retry(t) PROVE WorkerInv'
    BY <2>2, AttemptOver DEF Retry, Goto, WorkerInv, TypeOK
  <2>3. ASSUME Crash(t) PROVE WorkerInv'
    <3>1. /\ mishap' \in [Jobs -> BOOLEAN]
          /\ \A j \in Jobs \ {t} : mishap'[j] = mishap[j]
          /\ t \in Jobs => mishap'[t]
      BY <2>3 DEF Crash, WorkerInv, TypeOK
    <3> QED BY <2>3, <3>1, AttemptOver DEF Crash, Goto
  <2> QED BY <1>4, <2>1, <2>2, <2>3, DeliverKeeps, CompleteKeeps, ShutdownKeeps,
             SendMailKeeps DEF Handle
<1> QED BY <1>1, <1>2, <1>3, <1>4 DEF Next

(* The types, the order of handleReport, what the hash tells and how often *)
(* mails were sent: the invariant that carries the properties.             *)
THEOREM WorkerInvariant == Spec => []WorkerInv
<1>1. Init => WorkerInv
  BY InitWorker
<1>2. WorkerInv /\ [Next]_vars => WorkerInv'
  BY NextWorker
<1> QED BY <1>1, <1>2, PTL DEF Spec

(* A poller that is given a URL finds the file, and a task that completed  *)
(* has stored it, whatever was retried, lost or overwritten.               *)
THEOREM DoneExportsAreStored == Spec => []DoneMeansStored
<1>1. WorkerInv => DoneMeansStored
  BY DEF WorkerInv, Stored, DoneMeansStored, Status
<1> QED BY <1>1, WorkerInvariant, PTL

(* Where no write was lost, no worker died and the API was in time, the    *)
(* hash of a finished export says how it ended.                            *)
THEOREM OutcomesAreShown == Spec => []PollersLearnTheOutcome
<1>1. ASSUME WorkerInv PROVE PollersLearnTheOutcome
  <2>1. ASSUME NEW j \in Jobs, ~mishap[j], task[j].state = "completed"
        PROVE  /\ Status(j).status = "done" /\ Status(j).url
               /\ Status(j).error => task[j].retried > 0 \/ task[j].returned > 0
    <3>1. worker[j] = "idle"
      BY <1>1, <2>1 DEF WorkerInv, Active
    <3> QED BY <1>1, <2>1, <3>1 DEF WorkerInv, Shown, Status
  <2>2. ASSUME NEW j \in Jobs, ~mishap[j], task[j].state = "archived"
        PROVE  Status(j).status = "failed" /\ Status(j).error
    BY <1>1, <2>2 DEF WorkerInv, Shown, Status
  <2> QED BY <2>1, <2>2 DEF PollersLearnTheOutcome
<1> QED BY <1>1, WorkerInvariant, PTL

(* No mail is sent more often than it was attempted, for any number of     *)
(* retries and shutdowns.                                                  *)
THEOREM MailsFollowAttempts == Spec => []MailsAreSentPerAttempt
<1>1. ASSUME WorkerInv PROVE MailsAreSentPerAttempt
  <2>1. \A m \in Mails : task[m].retried <= MaxRetry
    BY <1>1, Counts DEF WorkerInv, Task
  <2> QED BY <1>1, <2>1 DEF WorkerInv, Counted, MailsAreSentPerAttempt
<1> QED BY <1>1, WorkerInvariant, PTL
=============================================================================
