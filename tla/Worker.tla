------------------------------- MODULE Worker -------------------------------
(***************************************************************************)
(* The background tasks.  The API queues the CSV export of claims and      *)
(* records it in a Redis hash (backend/internal/modules/reports), and      *)
(* queues the mails a decision causes (workflow.go, notifyEmployee).  The  *)
(* worker (backend/cmd/worker/main.go) takes both from asynq: it writes    *)
(* the file to the object store and the outcome to the hash, and hands the *)
(* mails to the SMTP server.                                               *)
(*                                                                         *)
(* asynq delivers a task at least once: a task whose handler fails, or     *)
(* whose worker dies, is delivered again until its retries are used up; a  *)
(* server that is shut down gives its tasks back, and that is no retry.    *)
(***************************************************************************)
EXTENDS Naturals

CONSTANTS
    Jobs, Mails,
    MaxRetry,   \* asynq.MaxRetry of the tasks
    MaxReturns, \* bound: the shutdowns a task is given back by
    Crashes     \* whether a worker may die with a task in its hands

Tasks == Jobs \cup Mails

ASSUME WorkerAssumption ==
    /\ Jobs \cap Mails = {}
    /\ MaxRetry \in Nat /\ MaxReturns \in Nat /\ Crashes \in BOOLEAN

VARIABLES
    api,        \* the request that queues the task, and what it has done
    task,       \* the asynq task: its state, how often retried and returned
    worker,     \* the next statement of its handler
    hash,       \* the hash exportjob:<id> of each job
    object,     \* whether the CSV of a job is in the export bucket
    sent,       \* how often the SMTP server took each mail
    mishap      \* history: what happened to a job that its hash may not show

vars == <<api, task, worker, hash, object, sent, mishap>>

(* The times to live are left out: a hash lives for a day after its last   *)
(* write, longer than a task does.                                         *)
NoHash == [status |-> "none", error |-> FALSE, file |-> FALSE]
Hash == [status : {"none", "queued", "processing", "done", "failed"},
         error : BOOLEAN, file : BOOLEAN]
Task == [state : {"none", "pending", "active", "completed", "archived"},
         retried : 0..MaxRetry, returned : 0..MaxReturns]

Goto(t, statement) == worker' = [worker EXCEPT ![t] = statement]
Mishap(j) == mishap' = [mishap EXCEPT ![j] = TRUE]

(* HSET: nobody looks at its result, so it may also write nothing.         *)
HSet(j, fields) ==
    \/ hash' = [hash EXCEPT ![j] = fields] /\ UNCHANGED mishap
    \/ UNCHANGED hash /\ Mishap(j)

(* Mutation: an error is not taken for a failure.                          *)
SetJobStatusOnly(j, status, error) ==
    HSet(j, [hash[j] EXCEPT !.status = IF error THEN "processing" ELSE status])
(* setJob writes the error only when there is one, and clears none.        *)
SetJob(j, status, error) ==
    HSet(j, [hash[j] EXCEPT !.status = status, !.error = @ \/ error])

(* Status: the download URL is given when the job is done and has a key.   *)
Status(j) == [status |-> hash[j].status, error |-> hash[j].error,
              url |-> hash[j].status = "done" /\ hash[j].file]

Init ==
    /\ api = [t \in Tasks |-> "idle"]
    /\ task = [t \in Tasks |-> [state |-> "none", retried |-> 0, returned |-> 0]]
    /\ worker = [t \in Tasks |-> "idle"]
    /\ hash = [j \in Jobs |-> NoHash]
    /\ object = [j \in Jobs |-> FALSE]
    /\ sent = [m \in Mails |-> 0]
    /\ mishap = [j \in Jobs |-> FALSE]

-----------------------------------------------------------------------------
(* A client of asynq puts a task into Redis, or cannot.                    *)
Enqueue(t, then) ==
    /\ api[t] = "idle"
    /\ \/ /\ api' = [api EXCEPT ![t] = then]
          /\ task' = [task EXCEPT ![t].state = "pending"]
       \/ /\ api' = [api EXCEPT ![t] = "refused"]
          /\ UNCHANGED task
    /\ UNCHANGED <<worker, hash, object, sent, mishap>>

(* QueueExport: the task goes out, and then the hash is written.           *)
QueueExport(j) == Enqueue(j, "register")
(* notifyEmployee: a task, and no hash.                                    *)
NotifyEmployee(m) == Enqueue(m, "answered")

(* The worker may have been faster.                                        *)
Register(j) ==
    /\ api[j] = "register"
    /\ api' = [api EXCEPT ![j] = "answered"]
    /\ IF task[j].state = "pending" /\ task[j].retried = 0 /\ task[j].returned = 0
       THEN HSet(j, [hash[j] EXCEPT !.status = "queued"])
       ELSE /\ hash' \in {hash, [hash EXCEPT ![j].status = "queued"]}
            /\ Mishap(j)
    /\ UNCHANGED <<task, worker, object, sent>>

-----------------------------------------------------------------------------
(* asynq: a pending task is delivered; a failed one is put back, or        *)
(* archived once its retries are used up.                                  *)
Deliver(t) ==
    /\ task[t].state = "pending"
    /\ task' = [task EXCEPT ![t].state = "active"]
    /\ Goto(t, IF t \in Jobs THEN "start" ELSE "send")
    /\ UNCHANGED <<api, hash, object, sent, mishap>>

(* Mutation: the retries are never used up.                                *)
PutBackForever(t) ==
    task' = [task EXCEPT ![t].state = "pending"]
PutBack(t) ==
    \/ /\ task[t].retried < MaxRetry
       /\ task' = [task EXCEPT ![t].state = "pending", ![t].retried = @ + 1]
    \/ /\ task[t].retried = MaxRetry
       /\ task' = [task EXCEPT ![t].state = "archived"]

Complete(t) ==
    /\ worker[t] = "completed"
    /\ task' = [task EXCEPT ![t].state = "completed"]
    /\ Goto(t, "idle")
    /\ UNCHANGED <<api, hash, object, sent, mishap>>
Retry(t) ==
    /\ worker[t] = "failed"
    /\ PutBack(t)
    /\ Goto(t, "idle")
    /\ UNCHANGED <<api, hash, object, sent, mishap>>

(* The worker dies, at any statement: asynq finds the task when its lease  *)
(* has run out, and treats it as one that failed.                          *)
Crash(t) ==
    /\ Crashes
    /\ worker[t] # "idle"
    /\ PutBack(t)
    /\ Goto(t, "idle")
    /\ mishap' = [j \in Jobs |-> mishap[j] \/ j = t]
    /\ UNCHANGED <<api, hash, object, sent>>
(* The worker is shut down and does not wait for the handler.              *)
Shutdown(t) ==
    /\ Crashes
    /\ worker[t] # "idle"
    /\ task[t].returned < MaxReturns
    /\ task' = [task EXCEPT ![t].state = "pending", ![t].returned = @ + 1]
    /\ Goto(t, "idle")
    /\ UNCHANGED <<api, hash, object, sent, mishap>>

-----------------------------------------------------------------------------
(* handleReport.                                                           *)
StartReport(j) ==
    /\ worker[j] = "start"
    /\ SetJob(j, "processing", FALSE)
    /\ Goto(j, "query")
    /\ UNCHANGED <<api, task, object, sent>>

(* Mutation: an upload that fails is taken for one that succeeds.          *)
GiveUpOnQueryOnly(j) ==
    /\ worker[j] \in {"query", "upload"}
    /\ IF worker[j] = "query"
       THEN SetJob(j, "failed", TRUE) /\ Goto(j, "failed")
       ELSE Goto(j, "key") /\ UNCHANGED <<hash, mishap>>
    /\ UNCHANGED <<api, task, object, sent>>
(* The query, or the upload, fails.                                        *)
GiveUp(j) ==
    /\ worker[j] \in {"query", "upload"}
    /\ SetJob(j, "failed", TRUE)
    /\ Goto(j, "failed")
    /\ UNCHANGED <<api, task, object, sent>>

QueryClaims(j) ==
    /\ worker[j] = "query"
    /\ Goto(j, "upload")
    /\ UNCHANGED <<api, task, hash, object, sent, mishap>>
PutObject(j) ==
    /\ worker[j] = "upload"
    /\ object' = [object EXCEPT ![j] = TRUE]
    /\ Goto(j, "key")
    /\ UNCHANGED <<api, task, hash, sent, mishap>>
RecordKey(j) ==
    /\ worker[j] = "key"
    /\ HSet(j, [hash[j] EXCEPT !.file = TRUE])
    /\ Goto(j, "done")
    /\ UNCHANGED <<api, task, object, sent>>
Finish(j) ==
    /\ worker[j] = "done"
    /\ SetJob(j, "done", FALSE)
    /\ Goto(j, "completed")
    /\ UNCHANGED <<api, task, object, sent>>

-----------------------------------------------------------------------------
(* Mutation: the error of SendMail is dropped.                             *)
SendMailAnyway(m) ==
    /\ worker[m] = "send"
    /\ sent' \in {sent, [sent EXCEPT ![m] = @ + 1]}
    /\ Goto(m, "completed")
    /\ UNCHANGED <<api, task, hash, object, mishap>>
(* handleEmail: an error does not tell whether the mail was taken.         *)
SendMail(m) ==
    /\ worker[m] = "send"
    /\ \/ sent' = [sent EXCEPT ![m] = @ + 1] /\ Goto(m, "completed")
       \/ sent' \in {sent, [sent EXCEPT ![m] = @ + 1]} /\ Goto(m, "failed")
    /\ UNCHANGED <<api, task, hash, object, mishap>>

-----------------------------------------------------------------------------
HandleReport(j) ==
    \/ StartReport(j) \/ QueryClaims(j) \/ PutObject(j) \/ RecordKey(j)
    \/ Finish(j) \/ GiveUp(j)

Handle(t) ==
    \/ t \in Jobs /\ HandleReport(t)
    \/ t \in Mails /\ SendMail(t)
    \/ Complete(t) \/ Retry(t) \/ Crash(t) \/ Shutdown(t)

Next ==
    \/ \E j \in Jobs : QueueExport(j) \/ Register(j)
    \/ \E m \in Mails : NotifyEmployee(m)
    \/ \E t \in Tasks : Deliver(t) \/ Handle(t)

(* A running asynq server keeps taking tasks, and a handler it has called  *)
(* ends, well or badly.  Nothing is assumed of the API, and crashes and    *)
(* failures may always happen.                                             *)
Spec ==
    /\ Init /\ [][Next]_vars
    /\ \A t \in Tasks : WF_vars(Deliver(t)) /\ WF_vars(Handle(t))

-----------------------------------------------------------------------------
TypeOK ==
    /\ api \in [Tasks -> {"idle", "register", "answered", "refused"}]
    /\ task \in [Tasks -> Task]
    /\ worker \in [Tasks -> {"idle", "start", "query", "upload", "key", "done",
                             "send", "completed", "failed"}]
    /\ hash \in [Jobs -> Hash]
    /\ object \in [Jobs -> BOOLEAN]
    /\ sent \in [Mails -> Nat]
    /\ mishap \in [Jobs -> BOOLEAN]

(* A poller that is given a URL finds the file behind it, and a task that  *)
(* completed has stored it, whatever was retried, lost or overwritten      *)
(* (handleReport: upload, then file_key, then the status).                 *)
DoneMeansStored ==
    \A j \in Jobs :
        \/ Status(j).url
        \/ Status(j).status = "done"
        \/ task[j].state = "completed"
        => object[j]

(* A poller learns how the export ended: completed reads done, with the    *)
(* URL, and archived reads failed, with the error -- unless a write to     *)
(* Redis was lost, a worker died, or the API registered the job late.  An  *)
(* error next to "done" is that of an attempt that was retried.            *)
PollersLearnTheOutcome ==
    \A j \in Jobs : ~mishap[j] =>
        /\ task[j].state = "completed" =>
              /\ Status(j).status = "done" /\ Status(j).url
              /\ Status(j).error => task[j].retried > 0 \/ task[j].returned > 0
        /\ task[j].state = "archived" =>
              Status(j).status = "failed" /\ Status(j).error

(* A mail task that completed was sent, and none is sent more often than   *)
(* its attempts: the first one, MaxRetry retries (workflow.go, MaxRetry),  *)
(* and one for each shutdown that gave it back.                            *)
MailsAreSentPerAttempt ==
    \A m \in Mails :
        /\ task[m].state = "completed" => sent[m] > 0
        /\ sent[m] <= 1 + task[m].retried + task[m].returned
        /\ task[m].retried <= MaxRetry

(* Every task that was queued comes to an end, completed or archived,      *)
(* though queries, uploads and mails fail and workers die (MaxRetry).      *)
EveryTaskEnds ==
    \A t \in Tasks :
        task[t].state = "pending" ~> task[t].state \in {"completed", "archived"}

(* docs/04-api-contract.md: polling gives the download URL when the job is *)
(* done, so a job that is done does not become unfinished again.           *)
DoneStays ==
    [][\A j \in Jobs : hash[j].status = "done" => hash'[j].status = "done"]_vars
=============================================================================
