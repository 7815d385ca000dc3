------------------------------ MODULE JobQueue ------------------------------
(***************************************************************************)
(* The job queue in Redis (apex_common/redis_queue.py), as the v3          *)
(* orchestrator's endpoints and the workers behind it use it.              *)
(*                                                                         *)
(* Every helper is a list of Redis commands with an await between each two *)
(* of them, so a task is modelled by the commands it has still to send:    *)
(* commands of different tasks interleave, and a task may end anywhere (a  *)
(* process that dies, a cancelled request, a command that raises).         *)
(* The workers are not in the repository: that they call the helpers in    *)
(* the order the helpers' names give is an assumption.                     *)
(***************************************************************************)
EXTENDS Integers, Sequences, FiniteSets

CONSTANTS
    Jobs,          \* job ids: idempotency keys
    Tasks,         \* coroutines of the orchestrators and of the workers
    MaxMessages    \* bound: messages one job puts on the stream

ASSUME QueueAssumption == MaxMessages \in Nat \ {0}

VARIABLES
    record,     \* the hash under job_key(job_id)
    messages,   \* messages put on STREAM for a job
    taken,      \* messages of a job the consumer group has handed out
    delayed,    \* DELAYED_ZSET
    task,       \* of each coroutine: its job and the commands left to send
    excused,    \* history: jobs with a reason for a second message
    scheduled,  \* history: jobs whose retry is scheduled and not yet queued
    dropped     \* history: jobs popped from the set by a task that died

vars == <<record, messages, taken, delayed, task, excused, scheduled, dropped>>
queue == <<messages, taken, delayed>>
history == <<excused, scheduled, dropped>>

Status == {"none", "QUEUED", "RETRY_SCHEDULED", "DLQ", "DONE"}
Command == {"lookup", "get", "xadd", "create", "expire", "bump", "zadd",
            "zadd again", "zpopmin", "dlq", "QUEUED", "RETRY_SCHEDULED",
            "DLQ", "DONE"}

(* A hash exists when a field of it was written: status is "none" for one  *)
(* that holds the attempts alone.                                          *)
NoRecord == [there |-> FALSE, status |-> "none", payload |-> FALSE, ttl |-> FALSE]

TypeOK ==
    /\ record \in [Jobs -> [there : BOOLEAN, status : Status,
                            payload : BOOLEAN, ttl : BOOLEAN]]
    /\ messages \in [Jobs -> 0..MaxMessages]
    /\ \A j \in Jobs : taken[j] \in 0..messages[j]
    /\ delayed \subseteq Jobs
    /\ \A t \in Tasks : task[t].job \in Jobs /\ task[t].todo \in Seq(Command)
    /\ excused \subseteq Jobs /\ scheduled \subseteq Jobs /\ dropped \subseteq Jobs

-----------------------------------------------------------------------------
Idle(t) == task[t].todo = <<>>
Sends(t, c) == ~Idle(t) /\ Head(task[t].todo) = c
Plan(t, j, commands) == task' = [task EXCEPT ![t] = [job |-> j, todo |-> commands]]
Continue(t) == task' = [task EXCEPT ![t].todo = Tail(@)]
Has(t, c) == \E i \in DOMAIN task[t].todo : task[t].todo[i] = c

Init ==
    /\ record = [j \in Jobs |-> NoRecord]
    /\ messages = [j \in Jobs |-> 0]
    /\ taken = [j \in Jobs |-> 0]
    /\ delayed = {}
    /\ \E j \in Jobs : task = [t \in Tasks |-> [job |-> j, todo |-> <<>>]]
    /\ excused = {} /\ scheduled = {} /\ dropped = {}

Begin(t, j, commands) ==
    /\ Idle(t)
    /\ Plan(t, j, commands)
    /\ UNCHANGED <<record, queue, history>>

SetStatus(s) == <<s, "expire">>

(* POST /orchestrate_async with an idempotency key.                        *)
OrchestrateAsync(t, j) == Begin(t, j, <<"lookup">>)

(* POST /jobs/{job_id}/retry.                                              *)
RetryJob(t, j) == Begin(t, j, <<"get">>)

(* enqueue_job after its look-up, then set_job_status by the endpoint.     *)
EnqueueJob == <<"xadd", "create", "expire">> \o SetStatus("QUEUED")

RequeueJob == <<"xadd">> \o SetStatus("QUEUED")
ScheduleRetry == <<"zadd">> \o SetStatus("RETRY_SCHEDULED")
SendToDlq == <<"dlq">> \o SetStatus("DLQ")
SetJobResult == SetStatus("DONE")
BumpAttempts == <<"bump", "expire">>

Concurrent(t, j) ==
    \E u \in Tasks \ {t} : task[u].job = j /\ Has(u, "create")

(* Mutant: the look-up does not stop a job that is known.                  *)
LookupIsIgnored(t) ==
    /\ Sends(t, "lookup")
    /\ Plan(t, task[t].job, EnqueueJob)
    /\ excused' = excused \cup {j \in {task[t].job} : Concurrent(t, j)}
    /\ UNCHANGED <<record, queue, scheduled, dropped>>

(* hgetall of enqueue_job.                                                 *)
Lookup(t) ==
    LET j == task[t].job IN
    /\ Sends(t, "lookup")
    /\ IF record[j].status # "none"
         THEN Plan(t, j, <<>>) /\ UNCHANGED excused
         ELSE /\ Plan(t, j, EnqueueJob)
              /\ excused' = IF Concurrent(t, j) THEN excused \cup {j} ELSE excused
    /\ UNCHANGED <<record, queue, scheduled, dropped>>

(* get_job of the retry endpoint: an unknown job is refused with 404, and  *)
(* a job of any status is put on the stream again.                         *)
GetJob(t) ==
    LET j == task[t].job IN
    /\ Sends(t, "get")
    /\ IF record[j].there
         THEN Plan(t, j, RequeueJob) /\ excused' = excused \cup {j}
         ELSE Plan(t, j, <<>>) /\ UNCHANGED excused
    /\ UNCHANGED <<record, queue, scheduled, dropped>>

Xadd(t) ==
    LET j == task[t].job IN
    /\ Sends(t, "xadd")
    /\ messages[j] < MaxMessages
    /\ messages' = [messages EXCEPT ![j] = @ + 1]
    /\ scheduled' = scheduled \ {j}
    /\ Continue(t)
    /\ UNCHANGED <<record, taken, delayed, excused, dropped>>

Write(t, r) ==
    /\ record' = [record EXCEPT ![task[t].job] = r]
    /\ Continue(t)
    /\ UNCHANGED <<queue, history>>

Create(t) ==
    /\ Sends(t, "create")
    /\ Write(t, [record[task[t].job] EXCEPT
                    !.there = TRUE, !.status = "QUEUED", !.payload = TRUE])

HsetStatus(t) ==
    \E s \in Status :
        /\ Sends(t, s)
        /\ Write(t, [record[task[t].job] EXCEPT !.there = TRUE, !.status = s])

Hincrby(t) ==
    /\ Sends(t, "bump")
    /\ Write(t, [record[task[t].job] EXCEPT !.there = TRUE])

(* EXPIRE does nothing for a key that is not there.                        *)
Expire(t) ==
    /\ Sends(t, "expire")
    /\ Write(t, [record[task[t].job] EXCEPT !.ttl = @ \/ record[task[t].job].there])

XaddDlq(t) ==
    /\ Sends(t, "dlq")
    /\ Write(t, record[task[t].job])

Zadd(t) ==
    /\ Sends(t, "zadd") \/ Sends(t, "zadd again")
    /\ delayed' = delayed \cup {task[t].job}
    /\ scheduled' = IF Sends(t, "zadd") THEN scheduled \cup {task[t].job}
                                        ELSE scheduled
    /\ Continue(t)
    /\ UNCHANGED <<record, messages, taken, excused, dropped>>

-----------------------------------------------------------------------------
(* The worker (external) is handed a message, and ends the job, gives it   *)
(* up, or has it tried again later.                                        *)
Work(t) ==
    \E j \in Jobs, outcome \in {SetJobResult, SendToDlq, ScheduleRetry} :
        /\ Idle(t)
        /\ taken[j] < messages[j]
        /\ taken' = [taken EXCEPT ![j] = @ + 1]
        /\ Plan(t, j, BumpAttempts \o outcome)
        /\ excused' = IF outcome = ScheduleRetry THEN excused \cup {j} ELSE excused
        /\ UNCHANGED <<record, messages, delayed, scheduled, dropped>>

(* Mutant: a job that is popped before its time is not put back.           *)
PopForgetsEarlyJob(t) ==
    \E j \in delayed, due \in BOOLEAN :
        /\ Idle(t)
        /\ delayed' = delayed \ {j}
        /\ Plan(t, j, IF due THEN RequeueJob ELSE <<>>)
        /\ UNCHANGED <<record, messages, taken, history>>

(* pop_due_retry, and requeue_job for the job it returns: ZPOPMIN takes    *)
(* the earliest job off the set, and only then is its time looked at.      *)
PopDueRetry(t) ==
    \E j \in delayed, due \in BOOLEAN :
        /\ Idle(t)
        /\ delayed' = delayed \ {j}
        /\ Plan(t, j, IF due THEN RequeueJob ELSE <<"zadd again">>)
        /\ UNCHANGED <<record, messages, taken, history>>

(* The rest of the commands is never sent.                                 *)
Die(t) ==
    LET j == task[t].job IN
    /\ ~Idle(t)
    /\ Plan(t, j, <<>>)
    /\ excused' = IF Has(t, "create") THEN excused \cup {j} ELSE excused
    /\ dropped' = IF Has(t, "xadd") \/ Has(t, "zadd again")
                    THEN dropped \cup {j} ELSE dropped
    /\ UNCHANGED <<record, queue, scheduled>>

(* The time to live of a record runs out.                                  *)
TtlEnds(j) ==
    /\ record[j].ttl
    /\ record' = [record EXCEPT ![j] = NoRecord]
    /\ excused' = excused \cup {j}
    /\ UNCHANGED <<queue, task, scheduled, dropped>>

Next ==
    \/ \E t \in Tasks :
          \/ \E j \in Jobs : OrchestrateAsync(t, j) \/ RetryJob(t, j)
          \/ Lookup(t) \/ GetJob(t)
          \/ Xadd(t) \/ Create(t) \/ HsetStatus(t) \/ Hincrby(t) \/ Expire(t)
          \/ XaddDlq(t) \/ Zadd(t)
          \/ Work(t) \/ PopDueRetry(t)
          \/ Die(t)
    \/ \E j \in Jobs : TtlEnds(j)

Spec == Init /\ [][Next]_vars

-----------------------------------------------------------------------------
(* An idempotency key puts one message on the stream, and so causes one    *)
(* execution, unless one of these happened: two requests with the key were *)
(* between look-up and record at once, a task died there, the record       *)
(* outlived its day, or somebody asked for a retry (redis_queue.py:42-54). *)
OneMessagePerKey == \A j \in Jobs : messages[j] > 1 => j \in excused

(* A retry that was scheduled stays in the set until it is on the stream   *)
(* again, except while a task holds it, and it is lost only if that task   *)
(* dies: several workers that pop and put back early jobs lose none        *)
(* (redis_queue.py:83-100).                                                *)
ScheduledRetryIsKept ==
    scheduled \subseteq
        delayed \cup dropped \cup
        {task[t].job : t \in {u \in Tasks : Has(u, "xadd") \/ Has(u, "zadd again")}}
=============================================================================
