--------------------------- MODULE JobQueue_proofs ---------------------------
(***************************************************************************)
(* Type correctness of JobQueue.tla, that an idempotency key puts one      *)
(* message on the stream unless there is a reason for another, and that a  *)
(* scheduled retry is kept: for any jobs and any number of tasks whose     *)
(* commands interleave, and wherever a task dies.                          *)
(***************************************************************************)
EXTENDS JobQueue, SequenceTheorems, TLAPS

Record == [there : BOOLEAN, status : Status, payload : BOOLEAN, ttl : BOOLEAN]

Typed ==
    /\ record \in [Jobs -> Record]
    /\ messages \in [Jobs -> 0..MaxMessages]
    /\ taken \in [Jobs -> Nat] /\ \A j \in Jobs : taken[j] <= messages[j]
    /\ delayed \subseteq Jobs
    /\ task \in [Tasks -> [job : Jobs, todo : Seq(Command)]]
    /\ excused \subseteq Jobs /\ scheduled \subseteq Jobs /\ dropped \subseteq Jobs

(* A task that still looks its job up holds no retry.                      *)
Holds(t) == Has(t, "xadd") \/ Has(t, "zadd again")

LooksFirst ==
    \A t \in Tasks : Has(t, "lookup") \/ Has(t, "get") => ~Holds(t) /\ ~Has(t, "create")

RetriesKept ==
    \A j \in scheduled :
        j \in delayed \/ j \in dropped \/ \E t \in Tasks : task[t].job = j /\ Holds(t)

(* A job without a reason for a second message: nobody retries it, one     *)
(* task at most records it, what goes on the stream is put there by that   *)
(* task, before it writes the record, and the record is there from then on.*)
Creates(t, j) == task[t].job = j /\ Has(t, "create")

OneSource(j) ==
    /\ j \notin delayed
    /\ messages[j] <= 1
    /\ messages[j] = 1 =>
          record[j].status # "none" \/ \E t \in Tasks : Creates(t, j)
    /\ \A t \in Tasks : task[t].job = j =>
          /\ ~Has(t, "zadd") /\ ~Has(t, "zadd again")
          /\ Has(t, "xadd") => task[t].todo = EnqueueJob /\ messages[j] = 0
    /\ \A t, u \in Tasks : Creates(t, j) /\ Creates(u, j) => t = u

OneSourceEach == \A j \in Jobs : j \notin excused => OneSource(j)

IInv == Typed /\ LooksFirst /\ RetriesKept /\ OneSourceEach

-----------------------------------------------------------------------------
(* What commands a plan has.                                               *)
In(c, s) == \E i \in DOMAIN s : s[i] = c

(* The commands of two lists of commands, one after the other.             *)
LEMMA InConcat ==
    ASSUME NEW s \in Seq(Command), NEW u \in Seq(Command)
    PROVE  /\ s \o u \in Seq(Command)
           /\ \A c : In(c, s \o u) <=> In(c, s) \/ In(c, u)
<1>1. /\ s \o u \in Seq(Command) /\ Len(s \o u) = Len(s) + Len(u)
      /\ Len(s) \in Nat /\ Len(u) \in Nat
      /\ DOMAIN s = 1..Len(s) /\ DOMAIN u = 1..Len(u)
      /\ \A i \in 1..Len(s) + Len(u) :
            (s \o u)[i] = IF i <= Len(s) THEN s[i] ELSE u[i - Len(s)]
  BY ConcatProperties, LenProperties
<1>2. DOMAIN (s \o u) = 1..Len(s) + Len(u)
  BY <1>1, LenProperties
<1>3. \A c : In(c, s \o u) => In(c, s) \/ In(c, u)
  <2> SUFFICES ASSUME NEW c, NEW i \in 1..Len(s) + Len(u), (s \o u)[i] = c
               PROVE  In(c, s) \/ In(c, u)
    BY <1>2 DEF In
  <2>1. CASE i <= Len(s)
    BY <1>1, <2>1 DEF In
  <2>2. CASE ~(i <= Len(s))
    <3>1. i - Len(s) \in 1..Len(u) /\ u[i - Len(s)] = c
      BY <1>1, <2>2
    <3> QED BY <1>1, <3>1 DEF In
  <2> QED BY <2>1, <2>2
<1>4. \A c : In(c, s) \/ In(c, u) => In(c, s \o u)
  <2> SUFFICES ASSUME NEW c, In(c, s) \/ In(c, u) PROVE In(c, s \o u)
    OBVIOUS
  <2>1. CASE In(c, s)
    <3>1. PICK i \in 1..Len(s) : s[i] = c
      BY <1>1, <2>1 DEF In
    <3>2. i \in 1..Len(s) + Len(u) /\ (s \o u)[i] = c
      BY <1>1, <3>1
    <3> QED BY <1>2, <3>2 DEF In
  <2>2. CASE In(c, u)
    <3>1. PICK i \in 1..Len(u) : u[i] = c
      BY <1>1, <2>2 DEF In
    <3>2. i + Len(s) \in 1..Len(s) + Len(u) /\ (s \o u)[i + Len(s)] = c
      BY <1>1, <3>1
    <3> QED BY <1>2, <3>2 DEF In
  <2> QED BY <2>1, <2>2
<1> QED BY <1>1, <1>3, <1>4

(* A list of commands without its first.                                   *)
LEMMA InTail ==
    ASSUME NEW s \in Seq(Command), s # <<>>
    PROVE  /\ Head(s) \in Command /\ Tail(s) \in Seq(Command) /\ In(Head(s), s)
           /\ \A c : In(c, Tail(s)) => In(c, s)
           /\ \A c : In(c, s) => Head(s) = c \/ In(c, Tail(s))
<1>1. /\ Len(s) \in Nat \ {0} /\ Len(Tail(s)) = Len(s) - 1 /\ Tail(s) \in Seq(Command)
      /\ Head(s) \in Command /\ Head(s) = s[1]
      /\ \A i \in 1..Len(Tail(s)) : Tail(s)[i] = s[i + 1]
  BY HeadTailProperties, EmptySeq, LenProperties
<1>2. DOMAIN s = 1..Len(s) /\ DOMAIN Tail(s) = 1..Len(Tail(s))
  BY <1>1, LenProperties
<1>3. \A c : In(c, Tail(s)) => In(c, s)
  <2> SUFFICES ASSUME NEW c, NEW i \in 1..Len(Tail(s)), Tail(s)[i] = c PROVE In(c, s)
    BY <1>2 DEF In
  <2>1. i + 1 \in 1..Len(s) /\ s[i + 1] = c
    BY <1>1
  <2> QED BY <1>2, <2>1 DEF In
<1>4. \A c : In(c, s) => Head(s) = c \/ In(c, Tail(s))
  <2> SUFFICES ASSUME NEW c, NEW i \in 1..Len(s), s[i] = c, i # 1 PROVE In(c, Tail(s))
    BY <1>1, <1>2 DEF In
  <2>1. i - 1 \in 1..Len(Tail(s)) /\ Tail(s)[i - 1] = c
    BY <1>1
  <2> QED BY <1>2, <2>1 DEF In
<1>5. In(Head(s), s)
  BY <1>1, <1>2 DEF In
<1> QED BY <1>1, <1>3, <1>4, <1>5

(* What the helpers send (redis_queue.py:42-137).                          *)
LEMMA Plans ==
    /\ EnqueueJob \in Seq(Command)
    /\ \A c : In(c, EnqueueJob) <=> c \in {"xadd", "create", "expire", "QUEUED"}
    /\ RequeueJob \in Seq(Command)
    /\ \A c : In(c, RequeueJob) <=> c \in {"xadd", "expire", "QUEUED"}
    /\ BumpAttempts \o SetJobResult \in Seq(Command)
    /\ \A c : In(c, BumpAttempts \o SetJobResult) <=> c \in {"bump", "expire", "DONE"}
    /\ BumpAttempts \o SendToDlq \in Seq(Command)
    /\ \A c : In(c, BumpAttempts \o SendToDlq) <=> c \in {"bump", "expire", "dlq", "DLQ"}
    /\ BumpAttempts \o ScheduleRetry \in Seq(Command)
    /\ \A c : In(c, BumpAttempts \o ScheduleRetry)
                <=> c \in {"bump", "expire", "zadd", "RETRY_SCHEDULED"}
<1>1. /\ <<"xadd", "create", "expire">> \in Seq(Command) /\ <<"xadd">> \in Seq(Command)
      /\ <<"bump", "expire">> \in Seq(Command) /\ <<"zadd">> \in Seq(Command)
      /\ <<"dlq">> \in Seq(Command)
      /\ \A s \in {"QUEUED", "RETRY_SCHEDULED", "DLQ", "DONE"} : SetStatus(s) \in Seq(Command)
  BY DEF Command, SetStatus
<1>2. /\ \A c : In(c, <<"xadd", "create", "expire">>) <=> c \in {"xadd", "create", "expire"}
      /\ \A c : In(c, <<"xadd">>) <=> c = "xadd"
      /\ \A c : In(c, <<"bump", "expire">>) <=> c \in {"bump", "expire"}
      /\ \A c : In(c, <<"zadd">>) <=> c = "zadd"
      /\ \A c : In(c, <<"dlq">>) <=> c = "dlq"
      /\ \A s, c : In(c, SetStatus(s)) <=> c \in {s, "expire"}
  BY DEF In, SetStatus
<1>3. /\ EnqueueJob \in Seq(Command)
      /\ \A c : In(c, EnqueueJob) <=> c \in {"xadd", "create", "expire", "QUEUED"}
  BY <1>1, <1>2, InConcat DEF EnqueueJob
<1>4. /\ RequeueJob \in Seq(Command)
      /\ \A c : In(c, RequeueJob) <=> c \in {"xadd", "expire", "QUEUED"}
  <2>1. SetStatus("QUEUED") \in Seq(Command) /\ RequeueJob = <<"xadd">> \o SetStatus("QUEUED")
    BY <1>1 DEF RequeueJob
  <2>2. /\ RequeueJob \in Seq(Command)
        /\ \A c : In(c, RequeueJob) <=> In(c, <<"xadd">>) \/ In(c, SetStatus("QUEUED"))
    BY <1>1, <2>1, InConcat
  <2> QED BY <1>2, <2>2
<1>5. /\ SendToDlq \in Seq(Command)
      /\ \A c : In(c, SendToDlq) <=> c \in {"dlq", "DLQ", "expire"}
  BY <1>1, <1>2, InConcat DEF SendToDlq
<1>6. /\ ScheduleRetry \in Seq(Command)
      /\ \A c : In(c, ScheduleRetry) <=> c \in {"zadd", "RETRY_SCHEDULED", "expire"}
  BY <1>1, <1>2, InConcat DEF ScheduleRetry
<1>7. /\ BumpAttempts \o SetJobResult \in Seq(Command)
      /\ \A c : In(c, BumpAttempts \o SetJobResult) <=> c \in {"bump", "expire", "DONE"}
  BY <1>1, <1>2, InConcat DEF BumpAttempts, SetJobResult
<1>8. /\ BumpAttempts \o SendToDlq \in Seq(Command)
      /\ \A c : In(c, BumpAttempts \o SendToDlq) <=> c \in {"bump", "expire", "dlq", "DLQ"}
  BY <1>1, <1>2, <1>5, InConcat DEF BumpAttempts
<1>9. /\ BumpAttempts \o ScheduleRetry \in Seq(Command)
      /\ \A c : In(c, BumpAttempts \o ScheduleRetry)
                  <=> c \in {"bump", "expire", "zadd", "RETRY_SCHEDULED"}
  BY <1>1, <1>2, <1>6, InConcat DEF BumpAttempts
<1> QED BY <1>3, <1>4, <1>7, <1>8, <1>9

(* enqueue_job puts the message on the stream first, and once.             *)
LEMMA EnqueueStartsWithXadd ==
    /\ EnqueueJob # <<>> /\ Head(EnqueueJob) = "xadd"
    /\ ~In("xadd", Tail(EnqueueJob)) /\ In("create", Tail(EnqueueJob))
<1> DEFINE a == <<"xadd", "create", "expire">>
           b == <<"QUEUED", "expire">>
<1>1. a \in Seq(Command) /\ b \in Seq(Command) /\ Len(a) = 3 /\ Len(b) = 2
      /\ a[1] = "xadd" /\ a[2] = "create" /\ a[3] = "expire"
      /\ b[1] = "QUEUED" /\ b[2] = "expire"
  BY DEF Command
<1>2. EnqueueJob = a \o b
  BY DEF EnqueueJob, SetStatus
<1> HIDE DEF a, b
<1>3. /\ EnqueueJob \in Seq(Command) /\ Len(EnqueueJob) = 5
      /\ EnqueueJob[1] = "xadd" /\ EnqueueJob[2] = "create" /\ EnqueueJob[3] = "expire"
      /\ EnqueueJob[4] = "QUEUED" /\ EnqueueJob[5] = "expire"
  <2>1. /\ a \o b \in Seq(Command) /\ Len(a \o b) = Len(a) + Len(b)
        /\ \A i \in 1..Len(a) + Len(b) : (a \o b)[i] = IF i <= Len(a) THEN a[i] ELSE b[i - Len(a)]
    BY <1>1, ConcatProperties
  <2>2. \A i \in 1..5 : EnqueueJob[i] = IF i <= 3 THEN a[i] ELSE b[i - 3]
    BY <1>1, <1>2, <2>1
  <2>3. /\ EnqueueJob[1] = a[1] /\ EnqueueJob[2] = a[2] /\ EnqueueJob[3] = a[3]
        /\ EnqueueJob[4] = b[1] /\ EnqueueJob[5] = b[2]
    BY <2>2
  <2> QED BY <1>1, <1>2, <2>1, <2>3
<1>4. EnqueueJob # <<>>
  BY <1>3, EmptySeq
<1>5. /\ Tail(EnqueueJob) \in Seq(Command) /\ Len(Tail(EnqueueJob)) = 4
      /\ \A i \in 1..4 : Tail(EnqueueJob)[i] = EnqueueJob[i + 1]
  BY <1>3, <1>4, HeadTailProperties
<1>6. DOMAIN Tail(EnqueueJob) = 1..4
  BY <1>5, LenProperties
<1>7. Head(EnqueueJob) = "xadd"
  BY <1>3
<1>8. \A i \in 1..4 : Tail(EnqueueJob)[i] # "xadd"
  <2>1. \A i \in 2..5 : EnqueueJob[i] # "xadd"
    <3>1. \A i \in 2..5 : i = 2 \/ i = 3 \/ i = 4 \/ i = 5
      OBVIOUS
    <3> QED BY <1>3, <3>1
  <2>2. \A i \in 1..4 : i + 1 \in 2..5
    OBVIOUS
  <2> QED BY <1>5, <2>1, <2>2
<1>9. Tail(EnqueueJob)[1] = "create"
  BY <1>3, <1>5
<1>10. ~In("xadd", Tail(EnqueueJob))
  BY <1>6, <1>8 DEF In
<1>11. In("create", Tail(EnqueueJob))
  <2>1. 1 \in 1..4
    OBVIOUS
  <2> QED BY <1>6, <1>9, <2>1 DEF In
<1> QED BY <1>4, <1>7, <1>10, <1>11

(* It has no retry and no look-up in it.                                   *)
LEMMA EnqueueHas ==
    /\ ~In("zadd", EnqueueJob) /\ ~In("zadd again", EnqueueJob)
    /\ ~In("lookup", EnqueueJob) /\ ~In("get", EnqueueJob)
    /\ In("create", EnqueueJob)
<1> DEFINE e == EnqueueJob
<1>1. \A c : In(c, e) <=> c \in {"xadd", "create", "expire", "QUEUED"}
  BY Plans
<1> HIDE DEF e
<1>2. ASSUME NEW c, c # "xadd", c # "create", c # "expire", c # "QUEUED" PROVE ~In(c, e)
  BY <1>1, <1>2
<1>3. ~In("zadd", e)
  BY <1>2
<1>4. ~In("zadd again", e)
  BY <1>2
<1>5. ~In("lookup", e)
  BY <1>2
<1>6. ~In("get", e)
  BY <1>2
<1>7. In("create", e)
  BY <1>1
<1> QED BY <1>3, <1>4, <1>5, <1>6, <1>7 DEF e

(* Neither has the plan of a message for a job that is known.              *)
LEMMA RequeueHas ==
    /\ ~In("lookup", RequeueJob) /\ ~In("get", RequeueJob) /\ ~In("create", RequeueJob)
    /\ In("xadd", RequeueJob)
<1> DEFINE e == RequeueJob
<1>1. \A c : In(c, e) <=> c \in {"xadd", "expire", "QUEUED"}
  BY Plans
<1> HIDE DEF e
<1>2. ASSUME NEW c, c # "xadd", c # "expire", c # "QUEUED" PROVE ~In(c, e)
  BY <1>1, <1>2
<1>3. ~In("lookup", e)
  BY <1>2
<1>4. ~In("get", e)
  BY <1>2
<1>5. ~In("create", e)
  BY <1>2
<1>6. In("xadd", e)
  BY <1>1
<1> QED BY <1>3, <1>4, <1>5, <1>6 DEF e

-----------------------------------------------------------------------------
(* A task sends the first of its commands and keeps the others.            *)
LEMMA Continues ==
    ASSUME Typed, NEW t \in Tasks, ~Idle(t), Continue(t)
    PROVE  /\ task' \in [Tasks -> [job : Jobs, todo : Seq(Command)]]
           /\ \A u \in Tasks : task'[u].job = task[u].job
           /\ \A u \in Tasks : u # t => task'[u] = task[u]
           /\ task'[t].todo = Tail(task[t].todo)
           /\ Has(t, Head(task[t].todo))
           /\ \A u \in Tasks : \A c : Has(u, c)' => Has(u, c)
           /\ \A u \in Tasks : \A c :
                 Has(u, c) => Has(u, c)' \/ (u = t /\ c = Head(task[t].todo))
<1>1. task[t].todo \in Seq(Command) /\ task[t].todo # <<>>
  BY DEF Typed, Idle
<1>2. task' = [task EXCEPT ![t] = [task[t] EXCEPT !.todo = Tail(task[t].todo)]]
  BY DEF Continue
<1>3. task[t] \in [job : Jobs, todo : Seq(Command)]
  BY DEF Typed
<1>4. [task[t] EXCEPT !.todo = Tail(task[t].todo)] \in [job : Jobs, todo : Seq(Command)]
  BY <1>1, <1>3, InTail
<1>5. /\ task' \in [Tasks -> [job : Jobs, todo : Seq(Command)]]
      /\ \A u \in Tasks : u # t => task'[u] = task[u]
      /\ task'[t] = [task[t] EXCEPT !.todo = Tail(task[t].todo)]
  BY <1>2, <1>4 DEF Typed
<1>6. task'[t].todo = Tail(task[t].todo) /\ task'[t].job = task[t].job
  BY <1>3, <1>5
<1>7. \A c : /\ (Has(t, c)' <=> In(c, Tail(task[t].todo)))
             /\ (Has(t, c) <=> In(c, task[t].todo))
  BY <1>6 DEF Has, In
<1>8. \A u \in Tasks : u # t => \A c : Has(u, c)' <=> Has(u, c)
  BY <1>5 DEF Has
<1>9. /\ Has(t, Head(task[t].todo))
      /\ \A c : Has(t, c)' => Has(t, c)
      /\ \A c : Has(t, c) => Has(t, c)' \/ c = Head(task[t].todo)
  BY <1>1, <1>7, InTail
<1>10. \A u \in Tasks : task'[u].job = task[u].job
  BY <1>5, <1>6
<1>11. \A u \in Tasks : \A c : Has(u, c)' => Has(u, c)
  BY <1>8, <1>9
<1>12. \A u \in Tasks : \A c :
          Has(u, c) => Has(u, c)' \/ (u = t /\ c = Head(task[t].todo))
  BY <1>8, <1>9
<1> QED BY <1>5, <1>6, <1>9, <1>10, <1>11, <1>12

(* A task begins something else.                                           *)
LEMMA Planned ==
    ASSUME Typed, NEW t \in Tasks, NEW j \in Jobs, NEW p \in Seq(Command), Plan(t, j, p)
    PROVE  /\ task' \in [Tasks -> [job : Jobs, todo : Seq(Command)]]
           /\ \A u \in Tasks : u # t => task'[u] = task[u] /\ \A c : Has(u, c)' <=> Has(u, c)
           /\ task'[t].job = j /\ task'[t].todo = p
           /\ \A c : Has(t, c)' <=> In(c, p)
<1>1. /\ task' \in [Tasks -> [job : Jobs, todo : Seq(Command)]]
      /\ \A u \in Tasks : u # t => task'[u] = task[u]
      /\ task'[t] = [job |-> j, todo |-> p]
  BY DEF Typed, Plan
<1> QED BY <1>1 DEF Has, In

(* An idle task has nothing to send, and a task that sends a command has it*)
LEMMA IdleHasNothing ==
    ASSUME NEW t, Idle(t) PROVE \A c : ~Has(t, c)
<1>1. DOMAIN <<>> = {}
  OBVIOUS
<1> QED BY <1>1 DEF Idle, Has

(* The command that a task sends is one of its own.                        *)
LEMMA SentIsHeld ==
    ASSUME Typed, NEW t \in Tasks, NEW c, Sends(t, c)
    PROVE  Has(t, c) /\ ~Idle(t) /\ Head(task[t].todo) = c
<1>1. task[t].todo \in Seq(Command) /\ task[t].todo # <<>> /\ Head(task[t].todo) = c
  BY DEF Typed, Idle, Sends
<1> QED BY <1>1, InTail DEF Has, In, Sends

-----------------------------------------------------------------------------
(* A step after which every job without a reason for a second message has  *)
(* the tasks, the messages and the record it had, or fewer tasks.          *)
LEMMA OneSourceStays ==
    ASSUME OneSourceEach, excused \subseteq excused',
           \A j \in Jobs : j \notin excused' =>
              /\ j \in delayed' => j \in delayed
              /\ messages'[j] = messages[j]
              /\ record[j].status # "none" => record'[j].status # "none"
              /\ \A t \in Tasks : task'[t].job = j =>
                    /\ Has(t, "zadd")' => task[t].job = j /\ Has(t, "zadd")
                    /\ Has(t, "zadd again")' => task[t].job = j /\ Has(t, "zadd again")
                    /\ Has(t, "xadd")' => task'[t] = task[t] /\ Has(t, "xadd")
                    /\ Has(t, "create")' => task[t].job = j /\ Has(t, "create")
              /\ record'[j].status # "none" \/
                    \A t \in Tasks : Creates(t, j) => Creates(t, j)'
    PROVE  OneSourceEach'
<1> SUFFICES ASSUME NEW j \in Jobs, j \notin excused' PROVE OneSource(j)'
  BY DEF OneSourceEach
<1>1. OneSource(j)
  BY DEF OneSourceEach
<1>2. j \notin delayed' /\ messages'[j] <= 1
  BY <1>1 DEF OneSource
<1>3. messages'[j] = 1 => record'[j].status # "none" \/ \E t \in Tasks : Creates(t, j)'
  BY <1>1 DEF OneSource
<1>4. \A t \in Tasks : task'[t].job = j =>
          /\ ~Has(t, "zadd")' /\ ~Has(t, "zadd again")'
          /\ Has(t, "xadd")' => task'[t].todo = EnqueueJob /\ messages'[j] = 0
  <2> SUFFICES ASSUME NEW t \in Tasks, task'[t].job = j
               PROVE  /\ ~Has(t, "zadd")' /\ ~Has(t, "zadd again")'
                      /\ Has(t, "xadd")' => task'[t].todo = EnqueueJob /\ messages'[j] = 0
    OBVIOUS
  <2>1. task[t].job = j => /\ ~Has(t, "zadd") /\ ~Has(t, "zadd again")
                           /\ Has(t, "xadd") => task[t].todo = EnqueueJob /\ messages[j] = 0
    BY <1>1 DEF OneSource
  <2>2. Has(t, "xadd")' => task'[t] = task[t] /\ Has(t, "xadd")
    OBVIOUS
  <2> QED BY <2>1, <2>2
<1>5. \A t, u \in Tasks : Creates(t, j)' /\ Creates(u, j)' => t = u
  BY <1>1 DEF OneSource, Creates
<1> QED BY <1>2, <1>3, <1>4, <1>5 DEF OneSource

(* A command that writes a record, or nothing: hset, hincrby, expire, and  *)
(* the xadd to the stream of the dead letters (redis_queue.py:56-81,       *)
(* 102-137).                                                               *)
LEMMA WriteStep ==
    ASSUME IInv, NEW t \in Tasks, NEW c, Sends(t, c),
           c \notin {"xadd", "zadd again"}, NEW r \in Record, Write(t, r),
           record[task[t].job].status # "none" \/ c = "create" => r.status # "none"
    PROVE  IInv'
<1> DEFINE j == task[t].job
<1>0. Typed /\ j \in Jobs /\ ~Idle(t) /\ Has(t, c) /\ Head(task[t].todo) = c
  BY SentIsHeld DEF IInv, Typed
<1>1. /\ record' = [record EXCEPT ![j] = r] /\ Continue(t)
      /\ UNCHANGED <<messages, taken, delayed, excused, scheduled, dropped>>
  BY DEF Write, queue, history
<1>2. /\ task' \in [Tasks -> [job : Jobs, todo : Seq(Command)]]
      /\ \A u \in Tasks : task'[u].job = task[u].job
      /\ \A u \in Tasks : u # t => task'[u] = task[u]
      /\ \A u \in Tasks : \A d : Has(u, d)' => Has(u, d)
      /\ \A u \in Tasks : \A d : Has(u, d) => Has(u, d)' \/ (u = t /\ d = c)
  BY <1>0, <1>1, Continues
<1>3. \A k \in Jobs : record'[k] = IF k = j THEN r ELSE record[k]
  BY <1>0, <1>1 DEF Typed
<1> HIDE DEF j
<1>4. Typed'
  BY <1>0, <1>1, <1>2 DEF Typed
<1>5. LooksFirst'
  BY <1>2 DEF IInv, LooksFirst, Holds
<1>6. RetriesKept'
  BY <1>1, <1>2 DEF IInv, RetriesKept, Holds
<1>7. OneSourceEach'
  <2>1. ASSUME NEW k \in Jobs, k \notin excused'
        PROVE  /\ record[k].status # "none" => record'[k].status # "none"
               /\ record'[k].status # "none" \/
                     \A u \in Tasks : Creates(u, k) => Creates(u, k)'
    <3>1. record[k].status # "none" => record'[k].status # "none"
      BY <1>3, <2>1 DEF j
    <3>2. CASE c = "create"
      <4>1. ASSUME NEW u \in Tasks, Creates(u, k), k # j PROVE Creates(u, k)'
        BY <1>2, <4>1 DEF Creates, j
      <4> QED BY <1>3, <3>1, <3>2, <4>1
    <3>3. CASE c # "create"
      BY <1>2, <3>1, <3>3 DEF Creates
    <3> QED BY <3>1, <3>2, <3>3
  <2>2. ASSUME NEW k \in Jobs, k \notin excused', NEW u \in Tasks, task'[u].job = k,
               Has(u, "xadd")'
        PROVE  task'[u] = task[u] /\ Has(u, "xadd")
    <3>1. Has(u, "xadd") /\ task[u].job = k
      BY <1>2, <2>2
    <3>2. task[u].todo = EnqueueJob
      BY <1>1, <2>2, <3>1 DEF IInv, OneSourceEach, OneSource
    <3>3. u # t
      BY <1>0, <3>2, EnqueueStartsWithXadd
    <3> QED BY <1>2, <3>1, <3>3
  <2> QED BY <1>1, <1>2, <2>1, <2>2, OneSourceStays DEF IInv
<1> QED BY <1>4, <1>5, <1>6, <1>7 DEF IInv

(* Recording, changing a status, counting an attempt and setting a time to *)
(* live are such commands.                                                 *)
LEMMA RecordStep ==
    ASSUME IInv, NEW t \in Tasks,
           Create(t) \/ HsetStatus(t) \/ Hincrby(t) \/ Expire(t) \/ XaddDlq(t)
    PROVE  IInv'
<1> DEFINE old == record[task[t].job]
<1>0. Typed /\ old \in Record
  BY DEF IInv, Typed
<1>1. CASE Create(t)
  <2> DEFINE r == [old EXCEPT !.there = TRUE, !.status = "QUEUED", !.payload = TRUE]
  <2>1. r \in Record /\ r.status # "none" /\ Sends(t, "create") /\ Write(t, r)
    BY <1>0, <1>1 DEF Create, Record, Status
  <2> QED BY <2>1, WriteStep
<1>2. CASE HsetStatus(t)
  <2>1. PICK s \in Status : Sends(t, s) /\ Write(t, [old EXCEPT !.there = TRUE, !.status = s])
    BY <1>2 DEF HsetStatus
  <2> DEFINE r == [old EXCEPT !.there = TRUE, !.status = s]
  <2>2. s # "none" /\ s \notin {"xadd", "zadd again", "create"}
    <3>1. s \in Command
      <4>1. task[t].todo \in Seq(Command) /\ task[t].todo # <<>>
        BY <1>0, <2>1 DEF Typed, Sends, Idle
      <4> QED BY <2>1, <4>1, InTail DEF Sends
    <3> QED BY <2>1, <3>1 DEF Status, Command
  <2>3. r \in Record /\ r.status # "none"
    BY <1>0, <2>2 DEF Record
  <2> QED BY <2>1, <2>2, <2>3, WriteStep
<1>3. CASE Hincrby(t)
  <2> DEFINE r == [old EXCEPT !.there = TRUE]
  <2>1. r \in Record /\ r.status = old.status /\ Sends(t, "bump") /\ Write(t, r)
    BY <1>0, <1>3 DEF Hincrby, Record
  <2>2. old.status # "none" \/ "bump" = "create" => r.status # "none"
    BY <2>1
  <2> HIDE DEF r
  <2> QED BY <2>1, <2>2, WriteStep
<1>4. CASE Expire(t)
  <2> DEFINE r == [old EXCEPT !.ttl = @ \/ old.there]
  <2>1. Sends(t, "expire") /\ Write(t, r)
    BY <1>4 DEF Expire
  <2>2. r \in Record /\ r.status = old.status
    BY <1>0 DEF Record
  <2>3. old.status # "none" \/ "expire" = "create" => r.status # "none"
    BY <2>2
  <2> HIDE DEF r
  <2> QED BY <2>1, <2>2, <2>3, WriteStep
<1>5. CASE XaddDlq(t)
  <2>1. Sends(t, "dlq") /\ Write(t, old)
    BY <1>5 DEF XaddDlq
  <2>2. old.status # "none" \/ "dlq" = "create" => old.status # "none"
    OBVIOUS
  <2> QED BY <1>0, <2>1, <2>2, WriteStep
<1> QED BY <1>1, <1>2, <1>3, <1>4, <1>5

-----------------------------------------------------------------------------
(* A task that holds no retry begins something else: the plan has neither  *)
(* a message nor a retry for a job without a reason for one, and what it   *)
(* takes off the set of the delayed jobs it holds.                         *)
LEMMA PlanStep ==
    ASSUME IInv, NEW t \in Tasks, NEW j \in Jobs, NEW p \in Seq(Command), Plan(t, j, p),
           UNCHANGED <<record, messages, scheduled>>, delayed' \subseteq delayed,
           excused \subseteq excused', dropped \subseteq dropped',
           j \in excused' \/ \A c \in {"xadd", "create", "zadd", "zadd again"} : ~In(c, p),
           task[t].job \in excused' \/ ~Has(t, "create"),
           task[t].job \in dropped' \/ ~Holds(t),
           In("lookup", p) \/ In("get", p)
              => \A c \in {"xadd", "zadd again", "create"} : ~In(c, p),
           \A k \in delayed : k \in delayed' \/ (k = j /\ (In("xadd", p) \/ In("zadd again", p)))
    PROVE  /\ task' \in [Tasks -> [job : Jobs, todo : Seq(Command)]]
           /\ LooksFirst' /\ RetriesKept' /\ OneSourceEach'
<1>1. /\ task' \in [Tasks -> [job : Jobs, todo : Seq(Command)]]
      /\ \A u \in Tasks : u # t => task'[u] = task[u] /\ \A c : Has(u, c)' <=> Has(u, c)
      /\ task'[t].job = j /\ task'[t].todo = p
      /\ \A c : Has(t, c)' <=> In(c, p)
  BY Planned DEF IInv
<1>2. LooksFirst'
  <2> SUFFICES ASSUME NEW u \in Tasks, Has(u, "lookup")' \/ Has(u, "get")'
               PROVE  ~Has(u, "xadd")' /\ ~Has(u, "zadd again")' /\ ~Has(u, "create")'
    BY DEF LooksFirst, Holds
  <2>1. CASE u = t
    BY <1>1, <2>1
  <2>2. CASE u # t
    BY <1>1, <2>2 DEF IInv, LooksFirst, Holds
  <2> QED BY <2>1, <2>2
<1>3. RetriesKept'
  <2> SUFFICES ASSUME NEW k \in scheduled
               PROVE  k \in delayed' \/ k \in dropped' \/ \E u \in Tasks : task'[u].job = k /\ Holds(u)'
    BY DEF RetriesKept
  <2>1. CASE k \in delayed
    BY <1>1, <2>1 DEF Holds
  <2>2. CASE k \in dropped
    BY <2>2
  <2>3. CASE \E u \in Tasks : task[u].job = k /\ Holds(u)
    <3>1. PICK u \in Tasks : task[u].job = k /\ Holds(u)
      BY <2>3
    <3>2. CASE u = t
      BY <3>1, <3>2
    <3>3. CASE u # t
      BY <1>1, <3>1, <3>3 DEF Holds
    <3> QED BY <3>2, <3>3
  <2> QED BY <2>1, <2>2, <2>3 DEF IInv, RetriesKept
<1>4. OneSourceEach'
  <2>1. ASSUME NEW k \in Jobs, k \notin excused'
        PROVE  /\ \A u \in Tasks : task'[u].job = k =>
                    /\ Has(u, "zadd")' => task[u].job = k /\ Has(u, "zadd")
                    /\ Has(u, "zadd again")' => task[u].job = k /\ Has(u, "zadd again")
                    /\ Has(u, "xadd")' => task'[u] = task[u] /\ Has(u, "xadd")
                    /\ Has(u, "create")' => task[u].job = k /\ Has(u, "create")
               /\ \A u \in Tasks : Creates(u, k) => Creates(u, k)'
    <3>1. ASSUME NEW u \in Tasks, u # t
          PROVE  task'[u] = task[u] /\ \A c : Has(u, c)' <=> Has(u, c)
      BY <1>1, <3>1
    <3>2. task'[t].job = k =>
              ~Has(t, "xadd")' /\ ~Has(t, "create")' /\ ~Has(t, "zadd")' /\ ~Has(t, "zadd again")'
      BY <1>1, <2>1
    <3>3. ~Creates(t, k)
      BY <2>1 DEF Creates
    <3> QED BY <3>1, <3>2, <3>3 DEF Creates
  <2> QED BY <2>1, OneSourceStays DEF IInv
<1> QED BY <1>1, <1>2, <1>3, <1>4

(* The lists of one command.                                               *)
LEMMA OneCommand ==
    ASSUME NEW c \in Command
    PROVE  <<c>> \in Seq(Command) /\ \A d : In(d, <<c>>) <=> d = c
  BY DEF In

(* An empty list has no command.                                           *)
LEMMA NoCommand == <<>> \in Seq(Command) /\ \A c : ~In(c, <<>>)
<1>1. DOMAIN <<>> = {}
  OBVIOUS
<1> QED BY <1>1 DEF In

(* A request of an endpoint arrives (redis_queue.py:42-54,                 *)
(* maestro_v3.py: the job endpoints).                                      *)
LEMMA RequestStep ==
    ASSUME IInv, NEW t \in Tasks, NEW j \in Jobs, OrchestrateAsync(t, j) \/ RetryJob(t, j)
    PROVE  IInv'
<1>1. PICK c \in {"lookup", "get"} : Begin(t, j, <<c>>)
  BY DEF OrchestrateAsync, RetryJob
<1>2. /\ Idle(t) /\ Plan(t, j, <<c>>)
      /\ UNCHANGED <<record, messages, taken, delayed, excused, scheduled, dropped>>
  BY <1>1 DEF Begin, queue, history
<1>3. <<c>> \in Seq(Command) /\ \A d : In(d, <<c>>) <=> d = c
  BY OneCommand DEF Command
<1>4. ~Has(t, "create") /\ ~Holds(t)
  BY <1>2, IdleHasNothing DEF Holds
<1> DEFINE p == <<c>>
<1>5. /\ p \in Seq(Command)
      /\ \A d \in {"xadd", "create", "zadd", "zadd again"} : ~In(d, p)
  BY <1>3
<1> HIDE DEF p
<1>6. Plan(t, j, p)
  BY <1>2 DEF p
<1>7. /\ task' \in [Tasks -> [job : Jobs, todo : Seq(Command)]]
      /\ LooksFirst' /\ RetriesKept' /\ OneSourceEach'
  BY <1>2, <1>4, <1>5, <1>6, PlanStep
<1>8. Typed'
  BY <1>2, <1>7 DEF IInv, Typed
<1> QED BY <1>7, <1>8 DEF IInv

(* The look-up of enqueue_job finds no record of a job that has no reason  *)
(* for a second message, and nobody else is between look-up and record.    *)
LEMMA EnqueueStep ==
    ASSUME IInv, NEW t \in Tasks, NEW j \in Jobs, task[t].job = j,
           ~Has(t, "create"), ~Holds(t), j \notin excused,
           record[j].status = "none", ~Concurrent(t, j), Plan(t, j, EnqueueJob),
           UNCHANGED <<record, messages, taken, delayed, excused, scheduled, dropped>>
    PROVE  IInv'
<1>0. EnqueueJob \in Seq(Command) /\ Typed
  BY Plans DEF IInv
<1>1. /\ task' \in [Tasks -> [job : Jobs, todo : Seq(Command)]]
      /\ \A u \in Tasks : u # t => task'[u] = task[u] /\ \A c : Has(u, c)' <=> Has(u, c)
      /\ task'[t].job = j /\ task'[t].todo = EnqueueJob
      /\ \A c : Has(t, c)' <=> In(c, EnqueueJob)
  BY <1>0, Planned
<1>2. /\ ~In("zadd", EnqueueJob) /\ ~In("zadd again", EnqueueJob)
      /\ ~In("lookup", EnqueueJob) /\ ~In("get", EnqueueJob)
      /\ In("create", EnqueueJob)
  BY EnqueueHas
<1>3. /\ ~Has(t, "zadd")' /\ ~Has(t, "zadd again")'
      /\ ~Has(t, "lookup")' /\ ~Has(t, "get")' /\ Has(t, "create")'
  BY <1>1, <1>2
<1>4. OneSource(j) /\ \A u \in Tasks : ~Creates(u, j)
  <2>1. OneSource(j)
    BY DEF IInv, OneSourceEach
  <2>2. \A u \in Tasks \ {t} : ~Creates(u, j)
    BY DEF Concurrent, Creates
  <2>3. ~Creates(t, j)
    BY DEF Creates
  <2> QED BY <2>1, <2>2, <2>3
<1>5. messages[j] = 0
  <2>1. messages[j] <= 1 /\ messages[j] # 1
    BY <1>4 DEF OneSource
  <2>2. messages[j] \in Nat
    BY <1>0, QueueAssumption DEF Typed, QueueAssumption
  <2> QED BY <2>1, <2>2
<1>6. \A u \in Tasks : u # t /\ task'[u].job = j =>
          /\ ~Has(u, "zadd")' /\ ~Has(u, "zadd again")' /\ ~Has(u, "xadd")'
          /\ ~Has(u, "create")'
  <2>1. ASSUME NEW u \in Tasks, u # t, task[u].job = j
        PROVE  ~Has(u, "zadd") /\ ~Has(u, "zadd again") /\ ~Has(u, "xadd") /\ ~Has(u, "create")
    <3>1. ~Has(u, "create")
      BY <1>4, <2>1 DEF Creates
    <3>2. /\ ~Has(u, "zadd") /\ ~Has(u, "zadd again")
          /\ Has(u, "xadd") => task[u].todo = EnqueueJob
      BY <1>4, <2>1 DEF OneSource
    <3>3. task[u].todo = EnqueueJob => Has(u, "create")
      BY <1>2 DEF Has, In
    <3> QED BY <3>1, <3>2, <3>3
  <2> QED BY <1>1, <2>1
<1>7. OneSource(j)'
  <2>1. j \notin delayed' /\ messages'[j] = 0
    BY <1>4, <1>5 DEF OneSource
  <2>2. messages'[j] <= 1 /\ messages'[j] # 1
    BY <2>1
  <2>3. \A u \in Tasks : Creates(u, j)' => u = t
    BY <1>6 DEF Creates
  <2>4. \A u \in Tasks : task'[u].job = j =>
            /\ ~Has(u, "zadd")' /\ ~Has(u, "zadd again")'
            /\ Has(u, "xadd")' => task'[u].todo = EnqueueJob /\ messages'[j] = 0
    BY <1>1, <1>3, <1>6, <2>1
  <2>5. \A u, v \in Tasks : Creates(u, j)' /\ Creates(v, j)' => u = v
    BY <2>3
  <2> QED BY <2>1, <2>2, <2>4, <2>5 DEF OneSource
<1>8. ASSUME NEW k \in Jobs, k \notin excused, k # j PROVE OneSource(k)'
  <2>1. OneSource(k)
    BY <1>8 DEF IInv, OneSourceEach
  <2>2. \A u \in Tasks : task'[u].job = k =>
            task'[u] = task[u] /\ \A c : Has(u, c)' <=> Has(u, c)
    BY <1>1, <1>8
  <2>3. \A u \in Tasks : Creates(u, k)' <=> Creates(u, k)
    BY <1>1, <1>8 DEF Creates
  <2>4. /\ k \notin delayed' /\ messages'[k] <= 1
        /\ messages'[k] = 1 =>
              record'[k].status # "none" \/ \E u \in Tasks : Creates(u, k)'
    BY <2>1, <2>3 DEF OneSource
  <2>5. \A u \in Tasks : task'[u].job = k =>
            /\ ~Has(u, "zadd")' /\ ~Has(u, "zadd again")'
            /\ Has(u, "xadd")' => task'[u].todo = EnqueueJob /\ messages'[k] = 0
    BY <2>1, <2>2 DEF OneSource
  <2>6. \A u, v \in Tasks : Creates(u, k)' /\ Creates(v, k)' => u = v
    BY <2>1, <2>3 DEF OneSource
  <2> QED BY <2>4, <2>5, <2>6 DEF OneSource
<1>9. OneSourceEach'
  <2>1. \A k \in Jobs : k \notin excused => OneSource(k)'
    BY <1>7, <1>8
  <2> QED BY <2>1 DEF OneSourceEach
<1>10. LooksFirst'
  BY <1>1, <1>3 DEF IInv, LooksFirst, Holds
<1>11. RetriesKept'
  <2>1. \A u \in Tasks : Holds(u) => task'[u].job = task[u].job /\ Holds(u)'
    BY <1>1 DEF Holds
  <2> QED BY <2>1 DEF IInv, RetriesKept
<1>12. Typed'
  BY <1>0, <1>1 DEF Typed
<1> QED BY <1>9, <1>10, <1>11, <1>12 DEF IInv

(* The look-up of enqueue_job: a job that is not known is put on the       *)
(* stream, and if another task does the same at this moment there is a     *)
(* reason for two messages (redis_queue.py:42-54).                         *)
LEMMA LookupStep ==
    ASSUME IInv, NEW t \in Tasks, Lookup(t)
    PROVE  IInv'
<1> DEFINE j == task[t].job
<1>0. /\ Typed /\ j \in Jobs /\ Has(t, "lookup")
      /\ ~Has(t, "create") /\ ~Holds(t)
      /\ UNCHANGED <<record, messages, taken, delayed, scheduled, dropped>>
  BY SentIsHeld DEF Lookup, IInv, Typed, LooksFirst, queue
<1>1. CASE record[j].status # "none"
  <2>1. Plan(t, j, <<>>) /\ UNCHANGED excused
    BY <1>1 DEF Lookup
  <2>2. /\ task' \in [Tasks -> [job : Jobs, todo : Seq(Command)]]
        /\ LooksFirst' /\ RetriesKept' /\ OneSourceEach'
    BY <1>0, <2>1, NoCommand, PlanStep
  <2>3. Typed'
    BY <1>0, <2>1, <2>2 DEF Typed
  <2> QED BY <2>2, <2>3 DEF IInv
<1>2. CASE record[j].status = "none" /\ (Concurrent(t, j) \/ j \in excused)
  <2>1. Plan(t, j, EnqueueJob) /\ excused' = excused \cup {j}
    BY <1>2 DEF Lookup
  <2>2. /\ task' \in [Tasks -> [job : Jobs, todo : Seq(Command)]]
        /\ LooksFirst' /\ RetriesKept' /\ OneSourceEach'
    <3> HIDE DEF j
    <3>1. ~In("lookup", EnqueueJob) /\ ~In("get", EnqueueJob) /\ EnqueueJob \in Seq(Command)
      BY Plans
    <3>2. excused \subseteq excused' /\ j \in excused'
      BY <2>1
    <3> QED BY <1>0, <2>1, <3>1, <3>2, PlanStep
  <2>3. Typed'
    BY <1>0, <2>1, <2>2 DEF Typed
  <2> QED BY <2>2, <2>3 DEF IInv
<1>3. CASE record[j].status = "none" /\ ~Concurrent(t, j) /\ j \notin excused
  <2>1. Plan(t, j, EnqueueJob) /\ UNCHANGED excused
    BY <1>3 DEF Lookup
  <2>2. task[t].job = j
    OBVIOUS
  <2> HIDE DEF j
  <2> QED BY <1>0, <1>3, <2>1, <2>2, EnqueueStep
<1> QED BY <1>1, <1>2, <1>3

(* The look-up of the retry endpoint: somebody asked for another message   *)
(* (maestro_v3.py, the retry endpoint).                                    *)
LEMMA GetStep ==
    ASSUME IInv, NEW t \in Tasks, GetJob(t)
    PROVE  IInv'
<1> DEFINE j == task[t].job
<1>0. /\ Typed /\ j \in Jobs /\ Has(t, "get")
      /\ ~Has(t, "create") /\ ~Holds(t)
      /\ UNCHANGED <<record, messages, taken, delayed, scheduled, dropped>>
  BY SentIsHeld DEF GetJob, IInv, Typed, LooksFirst, queue
<1>1. CASE record[j].there
  <2>1. Plan(t, j, RequeueJob) /\ excused' = excused \cup {j}
    BY <1>1 DEF GetJob
  <2>2. /\ task' \in [Tasks -> [job : Jobs, todo : Seq(Command)]]
        /\ LooksFirst' /\ RetriesKept' /\ OneSourceEach'
    <3> HIDE DEF j
    <3>1. ~In("lookup", RequeueJob) /\ ~In("get", RequeueJob) /\ RequeueJob \in Seq(Command)
      BY RequeueHas, Plans
    <3>2. excused \subseteq excused' /\ j \in excused'
      BY <2>1
    <3> QED BY <1>0, <2>1, <3>1, <3>2, PlanStep
  <2>3. Typed'
    BY <1>0, <2>1, <2>2 DEF Typed
  <2> QED BY <2>2, <2>3 DEF IInv
<1>2. CASE ~record[j].there
  <2>1. Plan(t, j, <<>>) /\ UNCHANGED excused
    BY <1>2 DEF GetJob
  <2>2. /\ task' \in [Tasks -> [job : Jobs, todo : Seq(Command)]]
        /\ LooksFirst' /\ RetriesKept' /\ OneSourceEach'
    BY <1>0, <2>1, NoCommand, PlanStep
  <2>3. Typed'
    BY <1>0, <2>1, <2>2 DEF Typed
  <2> QED BY <2>2, <2>3 DEF IInv
<1> QED BY <1>1, <1>2

(* A message is put on the stream (redis_queue.py:52, 131): for a job      *)
(* without a reason for a second one it is the first, and its task goes on *)
(* to write the record.                                                    *)
LEMMA XaddStep ==
    ASSUME IInv, NEW t \in Tasks, NEW j \in Jobs, task[t].job = j, Xadd(t)
    PROVE  IInv'
<1>0. /\ Typed /\ Has(t, "xadd") /\ ~Idle(t) /\ Head(task[t].todo) = "xadd"
      /\ messages[j] < MaxMessages /\ messages' = [messages EXCEPT ![j] = @ + 1]
      /\ scheduled' = scheduled \ {j} /\ Continue(t)
      /\ UNCHANGED <<record, taken, delayed, excused, dropped>>
  BY SentIsHeld DEF Xadd, IInv
<1>1. /\ task' \in [Tasks -> [job : Jobs, todo : Seq(Command)]]
      /\ \A u \in Tasks : task'[u].job = task[u].job
      /\ \A u \in Tasks : u # t => task'[u] = task[u]
      /\ task'[t].todo = Tail(task[t].todo)
      /\ \A u \in Tasks : \A c : Has(u, c)' => Has(u, c)
      /\ \A u \in Tasks : \A c : Has(u, c) => Has(u, c)' \/ (u = t /\ c = "xadd")
  BY <1>0, Continues
<1>2. /\ messages' \in [Jobs -> 0..MaxMessages] /\ messages'[j] = messages[j] + 1
      /\ \A k \in Jobs : k # j => messages'[k] = messages[k]
      /\ \A k \in Jobs : messages'[k] >= messages[k] /\ messages[k] \in Nat
  <2>1. MaxMessages \in Nat /\ \A k \in Jobs : messages[k] \in Nat /\ messages[k] <= MaxMessages
    BY <1>0, QueueAssumption DEF QueueAssumption, Typed
  <2>2. \A k \in Jobs : messages'[k] = IF k = j THEN messages[k] + 1 ELSE messages[k]
    BY <1>0 DEF Typed
  <2>3. messages' \in [Jobs -> 0..MaxMessages]
    BY <1>0, <2>1 DEF Typed
  <2> QED BY <2>1, <2>2, <2>3
<1>3. Typed'
  <2>1. \A k \in Jobs : taken'[k] <= messages'[k]
    BY <1>0, <1>2 DEF Typed
  <2> QED BY <1>0, <1>1, <1>2, <2>1 DEF Typed
<1>4. LooksFirst'
  BY <1>1 DEF IInv, LooksFirst, Holds
<1>5. RetriesKept'
  <2> SUFFICES ASSUME NEW k \in scheduled, k # j
               PROVE  k \in delayed \/ k \in dropped \/ \E u \in Tasks : task'[u].job = k /\ Holds(u)'
    BY <1>0 DEF RetriesKept
  <2>1. k \in delayed \/ k \in dropped \/ \E u \in Tasks : task[u].job = k /\ Holds(u)
    BY DEF IInv, RetriesKept
  <2>2. \A u \in Tasks : task[u].job = k => u # t
    OBVIOUS
  <2>3. \A u \in Tasks : task[u].job = k /\ Holds(u) => task'[u].job = k /\ Holds(u)'
    BY <1>1, <2>2 DEF Holds
  <2> QED BY <2>1, <2>3
<1>6. ASSUME NEW k \in Jobs, k \notin excused, k # j PROVE OneSource(k)'
  <2>1. OneSource(k)
    BY <1>6 DEF IInv, OneSourceEach
  <2>2. \A u \in Tasks : task'[u].job = k => u # t /\ task[u].job = k
    BY <1>1, <1>6
  <2>3. \A u \in Tasks : task'[u].job = k =>
            task'[u] = task[u] /\ \A c : Has(u, c)' <=> Has(u, c)
    BY <1>1, <2>2
  <2>4. \A u \in Tasks : Creates(u, k)' <=> Creates(u, k)
    BY <1>1, <1>6, <2>3 DEF Creates
  <2>5. messages'[k] = messages[k]
    BY <1>2, <1>6
  <2>6. /\ k \notin delayed' /\ messages'[k] <= 1
        /\ messages'[k] = 1 =>
              record'[k].status # "none" \/ \E u \in Tasks : Creates(u, k)'
    BY <1>0, <2>1, <2>4, <2>5 DEF OneSource
  <2>7. \A u \in Tasks : task'[u].job = k =>
            /\ ~Has(u, "zadd")' /\ ~Has(u, "zadd again")'
            /\ Has(u, "xadd")' => task'[u].todo = EnqueueJob /\ messages'[k] = 0
    BY <2>1, <2>2, <2>3, <2>5 DEF OneSource
  <2>8. \A u, v \in Tasks : Creates(u, k)' /\ Creates(v, k)' => u = v
    BY <2>1, <2>4 DEF OneSource
  <2> QED BY <2>6, <2>7, <2>8 DEF OneSource
<1>7. ASSUME j \notin excused PROVE OneSource(j)'
  <2>1. OneSource(j) /\ task[t].todo = EnqueueJob /\ messages[j] = 0
    BY <1>0, <1>7 DEF IInv, OneSourceEach, OneSource
  <2>2. messages'[j] = 1 /\ ~(messages'[j] > 1) /\ messages'[j] <= 1
    BY <1>2, <2>1
  <2>3. ~Has(t, "xadd")' /\ Has(t, "create")'
    BY <1>1, <2>1, EnqueueStartsWithXadd DEF Has, In
  <2>4. Has(t, "create")
    BY <1>1, <2>3
  <2>5. \A u \in Tasks : Creates(u, j) => u = t
    BY <2>1, <2>4 DEF OneSource, Creates
  <2>6. \A u \in Tasks : u # t /\ task[u].job = j => ~Has(u, "xadd")
    <3>1. ASSUME NEW u \in Tasks, u # t, task[u].job = j, Has(u, "xadd") PROVE FALSE
      <4>1. task[u].todo = EnqueueJob
        BY <2>1, <3>1 DEF OneSource
      <4>2. Has(u, "create")
        BY <4>1, EnqueueHas DEF Has, In
      <4> QED BY <2>5, <3>1, <4>2 DEF Creates
    <3> QED BY <3>1
  <2>7. \A u \in Tasks : task'[u].job = j =>
            ~Has(u, "zadd")' /\ ~Has(u, "zadd again")' /\ ~Has(u, "xadd")'
    <3>1. \A u \in Tasks : task[u].job = j => ~Has(u, "zadd") /\ ~Has(u, "zadd again")
      BY <2>1 DEF OneSource
    <3>2. \A u \in Tasks : task[u].job = j => ~Has(u, "xadd")'
      BY <1>1, <2>3, <2>6
    <3> QED BY <1>1, <3>1, <3>2
  <2>8. Creates(t, j)' /\ \A u, v \in Tasks : Creates(u, j)' /\ Creates(v, j)' => u = v
    BY <1>1, <2>3, <2>5 DEF Creates
  <2>9. j \notin delayed'
    BY <1>0, <2>1 DEF OneSource
  <2> QED BY <2>2, <2>7, <2>8, <2>9 DEF OneSource
<1>8. OneSourceEach'
  <2>1. \A k \in Jobs : k \notin excused => OneSource(k)'
    BY <1>6, <1>7
  <2> QED BY <1>0, <2>1 DEF OneSourceEach
<1> QED BY <1>3, <1>4, <1>5, <1>8 DEF IInv

(* A job is put in the set of the delayed ones (redis_queue.py:83-100):    *)
(* only one that there is a reason to retry.                               *)
LEMMA ZaddStep ==
    ASSUME IInv, NEW t \in Tasks, NEW j \in Jobs, task[t].job = j, Zadd(t)
    PROVE  IInv'
<1>0. /\ Typed /\ ~Idle(t) /\ Continue(t)
      /\ delayed' = delayed \cup {j}
      /\ scheduled \subseteq scheduled' /\ scheduled' \subseteq scheduled \cup {j}
      /\ UNCHANGED <<record, messages, taken, excused, dropped>>
  BY DEF Zadd, Sends, IInv
<1>1. PICK c \in {"zadd", "zadd again"} : Sends(t, c)
  BY DEF Zadd
<1>2. Has(t, c) /\ Head(task[t].todo) = c
  BY <1>0, <1>1, SentIsHeld
<1>3. /\ task' \in [Tasks -> [job : Jobs, todo : Seq(Command)]]
      /\ \A u \in Tasks : task'[u].job = task[u].job
      /\ \A u \in Tasks : u # t => task'[u] = task[u]
      /\ \A u \in Tasks : \A d : Has(u, d)' => Has(u, d)
      /\ \A u \in Tasks : \A d : Has(u, d) => Has(u, d)' \/ (u = t /\ d = c)
  BY <1>0, <1>2, Continues
<1>4. j \in excused
  <2>1. OneSource(j) => ~Has(t, c)
    BY <1>1 DEF OneSource
  <2> QED BY <1>2, <2>1 DEF IInv, OneSourceEach
<1>5. Typed'
  BY <1>0, <1>3 DEF Typed
<1>6. LooksFirst'
  BY <1>3 DEF IInv, LooksFirst, Holds
<1>7. RetriesKept'
  <2> SUFFICES ASSUME NEW k \in scheduled, k # j
               PROVE  k \in delayed \/ k \in dropped \/ \E u \in Tasks : task'[u].job = k /\ Holds(u)'
    BY <1>0 DEF RetriesKept
  <2>1. k \in delayed \/ k \in dropped \/ \E u \in Tasks : task[u].job = k /\ Holds(u)
    BY DEF IInv, RetriesKept
  <2>2. \A u \in Tasks : task[u].job = k => u # t
    OBVIOUS
  <2>3. \A u \in Tasks : task[u].job = k /\ Holds(u) => task'[u].job = k /\ Holds(u)'
    BY <1>3, <2>2 DEF Holds
  <2> QED BY <2>1, <2>3
<1>8. OneSourceEach'
  <2>1. \A k \in Jobs : k \notin excused' =>
           /\ k # j
           /\ \A u \in Tasks : task'[u].job = k => u # t /\ task[u].job = k
    BY <1>0, <1>3, <1>4
  <2>2. ASSUME NEW k \in Jobs, k \notin excused'
        PROVE  /\ \A u \in Tasks : task'[u].job = k =>
                    /\ Has(u, "zadd")' => task[u].job = k /\ Has(u, "zadd")
                    /\ Has(u, "zadd again")' => task[u].job = k /\ Has(u, "zadd again")
                    /\ Has(u, "xadd")' => task'[u] = task[u] /\ Has(u, "xadd")
                    /\ Has(u, "create")' => task[u].job = k /\ Has(u, "create")
               /\ \A u \in Tasks : Creates(u, k) => Creates(u, k)'
    BY <1>1, <1>3, <2>1, <2>2 DEF Creates
  <2> QED BY <1>0, <2>1, <2>2, OneSourceStays DEF IInv
<1> QED BY <1>5, <1>6, <1>7, <1>8 DEF IInv

(* What the worker sends when it ends a job or gives it up has no message. *)
LEMMA EndsHave ==
    ASSUME NEW p \in {BumpAttempts \o SetJobResult, BumpAttempts \o SendToDlq},
           NEW c \in {"xadd", "create", "zadd", "zadd again", "lookup", "get"}
    PROVE  ~In(c, p)
<1>1. /\ c # "bump" /\ c # "expire" /\ c # "DONE" /\ c # "dlq" /\ c # "DLQ"
  OBVIOUS
<1>2. CASE p = BumpAttempts \o SetJobResult
  <2>1. In(c, p) <=> c \in {"bump", "expire", "DONE"}
    BY <1>2, Plans
  <2> QED BY <1>1, <2>1
<1>3. CASE p = BumpAttempts \o SendToDlq
  <2>1. In(c, p) <=> c \in {"bump", "expire", "dlq", "DLQ"}
    BY <1>3, Plans
  <2> QED BY <1>1, <2>1
<1> QED BY <1>2, <1>3

(* Nor does it look a job up when it has it tried again.                   *)
LEMMA RetryHas ==
    ASSUME NEW c \in {"xadd", "create", "zadd again", "lookup", "get"}
    PROVE  ~In(c, BumpAttempts \o ScheduleRetry)
<1>1. c # "bump" /\ c # "expire" /\ c # "zadd" /\ c # "RETRY_SCHEDULED"
  OBVIOUS
<1>2. In(c, BumpAttempts \o ScheduleRetry) <=> c \in {"bump", "expire", "zadd", "RETRY_SCHEDULED"}
  BY Plans
<1> QED BY <1>1, <1>2

(* The worker is handed a message and ends the job, gives it up, or has it *)
(* tried again, which is a reason for another message.                     *)
LEMMA WorkStep ==
    ASSUME IInv, NEW t \in Tasks, Work(t)
    PROVE  IInv'
<1>1. PICK j \in Jobs, outcome \in {SetJobResult, SendToDlq, ScheduleRetry} :
        /\ Idle(t)
        /\ taken[j] < messages[j]
        /\ taken' = [taken EXCEPT ![j] = @ + 1]
        /\ Plan(t, j, BumpAttempts \o outcome)
        /\ excused' = IF outcome = ScheduleRetry THEN excused \cup {j} ELSE excused
        /\ UNCHANGED <<record, messages, delayed, scheduled, dropped>>
  BY DEF Work
<1> DEFINE p == BumpAttempts \o outcome
<1>2. /\ ~Has(t, "create") /\ ~Holds(t) /\ Typed
      /\ excused \subseteq excused' /\ excused' \subseteq Jobs
  BY <1>1, IdleHasNothing DEF Holds, IInv, Typed
<1>3. /\ p \in Seq(Command)
      /\ \A c \in {"xadd", "create", "zadd again", "lookup", "get"} : ~In(c, p)
      /\ j \in excused' \/ ~In("zadd", p)
  <2>1. CASE outcome = ScheduleRetry
    <3>1. j \in excused' /\ p = BumpAttempts \o ScheduleRetry
      BY <1>1, <2>1
    <3> HIDE DEF p
    <3>2. p \in Seq(Command)
      BY <3>1, Plans
    <3>3. \A c \in {"xadd", "create", "zadd again", "lookup", "get"} : ~In(c, p)
      BY <3>1, RetryHas
    <3> QED BY <3>1, <3>2, <3>3
  <2>2. CASE outcome # ScheduleRetry
    <3>1. p \in {BumpAttempts \o SetJobResult, BumpAttempts \o SendToDlq}
      BY <2>2
    <3>2. p \in Seq(Command)
      BY <3>1, Plans
    <3>3. \A c \in {"xadd", "create", "zadd", "zadd again", "lookup", "get"} : ~In(c, p)
      BY <3>1, EndsHave
    <3> QED BY <3>2, <3>3
  <2> QED BY <2>1, <2>2
<1>4. Plan(t, j, p)
  BY <1>1
<1> HIDE DEF p
<1>5. /\ ~In("xadd", p) /\ ~In("create", p) /\ ~In("zadd again", p)
      /\ ~In("lookup", p) /\ ~In("get", p)
  BY <1>3
<1>6. j \in excused' \/ \A c \in {"xadd", "create", "zadd", "zadd again"} : ~In(c, p)
  BY <1>3, <1>5
<1>7. /\ task' \in [Tasks -> [job : Jobs, todo : Seq(Command)]]
      /\ LooksFirst' /\ RetriesKept' /\ OneSourceEach'
  <2>1. UNCHANGED <<record, messages, delayed, scheduled, dropped>>
    BY <1>1
  <2> QED BY <1>2, <1>3, <1>4, <1>5, <1>6, <2>1, PlanStep
<1>8. Typed'
  <2>1. MaxMessages \in Nat /\ \A k \in Jobs : messages[k] \in Nat
    BY <1>2, QueueAssumption DEF QueueAssumption, Typed
  <2>2. \A k \in Jobs : taken'[k] = IF k = j THEN taken[k] + 1 ELSE taken[k]
    BY <1>1, <1>2 DEF Typed
  <2>3. /\ taken' \in [Jobs -> Nat]
        /\ \A k \in Jobs : taken'[k] <= messages[k]
    BY <1>1, <1>2, <2>1, <2>2 DEF Typed
  <2> QED BY <1>1, <1>2, <1>7, <2>3 DEF Typed
<1> QED BY <1>7, <1>8 DEF IInv

(* A delayed job is popped and queued or put back (redis_queue.py:90-100): *)
(* the task holds it, and there was a reason to retry it.                  *)
LEMMA PopStep ==
    ASSUME IInv, NEW t \in Tasks, PopDueRetry(t)
    PROVE  IInv'
<1>1. PICK j \in delayed, p \in {RequeueJob, <<"zadd again">>} :
        /\ Idle(t) /\ delayed' = delayed \ {j} /\ Plan(t, j, p)
        /\ UNCHANGED <<record, messages, taken, excused, scheduled, dropped>>
  BY DEF PopDueRetry, history
<1>2. ~Has(t, "create") /\ ~Holds(t) /\ Typed /\ j \in Jobs
  BY <1>1, IdleHasNothing DEF Holds, IInv, Typed
<1>3. j \in excused
  BY <1>1, <1>2 DEF IInv, OneSourceEach, OneSource
<1>4. /\ p \in Seq(Command)
      /\ ~In("lookup", p) /\ ~In("get", p) /\ (In("xadd", p) \/ In("zadd again", p))
  <2>1. CASE p = RequeueJob
    BY <2>1, RequeueHas, Plans
  <2>2. CASE p = <<"zadd again">>
    <3>1. "zadd again" \in Command
      BY DEF Command
    <3>2. p \in Seq(Command) /\ \A d : In(d, p) <=> d = "zadd again"
      BY <2>2, <3>1, OneCommand
    <3>3. In("zadd again", p)
      BY <3>2
    <3>4. ASSUME NEW c, c # "zadd again" PROVE ~In(c, p)
      BY <3>2, <3>4
    <3>5. ~In("lookup", p)
      BY <3>4
    <3>6. ~In("get", p)
      BY <3>4
    <3> QED BY <3>2, <3>3, <3>5, <3>6
  <2> QED BY <2>1, <2>2
<1>5. /\ task' \in [Tasks -> [job : Jobs, todo : Seq(Command)]]
      /\ LooksFirst' /\ RetriesKept' /\ OneSourceEach'
  BY <1>1, <1>2, <1>3, <1>4, PlanStep
<1>6. Typed'
  BY <1>1, <1>2, <1>5 DEF Typed
<1> QED BY <1>5, <1>6 DEF IInv

(* A task ends, with whatever it had left to send: a record that is not    *)
(* written is a reason for another message, and a retry it held is lost.   *)
LEMMA DieStep ==
    ASSUME IInv, NEW t \in Tasks, NEW j \in Jobs, task[t].job = j, Die(t)
    PROVE  IInv'
<1>1. /\ Plan(t, j, <<>>)
      /\ excused' = IF Has(t, "create") THEN excused \cup {j} ELSE excused
      /\ dropped' = IF Holds(t) THEN dropped \cup {j} ELSE dropped
      /\ UNCHANGED <<record, messages, taken, delayed, scheduled>>
  BY DEF Die, Holds, queue
<1>2. /\ excused \subseteq excused' /\ dropped \subseteq dropped'
      /\ j \in excused' \/ ~Has(t, "create")
      /\ j \in dropped' \/ ~Holds(t)
  BY <1>1
<1>3. /\ task' \in [Tasks -> [job : Jobs, todo : Seq(Command)]]
      /\ LooksFirst' /\ RetriesKept' /\ OneSourceEach'
  BY <1>1, <1>2, NoCommand, PlanStep
<1>4. Typed'
  BY <1>1, <1>3 DEF IInv, Typed
<1> QED BY <1>3, <1>4 DEF IInv

(* A record outlives its day, which is a reason for another message        *)
(* (redis_queue.py:64-65).                                                 *)
LEMMA TtlStep ==
    ASSUME IInv, NEW j \in Jobs, TtlEnds(j)
    PROVE  IInv'
<1>1. /\ record' = [record EXCEPT ![j] = NoRecord] /\ excused' = excused \cup {j}
      /\ UNCHANGED <<messages, taken, delayed, task, scheduled, dropped>>
  BY DEF TtlEnds, queue
<1>2. Typed'
  <2>1. NoRecord \in Record
    BY DEF NoRecord, Record, Status
  <2> QED BY <1>1, <2>1 DEF IInv, Typed
<1>3. \A t \in Tasks : \A c : Has(t, c)' <=> Has(t, c)
  BY <1>1 DEF Has
<1>4. LooksFirst'
  BY <1>3 DEF IInv, LooksFirst, Holds
<1>5. RetriesKept'
  BY <1>1, <1>3 DEF IInv, RetriesKept, Holds
<1>6. OneSourceEach'
  <2>1. \A k \in Jobs : k \notin excused' => record'[k] = record[k]
    BY <1>1 DEF IInv, Typed
  <2>2. \A k \in Jobs : \A t \in Tasks : Creates(t, k)' <=> Creates(t, k)
    BY <1>1, <1>3 DEF Creates
  <2>3. \A k \in Jobs : \A t \in Tasks : task'[t].job = k =>
          /\ Has(t, "zadd")' => task[t].job = k /\ Has(t, "zadd")
          /\ Has(t, "zadd again")' => task[t].job = k /\ Has(t, "zadd again")
          /\ Has(t, "xadd")' => task'[t] = task[t] /\ Has(t, "xadd")
          /\ Has(t, "create")' => task[t].job = k /\ Has(t, "create")
    BY <1>1, <1>3
  <2>4. excused \subseteq excused' /\ UNCHANGED <<messages, delayed>>
    BY <1>1
  <2> QED BY <2>1, <2>2, <2>3, <2>4, OneSourceStays DEF IInv
<1> QED BY <1>2, <1>4, <1>5, <1>6 DEF IInv

-----------------------------------------------------------------------------
(* At the beginning nothing is queued and no task has anything to send.    *)
LEMMA InvariantInitially == Init => IInv
<1> SUFFICES ASSUME Init PROVE IInv
  OBVIOUS
<1>1. PICK j \in Jobs : task = [t \in Tasks |-> [job |-> j, todo |-> <<>>]]
  BY DEF Init
<1>2. \A t \in Tasks : \A c : ~Has(t, c)
  <2>1. \A t \in Tasks : Idle(t)
    BY <1>1 DEF Idle
  <2> QED BY <2>1, IdleHasNothing
<1>3. Typed
  <2>1. NoRecord \in Record
    BY DEF NoRecord, Record, Status
  <2>2. task \in [Tasks -> [job : Jobs, todo : Seq(Command)]]
    BY <1>1
  <2>3. 0 \in 0..MaxMessages
    BY QueueAssumption DEF QueueAssumption
  <2>4. messages \in [Jobs -> 0..MaxMessages] /\ taken \in [Jobs -> Nat]
    BY <2>3 DEF Init
  <2>5. \A k \in Jobs : taken[k] <= messages[k]
    BY DEF Init
  <2> QED BY <2>1, <2>2, <2>4, <2>5 DEF Typed, Init
<1>4. LooksFirst
  BY <1>2 DEF LooksFirst
<1>5. RetriesKept
  BY DEF RetriesKept, Init
<1>6. OneSourceEach
  <2> SUFFICES ASSUME NEW k \in Jobs PROVE OneSource(k)
    BY DEF OneSourceEach
  <2>1. k \notin delayed /\ messages[k] = 0
    BY DEF Init
  <2>2. messages[k] <= 1 /\ messages[k] # 1
    BY <2>1
  <2> QED BY <1>2, <2>1, <2>2 DEF OneSource, Creates
<1> QED BY <1>3, <1>4, <1>5, <1>6 DEF IInv

(* No step of a task, and no record that goes, breaks the invariant.       *)
LEMMA InvariantKept == IInv /\ [Next]_vars => IInv'
<1> SUFFICES ASSUME IInv, [Next]_vars PROVE IInv'
  OBVIOUS
<1>0. \A t \in Tasks : task[t].job \in Jobs
  BY DEF IInv, Typed
<1>1. ASSUME NEW t \in Tasks, NEW j \in Jobs, OrchestrateAsync(t, j) \/ RetryJob(t, j)
      PROVE  IInv'
  BY <1>1, RequestStep
<1>2. ASSUME NEW t \in Tasks, Lookup(t) PROVE IInv'
  BY <1>2, LookupStep
<1>3. ASSUME NEW t \in Tasks, GetJob(t) PROVE IInv'
  BY <1>3, GetStep
<1>4. ASSUME NEW t \in Tasks, Xadd(t) PROVE IInv'
  BY <1>0, <1>4, XaddStep
<1>5. ASSUME NEW t \in Tasks, Create(t) \/ HsetStatus(t) \/ Hincrby(t) \/ Expire(t) \/ XaddDlq(t)
      PROVE  IInv'
  BY <1>5, RecordStep
<1>6. ASSUME NEW t \in Tasks, Zadd(t) PROVE IInv'
  BY <1>0, <1>6, ZaddStep
<1>7. ASSUME NEW t \in Tasks, Work(t) PROVE IInv'
  BY <1>7, WorkStep
<1>8. ASSUME NEW t \in Tasks, PopDueRetry(t) PROVE IInv'
  BY <1>8, PopStep
<1>9. ASSUME NEW t \in Tasks, Die(t) PROVE IInv'
  BY <1>0, <1>9, DieStep
<1>10. ASSUME NEW j \in Jobs, TtlEnds(j) PROVE IInv'
  BY <1>10, TtlStep
<1>11. CASE UNCHANGED vars
  <2>1. UNCHANGED <<record, messages, taken, delayed, task, excused, scheduled, dropped>>
    BY <1>11 DEF vars
  <2>2. Typed'
    BY <2>1 DEF IInv, Typed
  <2>3. \A t \in Tasks : \A c : Has(t, c)' <=> Has(t, c)
    BY <2>1 DEF Has
  <2>4. LooksFirst' /\ RetriesKept'
    BY <2>1, <2>3 DEF IInv, LooksFirst, RetriesKept, Holds
  <2>5. OneSourceEach'
    BY <2>1, <2>3 DEF IInv, OneSourceEach, OneSource, Creates
  <2> QED BY <2>2, <2>4, <2>5 DEF IInv
<1> QED
  BY <1>1, <1>2, <1>3, <1>4, <1>5, <1>6, <1>7, <1>8, <1>9, <1>10, <1>11 DEF Next

(* The invariant holds at every point of every interleaving.               *)
THEOREM Invariance == Spec => []IInv
<1>1. Init => IInv
  BY InvariantInitially
<1>2. IInv /\ [Next]_vars => IInv'
  BY InvariantKept
<1> QED BY <1>1, <1>2, PTL DEF Spec

(* The hash, the stream and the set hold what redis_queue.py puts in them. *)
THEOREM TypeCorrect == Spec => []TypeOK
<1>1. IInv => TypeOK
  <2> SUFFICES ASSUME IInv PROVE TypeOK
    OBVIOUS
  <2>1. \A j \in Jobs : taken[j] \in 0..messages[j]
    <3>1. MaxMessages \in Nat /\ \A j \in Jobs : messages[j] \in Nat
      BY QueueAssumption DEF QueueAssumption, IInv, Typed
    <3> QED BY <3>1 DEF IInv, Typed
  <2> QED BY <2>1 DEF IInv, Typed, TypeOK, Record
<1> QED BY <1>1, Invariance, PTL

(* An idempotency key puts one message on the stream unless two requests   *)
(* met between look-up and record, a task died there, the record outlived  *)
(* its day, or somebody asked for a retry (redis_queue.py:42-54).          *)
THEOREM OneMessage == Spec => []OneMessagePerKey
<1>1. IInv => OneMessagePerKey
  <2> SUFFICES ASSUME IInv, NEW j \in Jobs, messages[j] > 1, j \notin excused PROVE FALSE
    BY DEF OneMessagePerKey
  <2>1. messages[j] <= 1
    BY DEF IInv, OneSourceEach, OneSource
  <2>2. messages[j] \in Nat
    BY QueueAssumption DEF QueueAssumption, IInv, Typed
  <2> QED BY <2>1, <2>2
<1> QED BY <1>1, Invariance, PTL

(* A retry that was scheduled is in the set, on the stream again, or held  *)
(* by a task, and lost only when that task dies (redis_queue.py:83-100).   *)
THEOREM RetryIsKept == Spec => []ScheduledRetryIsKept
<1>1. IInv => ScheduledRetryIsKept
  BY DEF IInv, RetriesKept, Holds, ScheduledRetryIsKept
<1> QED BY <1>1, Invariance, PTL
=============================================================================
