-------------------------- MODULE SupervisorQueue --------------------------
(***************************************************************************)
(* The in-memory GrokRxiv supervisor: one loop that takes work items from  *)
(* a bounded channel while fewer than WorkerLimit of its tasks are alive,  *)
(* the tasks that run the items, retry them through the same channel and   *)
(* hand a review job on after an ingest, the handlers that send items, and *)
(* the shutdown of the server process.                                     *)
(*                                                                         *)
(* A send on a full channel waits inside its sender.  The waiting senders  *)
(* are served in order, so that the channel and the items still waiting to *)
(* enter it are one sequence, of which the first Capacity are buffered.    *)
(***************************************************************************)
EXTENDS Naturals, Sequences, FiniteSets, Functions

CONSTANTS
    JobCount,     \* bound on the jobs, numbered as they are created
    Reviews,      \* reviews an approval may publish
    NoReview,
    Capacity,     \* GROKRXIV_SUPERVISOR_QUEUE_CAPACITY
    WorkerLimit,  \* GROKRXIV_SUPERVISOR_WORKERS
    MaxRetries,   \* MAX_RETRIES
    FaultBound    \* bound on database errors and panics

ASSUME LimitsAssumption ==
    /\ Capacity \in Nat \ {0} /\ WorkerLimit \in Nat \ {0}
    /\ MaxRetries \in Nat \ {0} /\ FaultBound \in Nat /\ JobCount \in Nat
ASSUME NoReviewAssumption == NoReview \notin Reviews

VARIABLES
    origin,    \* what created the job
    row,       \* jobs.state, "absent" when the job has no row
    target,    \* ref_id of a publish job
    child,     \* the review job an ingest job created
    channel,   \* items of the channel, the waiting ones last
    task,      \* where the worker task of an item is
    inflight,  \* publish_inflight
    server,    \* the process and its supervisor loop
    faults     \* database errors and panics so far

vars == <<origin, row, target, child, channel, task, inflight, server, faults>>

Jobs == 1..JobCount
NoJob == 0
Attempts == 0..MaxRetries - 1
Items == Jobs \X Attempts

\* /internal/v1/review, the listing scheduler, an ingest task and
\* publish_after_approval.
Origins == {"none", "internal", "scheduler", "auto", "approval"}

\* A task is alive from "starting" to "resending"; the others say how it
\* ended.  "bounced" is an ingest whose hand-over was refused.
Alive == {"starting", "working", "handing", "bounced", "backoff", "resending"}
Ended == {"over", "retried", "dberror", "panicked"}

Waiting == {channel[i] : i \in {k \in DOMAIN channel : k > Capacity}}
Active == {t \in Items : task[t] \in Alive}
Retried(t) == <<t[1], t[2] + 1>>
Handed(t) == <<child[t[1]], 0>>

TypeOK ==
    /\ origin \in [Jobs -> Origins]
    /\ row \in [Jobs -> {"absent", "queued", "running", "done", "failed"}]
    /\ target \in [Jobs -> Reviews \cup {NoReview}]
    /\ child \in [Jobs -> Jobs \cup {NoJob}]
    /\ channel \in Seq(Items)
    /\ task \in [Items -> {"none"} \cup Alive \cup Ended]
    /\ inflight \in SUBSET Reviews
    /\ server \in {"serving", "stopping", "draining", "drained", "exited"}
    /\ faults \in 0..FaultBound

Init ==
    /\ origin = [j \in Jobs |-> "none"]
    /\ row = [j \in Jobs |-> "absent"]
    /\ target = [j \in Jobs |-> NoReview]
    /\ child = [j \in Jobs |-> NoJob]
    /\ channel = <<>>
    /\ task = [t \in Items |-> "none"]
    /\ inflight = {}
    /\ server = "serving"
    /\ faults = 0

Open == server \in {"serving", "stopping"}

\* A new job: its row, if it gets one, and then its item, if the channel
\* still takes it.
Create(j, from, r) ==
    /\ origin[j] = "none" /\ \A i \in 1..j - 1 : origin[i] # "none"
    /\ origin' = [origin EXCEPT ![j] = from]
    /\ row' = [row EXCEPT ![j] = r]
    /\ channel' = IF Open THEN Append(channel, <<j, 0>>) ELSE channel

EnqueueReview(j) ==
    /\ server # "exited"
    /\ Create(j, "internal", "queued")
    /\ UNCHANGED <<target, child, task, inflight, server, faults>>

\* The scheduler makes up a job id that has no row.
EnqueueListed(j) ==
    /\ Open
    /\ Create(j, "scheduler", "absent")
    /\ UNCHANGED <<target, child, task, inflight, server, faults>>

\* Mutant of PublishAfterApproval: the review's membership is not looked at.
PublishAgain(j, r) ==
    /\ server = "serving"
    /\ inflight' = inflight \cup {r}
    /\ Create(j, "approval", "absent")
    /\ target' = [target EXCEPT ![j] = r]
    /\ UNCHANGED <<child, task, server, faults>>

\* `enqueue` refuses once shutdown was requested, and the review then leaves
\* the set again.
PublishAfterApproval(j, r) ==
    /\ server = "serving" /\ r \notin inflight
    /\ inflight' = inflight \cup {r}
    /\ Create(j, "approval", "absent")
    /\ target' = [target EXCEPT ![j] = r]
    /\ UNCHANGED <<child, task, server, faults>>

\* Mutant of Receive: the worker limit is one less than it says.
ReceiveBelowLimit ==
    /\ Open /\ channel # <<>>
    /\ Cardinality(Active) + 1 < WorkerLimit
    /\ task' = [task EXCEPT ![Head(channel)] = "starting"]
    /\ channel' = Tail(channel)
    /\ UNCHANGED <<origin, row, target, child, inflight, server, faults>>

Receive ==
    /\ Open /\ channel # <<>>
    /\ Cardinality(Active) < WorkerLimit
    /\ task' = [task EXCEPT ![Head(channel)] = "starting"]
    /\ channel' = Tail(channel)
    /\ UNCHANGED <<origin, row, target, child, inflight, server, faults>>

\* The task of t is over as `how`; the loop's wrapper forgets the review of a
\* publish job whatever run_item returned.
End(t, how) ==
    /\ task' = [task EXCEPT ![t] = how]
    /\ inflight' = inflight \ {target[t[1]]}

SetRow(t, r) ==
    row' = [row EXCEPT ![t[1]] = IF @ = "absent" THEN @ ELSE r]

MarkRunning(t) ==
    /\ task[t] = "starting"
    /\ SetRow(t, "running")
    /\ task' = [task EXCEPT ![t] = "working"]
    /\ UNCHANGED <<origin, target, child, channel, inflight, server, faults>>

\* run_ingest inserts a review job for a paper in the auto-review window and
\* sends it, waiting with its worker slot while the channel is full.
HandOver(t, j) ==
    /\ task[t] = "working"
    /\ origin[t[1]] \in {"internal", "scheduler"} /\ child[t[1]] = NoJob
    /\ Create(j, "auto", "queued")
    /\ child' = [child EXCEPT ![t[1]] = j]
    /\ task' = [task EXCEPT ![t] = IF Open THEN "handing" ELSE "bounced"]
    /\ UNCHANGED <<target, inflight, server, faults>>

Succeed(t) ==
    /\ \/ task[t] = "working"
       \/ task[t] = "handing" /\ Handed(t) \notin Waiting
    /\ SetRow(t, "done")
    /\ End(t, "over")
    /\ UNCHANGED <<origin, target, child, channel, server, faults>>

\* An error that is not retryable, or one too many.
Fail(t) ==
    /\ task[t] \in {"working", "bounced"}
    /\ SetRow(t, "failed")
    /\ End(t, "over")
    /\ UNCHANGED <<origin, target, child, channel, server, faults>>

BackOff(t) ==
    /\ task[t] = "working" /\ t[2] + 1 < MaxRetries
    /\ task' = [task EXCEPT ![t] = "backoff"]
    /\ UNCHANGED <<origin, row, target, child, channel, inflight, server, faults>>

\* Mutants of Resend: try_send drops the retry when the channel is full, or
\* the retry keeps its attempt number.
ResendIfRoom(t) ==
    /\ task[t] = "backoff"
    /\ IF Open /\ Len(channel) < Capacity
       THEN /\ task' = [task EXCEPT ![t] = "resending"]
            /\ channel' = Append(channel, Retried(t))
            /\ UNCHANGED inflight
       ELSE End(t, "over") /\ UNCHANGED channel
    /\ UNCHANGED <<origin, row, target, child, server, faults>>
ResendSame(t) ==
    /\ task[t] = "backoff"
    /\ IF Open
       THEN /\ task' = [task EXCEPT ![t] = "resending"]
            /\ channel' = Append(channel, t)
            /\ UNCHANGED inflight
       ELSE End(t, "over") /\ UNCHANGED channel
    /\ UNCHANGED <<origin, row, target, child, server, faults>>

\* A retry that finds the channel closed ends the task without a word in the
\* job's row.
Resend(t) ==
    /\ task[t] = "backoff"
    /\ IF Open
       THEN /\ task' = [task EXCEPT ![t] = "resending"]
            /\ channel' = Append(channel, Retried(t))
            /\ UNCHANGED inflight
       ELSE End(t, "over") /\ UNCHANGED channel
    /\ UNCHANGED <<origin, row, target, child, server, faults>>

Resent(t) ==
    /\ task[t] = "resending" /\ Retried(t) \notin Waiting
    /\ End(t, "retried")
    /\ UNCHANGED <<origin, row, target, child, channel, server, faults>>

\* mark_running, mark_done or mark_failed fails; run_item returns the error.
DatabaseError(t) ==
    /\ faults < FaultBound /\ faults' = faults + 1
    /\ \/ task[t] \in {"starting", "working", "bounced"}
       \/ task[t] = "handing" /\ Handed(t) \notin Waiting
    /\ End(t, "dberror")
    /\ UNCHANGED <<origin, row, target, child, channel, server>>

\* The wrapper does not run when run_item panics: the review stays in flight.
Panic(t) ==
    /\ faults < FaultBound /\ faults' = faults + 1
    /\ task[t] = "working"
    /\ task' = [task EXCEPT ![t] = "panicked"]
    /\ UNCHANGED <<origin, row, target, child, channel, inflight, server>>

Shutdown ==
    /\ server = "serving"
    /\ server' = "stopping"
    /\ UNCHANGED <<origin, row, target, child, channel, task, inflight, faults>>

\* Mutant of CloseQueue: the loop stops to receive and leaves the channel open.
StopReceiving ==
    /\ server = "stopping"
    /\ server' = "draining"
    /\ UNCHANGED <<origin, row, target, child, channel, task, inflight, faults>>

\* rx.close(): what is buffered stays, and every waiting send fails.
CloseQueue ==
    LET refused == {t \in Items : task[t] = "resending" /\ Retried(t) \in Waiting}
        unsent  == {j \in Jobs : origin[j] = "approval" /\ <<j, 0>> \in Waiting}
    IN  /\ server = "stopping"
        /\ server' = "draining"
        /\ channel' = SubSeq(channel, 1, IF Len(channel) < Capacity THEN Len(channel) ELSE Capacity)
        /\ task' = [t \in Items |->
                       CASE t \in refused -> "over"
                         [] task[t] = "handing" /\ Handed(t) \in Waiting -> "bounced"
                         [] OTHER -> task[t]]
        /\ inflight' = inflight \ ({target[t[1]] : t \in refused}
                                   \cup {target[j] : j \in unsent})
        /\ UNCHANGED <<origin, row, target, child, faults>>

\* The last task was joined: the loop returns and drops the channel.
Drained ==
    /\ server = "draining" /\ Active = {}
    /\ server' = "drained" /\ channel' = <<>>
    /\ UNCHANGED <<origin, row, target, child, task, inflight, faults>>

\* `run` returns when the listener has served its last request, and the
\* runtime drops the tasks that are left.
Exit ==
    /\ server \in {"stopping", "draining", "drained"}
    /\ \A j \in Jobs : origin[j] = "internal" => <<j, 0>> \notin Waiting
    /\ server' = "exited" /\ channel' = <<>>
    /\ task' = [t \in Items |-> IF t \in Active THEN "over" ELSE task[t]]
    /\ UNCHANGED <<origin, row, target, child, inflight, faults>>

TaskStep(t) ==
    /\ server # "exited"
    /\ \/ MarkRunning(t) \/ Succeed(t) \/ Fail(t) \/ BackOff(t)
       \/ Resend(t) \/ Resent(t)
       \/ \E j \in Jobs : HandOver(t, j)

LoopStep == Receive \/ CloseQueue \/ Drained

Next ==
    \/ \E j \in Jobs : EnqueueReview(j) \/ EnqueueListed(j)
    \/ \E j \in Jobs, r \in Reviews : PublishAfterApproval(j, r)
    \/ LoopStep
    \/ \E t \in Items : TaskStep(t) \/ DatabaseError(t) \/ Panic(t)
    \/ Shutdown \/ Exit

Spec == Init /\ [][Next]_vars

\* The runtime goes on polling the loop and some task that can move; backoff
\* sleeps end and the work itself is bounded by timeouts.  Nothing makes
\* anybody send a job, stop the server or fail.
FairSpec ==
    Spec /\ WF_vars(LoopStep) /\ WF_vars(\E t \in Items : TaskStep(t))

(***************************************************************************)
(* Properties                                                              *)
(***************************************************************************)
\* A task or an item that still stands for the job.
Owned(j) == \E a \in Attempts : <<j, a>> \in Range(channel) \cup Active

EndedBy(j, how) == \E a \in Attempts : task[<<j, a>>] \in how

\* While the server serves, the row of a job that was sent is unsettled only
\* as long as an item or a task stands for it, unless the database or the
\* work itself broke: no retry, hand-over or full channel loses a job.
JobsAreNotLost ==
    server = "serving" =>
        \A j \in Jobs :
            /\ origin[j] # "none"
            /\ row[j] \in {"queued", "running"}
            /\ ~EndedBy(j, {"dberror", "panicked"})
            => Owned(j)

\* The attempts of a job are worked on one after the other, each taken from
\* the channel at most once, although a retry may be received before the
\* task that sent it has returned.
AttemptsDoNotOverlap ==
    /\ \A u \in Range(channel) : task[u] = "none"
    /\ \A t, u \in Items :
          /\ t[1] = u[1] /\ t[2] < u[2]
          /\ u \in Range(channel) \cup Active
          => task[t] \in {"resending", "retried"}

\* A task whose retry went into the channel has nothing left to do.
UnderWay(j) ==
    \E a \in Attempts :
        <<j, a>> \in Range(channel) \/ task[<<j, a>>] \in Alive \ {"resending"}

\* Two publish jobs of one review are under way at once only after one of its
\* jobs was retried: the wrapper then forgets a review that is still to be
\* published, and publish_inflight otherwise keeps a second approval out.
SecondPublishFollowsRetry ==
    \A i, j \in Jobs :
        /\ i # j /\ target[i] # NoReview /\ target[i] = target[j]
        /\ UnderWay(i) /\ UnderWay(j)
        => \E k \in Jobs : target[k] = target[i] /\ EndedBy(k, {"retried"})

\* Every worker waits to send on a full channel that only they could empty:
\* the loop receives when a worker is free.
Wedged ==
    /\ Cardinality(Active) = WorkerLimit
    /\ \A t \in Active :
        \/ task[t] = "handing" /\ Handed(t) \in Waiting
        \/ task[t] = "resending" /\ Retried(t) \in Waiting

\* As no more than JobCount jobs are sent, the time comes when none is waiting
\* or worked on, unless the server stops or the supervisor wedges itself.
JobsSettle ==
    []<>(server # "serving" \/ Wedged \/ \A j \in Jobs : ~Owned(j))

\* A supervisor that was told to stop joins its last task, wedged or not:
\* closing the channel fails the sends its workers wait in.
ShutdownDrains ==
    server = "stopping" ~> server \in {"drained", "exited"}
=============================================================================
