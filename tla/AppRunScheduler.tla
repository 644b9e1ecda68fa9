------------------------- MODULE AppRunScheduler -------------------------
(***************************************************************************)
(* The AgentHero app-run scheduler: worker tasks that share nothing but    *)
(* the tables app_runs, worker_leases and dag_runs, and operators who      *)
(* change the same rows from the `agh app` command line.                   *)
(*                                                                         *)
(* Grain of atomicity: one action per SQL statement, or per transaction    *)
(* where the code opens one, but for the two recovery statements: they     *)
(* join two tables and test only one of them again when they write, so     *)
(* each is a read and a write (READ COMMITTED).  A worker that dies (a     *)
(* crash, or an error that leaves worker_loop through `?`) is not          *)
(* respawned by spawn().                                                   *)
(* worker_loop and work_once run the same steps; a LoopWorker polls again  *)
(* after a run, a OnceWorker exits.                                        *)
(*                                                                         *)
(* A claim inserts one lease row and draws one dag_run id, and increments  *)
(* app_runs.attempt in the same transaction: both are named <<r, a>> here. *)
(* Run r is the r-th row inserted, so `order by created_at` is the order   *)
(* of numbers.  Left out: event and log rows, which no step reads back,    *)
(* worker_nodes heartbeats, which no step reads, and adapter payloads.     *)
(***************************************************************************)
EXTENDS Naturals

CONSTANTS
    NumRuns,         \* rows that may be inserted into app_runs
    LoopWorkers,     \* worker_loop tasks
    OnceWorkers,     \* `agh app work` invocations
    MaxRetry,        \* largest retry.max_attempts an action declares
    AttemptBound,    \* bound: approvals stop buying attempts here
    FaultBound,      \* bound on crashes and interrupted operator commands
    Outcomes,        \* what adapters answer in this instance
    CancelCommands   \* operator commands in use: "cancel", "cancel-queued"

Runs == 1..NumRuns
Attempts == 1..AttemptBound
Workers == LoopWorkers \cup OnceWorkers

\* Run states a worker may record for an attempt, and the lease state it then
\* releases with: "released" after ok responses, "failed" otherwise.
SuccessStates == {"done", "partial", "awaiting_approval"}
FailureStates == {"failed", "system_failed"}
Results == SuccessStates \cup FailureStates

ASSUME NumRunsAssumption == NumRuns \in Nat
ASSUME BoundsAssumption ==
    MaxRetry \in Nat /\ AttemptBound \in Nat /\ MaxRetry <= AttemptBound
ASSUME FaultBoundAssumption == FaultBound \in Nat
ASSUME OutcomesAssumption == Outcomes \subseteq Results

\* The states the worker_leases check constraint admits.
LeaseColumn == {"leased", "released", "expired", "failed"}

\* A row with state = 'leased' is "overdue" here once leased_until has passed.
Held == {"leased", "overdue"}
LeaseStates == {"none"} \cup Held \cup LeaseColumn

RunStates == {"absent", "queued", "running", "cancelled"} \cup Results
DagStates == {"none", "running", "cancelled"} \cup Results

NoJob == [run |-> 0, att |-> 0]

VARIABLES
    runState,    \* app_runs.state
    attempt,     \* app_runs.attempt
    budget,      \* app_runs.input.retry.max_attempts
    lease,       \* worker_leases.state of the lease of <<run, attempt>>
    dag,         \* dag_runs.state of the dag run of <<run, attempt>>
    pc,          \* where each worker is
    job,         \* the ClaimedAppRun a worker holds
    verdict,     \* the adapter response it is about to persist
    seen,        \* <<run, attempt>> pairs a recovery statement is to expire
    overtaken,   \* history: runs a recovery moved though its test had failed
    cancelling,  \* runs whose `app cancel` is between its two statements
    listed,      \* run ids `app cancel-queued` read and has yet to update
    faults       \* faults so far

tables == <<runState, attempt, budget, lease, dag>>
locals == <<pc, job, verdict>>
recovery == <<seen, overtaken>>
operator == <<cancelling, listed>>
vars == <<runState, attempt, budget, lease, dag, pc, job, verdict,
          seen, overtaken, cancelling, listed, faults>>

PollSteps == {"requeue_expired", "requeue", "fail_expired", "fail", "claim"}
RunSteps == {"reserve", "adapter", "complete", "release",
             "cancel_release", "cancel_dag"}
Steps == PollSteps \cup RunSteps \cup {"stopped", "exited"}

TypeOK ==
    /\ runState \in [Runs -> RunStates]
    /\ attempt \in [Runs -> 0..AttemptBound]
    /\ budget \in [Runs -> 0..AttemptBound]
    /\ lease \in [Runs -> [Attempts -> LeaseStates]]
    /\ dag \in [Runs -> [Attempts -> DagStates]]
    /\ pc \in [Workers -> Steps]
    /\ job \in [Workers -> [run : Runs, att : Attempts] \cup {NoJob}]
    /\ verdict \in [Workers -> Results \cup {"none"}]
    /\ seen \in [Workers -> SUBSET (Runs \X Attempts)]
    /\ overtaken \subseteq Runs
    /\ cancelling \subseteq Runs
    /\ listed \subseteq Runs
    /\ faults \in 0..FaultBound

Init ==
    /\ runState = [r \in Runs |-> "absent"]
    /\ attempt = [r \in Runs |-> 0]
    /\ budget = [r \in Runs |-> 0]
    /\ lease = [r \in Runs |-> [a \in Attempts |-> "none"]]
    /\ dag = [r \in Runs |-> [a \in Attempts |-> "none"]]
    /\ pc = [w \in Workers |-> "requeue_expired"]
    /\ job = [w \in Workers |-> NoJob]
    /\ verdict = [w \in Workers |-> "none"]
    /\ seen = [w \in Workers |-> {}]
    /\ overtaken = {}
    /\ cancelling = {}
    /\ listed = {}
    /\ faults = 0

-----------------------------------------------------------------------------
(* Submitting runs                                                         *)

\* insert_queued and insert_replay_queued: a new row, its retry budget copied
\* from the action's retry policy.
Enqueue(r) ==
    /\ runState[r] = "absent"
    /\ \A q \in Runs : q < r => runState[q] # "absent"
    /\ runState' = [runState EXCEPT ![r] = "queued"]
    /\ \E m \in 1..MaxRetry : budget' = [budget EXCEPT ![r] = m]
    /\ UNCHANGED <<attempt, lease, dag, locals, recovery, operator, faults>>

-----------------------------------------------------------------------------
(* The worker's poll: recover expired leases, then claim                   *)

Goto(w, step) == pc' = [pc EXCEPT ![w] = step]

HasAttemptLeft(r) == attempt[r] < budget[r]

Retryable == {r \in Runs : runState[r] = "running" /\ HasAttemptLeft(r)}
Spent == {r \in Runs : runState[r] = "running" /\ ~HasAttemptLeft(r)}

\* Overdue leases, of any attempt, of the runs of S.
Overdue(S) == {p \in S \X Attempts : lease[p[1]][p[2]] = "overdue"}

\* A recovery statement of worker w takes its snapshot.  The tests on the run
\* are made here, once and for all.
Snapshot(w, S, write, next) ==
    /\ seen' = [seen EXCEPT ![w] = Overdue(S)]
    /\ Goto(w, IF Overdue(S) = {} THEN next ELSE write)
    /\ UNCHANGED <<tables, job, verdict, overtaken, operator, faults>>

\* Mutant of StillOverdue: the lease rows are not tested again either.
LeasesAsSeen(w) == seen[w]

\* A lease row is tested again once the statement has locked it.
StillOverdue(w) == {p \in seen[w] : lease[p[1]][p[2]] = "overdue"}

\* The write: expire those leases and set their runs to the state s.  The outer
\* update finds the runs by id, whatever their state is by now, even if they
\* are none of the runs `fit` it would have chosen.
Expire(w, s, fit, next) ==
    LET moved == {p[1] : p \in StillOverdue(w)}
    IN  /\ lease' = [r \in Runs |-> [a \in Attempts |->
                        IF <<r, a>> \in StillOverdue(w) THEN "expired" ELSE lease[r][a]]]
        /\ runState' = [r \in Runs |-> IF r \in moved THEN s ELSE runState[r]]
        /\ overtaken' = overtaken \cup (moved \ fit)
        /\ seen' = [seen EXCEPT ![w] = {}]
        /\ Goto(w, next)
        /\ UNCHANGED <<attempt, budget, dag, job, verdict, operator, faults>>

\* recover_expired_leases, first statement.
SeeRetryable(w) ==
    /\ pc[w] = "requeue_expired"
    /\ Snapshot(w, Retryable, "requeue", "fail_expired")

RecoverRequeue(w) ==
    /\ pc[w] = "requeue"
    /\ Expire(w, "queued", Retryable, "fail_expired")

\* Mutant of SeeSpent: a comparison off by one leaves runs that spent their
\* last attempt running.
SeeSpentOffByOne(w) ==
    /\ pc[w] = "fail_expired"
    /\ Snapshot(w, {r \in Spent : attempt[r] > budget[r]}, "fail", "claim")

\* recover_expired_leases, second statement.
SeeSpent(w) ==
    /\ pc[w] = "fail_expired"
    /\ Snapshot(w, Spent, "fail", "claim")

RecoverFail(w) ==
    /\ pc[w] = "fail"
    /\ Expire(w, "system_failed", Spent, "claim")

Claimable(r) == runState[r] = "queued" /\ HasAttemptLeft(r)

\* Mutant of NextAttempt: a recovered or approved run resumes its last attempt.
NextAttemptReused(r) == IF attempt[r] = 0 THEN 1 ELSE attempt[r]

\* The claim transaction: the run starts its next attempt under a new lease.
NextAttempt(r) == attempt[r] + 1

Claim(w, r) ==
    /\ runState' = [runState EXCEPT ![r] = "running"]
    /\ attempt' = [attempt EXCEPT ![r] = NextAttempt(r)]
    /\ lease' = [lease EXCEPT ![r][NextAttempt(r)] = "leased"]
    /\ job' = [job EXCEPT ![w] = [run |-> r, att |-> NextAttempt(r)]]
    /\ Goto(w, "reserve")
    /\ UNCHANGED <<budget, dag, verdict, recovery, operator, faults>>

\* claim_next: the oldest claimable run.
ClaimNext(w) ==
    /\ w \in LoopWorkers
    /\ pc[w] = "claim"
    /\ \E r \in Runs :
        /\ Claimable(r)
        /\ \A q \in Runs : Claimable(q) => r <= q
        /\ Claim(w, r)

\* claim_run: the run the operator named.
ClaimRun(w) ==
    /\ w \in OnceWorkers
    /\ pc[w] = "claim"
    /\ \E r \in Runs : Claimable(r) /\ Claim(w, r)

AfterRun(w) == IF w \in OnceWorkers THEN "exited" ELSE "requeue_expired"

\* Nothing to claim, or not the run that was named: sleep and poll again, or
\* exit.
ClaimNothing(w) ==
    /\ pc[w] = "claim"
    /\ w \in LoopWorkers => \A r \in Runs : ~Claimable(r)
    /\ w \in OnceWorkers => \E r \in Runs : ~Claimable(r)
    /\ Goto(w, AfterRun(w))
    /\ UNCHANGED <<tables, job, verdict, recovery, operator, faults>>

-----------------------------------------------------------------------------
(* Executing a claimed run                                                 *)

\* The columns of the job's own lease and dag run.
JobRun(w) == job[w].run
JobAtt(w) == job[w].att

\* reserve_dag_run, then the adapter is started.
Reserve(w) ==
    /\ pc[w] = "reserve"
    /\ dag' = [dag EXCEPT ![JobRun(w)][JobAtt(w)] = "running"]
    /\ Goto(w, "adapter")
    /\ UNCHANGED <<runState, attempt, budget, lease, job, verdict, recovery, operator, faults>>

\* renew_lease, on a heartbeat tick while the adapter future is polled.  The new
\* deadline is later than the now() of every recovery statement under way.
Renew(w) ==
    /\ pc[w] \in {"adapter", "cancel_release"}
    /\ lease[JobRun(w)][JobAtt(w)] = "overdue"
    /\ lease' = [lease EXCEPT ![JobRun(w)][JobAtt(w)] = "leased"]
    /\ seen' = [v \in Workers |-> seen[v] \ {<<JobRun(w), JobAtt(w)>>}]
    /\ UNCHANGED <<runState, attempt, budget, dag, locals, overtaken, operator, faults>>

\* The cancellation check found the run cancelled and signals the adapter;
\* from here on whatever the adapter answers is a cancellation cleanup.
ObserveCancel(w) ==
    /\ pc[w] = "adapter"
    /\ runState[JobRun(w)] = "cancelled"
    /\ Goto(w, "cancel_release")
    /\ UNCHANGED <<tables, job, verdict, recovery, operator, faults>>

\* The adapter answered, failed or timed out before a cancellation was seen.
AdapterResponds(w) ==
    /\ pc[w] = "adapter"
    /\ \E v \in Outcomes : verdict' = [verdict EXCEPT ![w] = v]
    /\ Goto(w, "complete")
    /\ UNCHANGED <<tables, job, recovery, operator, faults>>

\* complete_success / complete_failure: record the verdict, with its dag run,
\* if the run is still running -- whichever attempt is running by now.
MayComplete(w) == runState[JobRun(w)] = "running"

\* What a report, or its absence, can make of the dag run when the run ends in
\* v: an adapter that answers ok=false may still report a dag run that ended
\* well or paused.
DagVerdicts(v) ==
    IF v = "failed" THEN (Outcomes \cap SuccessStates) \cup {"failed"} ELSE {v}

\* Mutant of CompleteRecorded: the report is not persisted with the run.
CompleteUnreported(w) ==
    /\ pc[w] = "complete"
    /\ MayComplete(w)
    /\ runState' = [runState EXCEPT ![JobRun(w)] = verdict[w]]
    /\ Goto(w, "release")
    /\ UNCHANGED <<attempt, budget, lease, dag, job, verdict, recovery, operator, faults>>

CompleteRecorded(w) ==
    /\ pc[w] = "complete"
    /\ MayComplete(w)
    /\ runState' = [runState EXCEPT ![JobRun(w)] = verdict[w]]
    /\ \E d \in DagVerdicts(verdict[w]) :
           dag' = [dag EXCEPT ![JobRun(w)][JobAtt(w)] = d]
    /\ Goto(w, "release")
    /\ UNCHANGED <<attempt, budget, lease, job, verdict, recovery, operator, faults>>

CompleteIgnored(w) ==
    /\ pc[w] = "complete"
    /\ ~MayComplete(w)
    /\ Goto(w, "release")
    /\ UNCHANGED <<tables, job, verdict, recovery, operator, faults>>

\* The run is over for this worker; its local state goes out of scope.
Finish(w, step) ==
    /\ Goto(w, step)
    /\ job' = [job EXCEPT ![w] = NoJob]
    /\ verdict' = [verdict EXCEPT ![w] = "none"]

\* Mutant of ReleasedLease: the update selects by app_run_id instead of id.
ReleasedLeasesOfRun(r, a, s) ==
    [lease EXCEPT ![r] = [b \in Attempts |-> IF @[b] \in Held THEN s ELSE @[b]]]

\* release_lease(state): only a row still 'leased' is updated, and the table's
\* check constraint rejects a state it does not know.
ReleasedLease(r, a, s) ==
    [lease EXCEPT ![r][a] = IF @ \in Held THEN s ELSE @]
ReleaseRejected(r, a, s) == lease[r][a] \in Held /\ s \notin LeaseColumn

LeaseStateAfter(v) == IF v \in SuccessStates THEN "released" ELSE "failed"

Release(w) ==
    /\ pc[w] = "release"
    /\ lease' = ReleasedLease(JobRun(w), JobAtt(w), LeaseStateAfter(verdict[w]))
    /\ Finish(w, AfterRun(w))
    /\ UNCHANGED <<runState, attempt, budget, dag, recovery, operator, faults>>

\* The cancellation path releases with state "cancelled".  While the lease is
\* still held the statement fails, and the error ends the worker.
CancelReleaseRejected(w) ==
    /\ pc[w] = "cancel_release"
    /\ ReleaseRejected(JobRun(w), JobAtt(w), "cancelled")
    /\ Finish(w, "stopped")
    /\ UNCHANGED <<tables, recovery, operator, faults>>

CancelReleaseAccepted(w) ==
    /\ pc[w] = "cancel_release"
    /\ ~ReleaseRejected(JobRun(w), JobAtt(w), "cancelled")
    /\ Goto(w, "cancel_dag")
    /\ UNCHANGED <<tables, job, verdict, recovery, operator, faults>>

\* cancel_dag_run, on a dag run that has not ended.
CancelDagRun(w) ==
    /\ pc[w] = "cancel_dag"
    /\ dag' = [dag EXCEPT ![JobRun(w)][JobAtt(w)] =
                  IF @ \in {"running", "awaiting_approval"} THEN "cancelled" ELSE @]
    /\ Finish(w, AfterRun(w))
    /\ UNCHANGED <<runState, attempt, budget, lease, recovery, operator, faults>>

\* A crash, or a database error that leaves worker_loop through `?`.
Stop(w) ==
    /\ pc[w] \notin {"stopped", "exited"}
    /\ faults < FaultBound
    /\ faults' = faults + 1
    /\ Finish(w, "stopped")
    /\ seen' = [seen EXCEPT ![w] = {}]
    /\ UNCHANGED <<tables, overtaken, operator>>

-----------------------------------------------------------------------------
(* Time and operators                                                      *)

\* Fifteen minutes without a renewal.
LeaseTimesOut(r, a) ==
    /\ lease[r][a] = "leased"
    /\ lease' = [lease EXCEPT ![r][a] = "overdue"]
    /\ UNCHANGED <<runState, attempt, budget, dag, locals, recovery, operator, faults>>

\* Mutant of ApprovedBudget: the budget is left alone.
ApprovedBudgetKept(r) == budget[r]

\* approve_awaiting_run: requeue with the approval in the input, and with a
\* budget that allows one more attempt.
ApprovedBudget(r) == IF budget[r] > attempt[r] THEN budget[r] ELSE attempt[r] + 1

Approve(r) ==
    /\ runState[r] = "awaiting_approval"
    /\ attempt[r] < AttemptBound
    /\ runState' = [runState EXCEPT ![r] = "queued"]
    /\ budget' = [budget EXCEPT ![r] = ApprovedBudget(r)]
    /\ UNCHANGED <<attempt, lease, dag, locals, recovery, operator, faults>>

\* app_cancel, first statement.  A run is cancelled by one command at a time.
Cancel(r) ==
    /\ "cancel" \in CancelCommands
    /\ r \notin cancelling
    /\ runState[r] \in {"queued", "running"}
    /\ runState' = [runState EXCEPT ![r] = "cancelled"]
    /\ cancelling' = cancelling \cup {r}
    /\ UNCHANGED <<attempt, budget, lease, dag, locals, recovery, listed, faults>>

\* Mutant of CancelLeases: only the lease of the current attempt.
CancelCurrentLease(r) ==
    /\ r \in cancelling
    /\ lease' = [lease EXCEPT ![r] =
                    [a \in Attempts |-> IF a = attempt[r] /\ @[a] \in Held
                                       THEN "failed" ELSE @[a]]]
    /\ cancelling' = cancelling \ {r}
    /\ UNCHANGED <<runState, attempt, budget, dag, locals, recovery, listed, faults>>

\* app_cancel, second statement: every lease of the run still held fails.
CancelLeases(r) ==
    /\ r \in cancelling
    /\ lease' = [lease EXCEPT ![r] =
                    [a \in Attempts |-> IF @[a] \in Held THEN "failed" ELSE @[a]]]
    /\ cancelling' = cancelling \ {r}
    /\ UNCHANGED <<runState, attempt, budget, dag, locals, recovery, listed, faults>>

\* The command dies or loses its connection between the two statements.
CancelInterrupted(r) ==
    /\ r \in cancelling
    /\ faults < FaultBound
    /\ faults' = faults + 1
    /\ cancelling' = cancelling \ {r}
    /\ UNCHANGED <<tables, locals, recovery, listed>>

\* app_cancel_queued lists queued runs that match the operator's filter ...
ListQueued ==
    /\ "cancel-queued" \in CancelCommands
    /\ listed = {}
    /\ \E S \in SUBSET {r \in Runs : runState[r] = "queued"} : S # {} /\ listed' = S
    /\ UNCHANGED <<tables, locals, recovery, cancelling, faults>>

\* ... and then cancels the listed ids, whatever state they are in.
CancelListed ==
    /\ listed # {}
    /\ runState' = [r \in Runs |-> IF r \in listed THEN "cancelled" ELSE runState[r]]
    /\ listed' = {}
    /\ UNCHANGED <<attempt, budget, lease, dag, locals, recovery, cancelling, faults>>

-----------------------------------------------------------------------------

\* What worker_loop and execute_claimed do next, given that nothing fails.
WorkerStep(w) ==
    \/ SeeRetryable(w) \/ RecoverRequeue(w) \/ SeeSpent(w) \/ RecoverFail(w)
    \/ ClaimNext(w) \/ ClaimRun(w) \/ ClaimNothing(w)
    \/ Reserve(w) \/ ObserveCancel(w) \/ AdapterResponds(w)
    \/ CompleteRecorded(w) \/ CompleteIgnored(w) \/ Release(w)
    \/ CancelReleaseRejected(w) \/ CancelReleaseAccepted(w) \/ CancelDagRun(w)

OperatorStep ==
    \/ \E r \in Runs : Approve(r) \/ Cancel(r) \/ CancelLeases(r) \/ CancelInterrupted(r)
    \/ ListQueued \/ CancelListed

Next ==
    \/ \E r \in Runs : Enqueue(r)
    \/ \E w \in Workers : WorkerStep(w) \/ Renew(w) \/ Stop(w)
    \/ \E r \in Runs, a \in Attempts : LeaseTimesOut(r, a)
    \/ OperatorStep

Spec == Init /\ [][Next]_vars

\* The tasks of live workers are scheduled, adapters answer or hit their
\* timeout, and time passes for the lease of a worker that is gone.  Nobody
\* owes an operator command, a fault or a renewal.
Abandoned(r, a) == \A w \in Workers : job[w] # [run |-> r, att |-> a]

Fairness ==
    /\ \A w \in Workers : WF_vars(WorkerStep(w))
    /\ \A r \in Runs, a \in Attempts : WF_vars(Abandoned(r, a) /\ LeaseTimesOut(r, a))

FairSpec == Spec /\ Fairness

-----------------------------------------------------------------------------
(* Properties                                                              *)

\* Whatever workers, timeouts, approvals and cancellations do, a run marked
\* running holds the lease of its current attempt: recovery looks for held
\* leases only, so a running run without one would never be recovered.  Only a
\* recovery that writes after its snapshot went stale can break this: it puts
\* a run back that `app cancel` is still taking the leases from.
RunningHasLiveLease ==
    \A r \in Runs : runState[r] = "running" /\ r \notin overtaken =>
        attempt[r] \in Attempts /\ lease[r][attempt[r]] \in Held

\* No two workers ever hold the same attempt, even when one of them lost its
\* lease and does not know it: attempts name leases and dag runs.
OneWorkerPerAttempt ==
    \A w1, w2 \in Workers : w1 # w2 /\ job[w1] # NoJob => job[w1] # job[w2]

\* A result a worker recorded in app_runs is borne out by the dag run of some
\* attempt of that run: by the same state, or, for a failure, by the state a
\* report or the failure itself gave it.
ResultIsRecorded ==
    \A r \in Runs : runState[r] \in Results \ {"system_failed"} =>
        \E a \in Attempts :
            a <= attempt[r] /\ dag[r][a] \in DagVerdicts(runState[r])

\* When `app cancel` has finished undisturbed, the run has no held lease of
\* any attempt, its zombies' leases included, and never gets another.
CancelledRunHoldsNoLease ==
    \A r \in Runs :
        faults = 0 /\ runState[r] = "cancelled" /\ r \notin cancelling =>
            \A a \in Attempts : lease[r][a] \notin Held

\* The scheduler implements the lifecycle of its runs: every step of a worker or
\* an operator is one step of some runs of the lifecycle, or none.  The runs a
\* recovery statement saw and has yet to write are the lifecycle's suspects.
SeenAt(step) == {r \in Runs : \E w \in Workers, a \in Attempts :
                                 pc[w] = step /\ <<r, a>> \in seen[w]}

Lifecycle == INSTANCE AppRunLifecycle
    WITH Runs <- Runs, MaxRetry <- MaxRetry,
         runState <- runState, attempt <- attempt, budget <- budget,
         retryable <- SeenAt("requeue"), spent <- SeenAt("fail")

RefinesLifecycle == Lifecycle!LifecycleSpec

\* However often a run is recovered or approved, it never starts more attempts
\* than its budget.
AttemptsWithinBudget == Lifecycle!AttemptsWithinBudget

\* A cancelled run without a held lease stays cancelled, whatever its workers
\* are about to record and whatever a recovery saw before: what is left of it
\* is the lease row, which recovery tests again.  A cancelled run that still
\* has a lapsed lease may be brought back (see StillOverdue and Expire).
CancelledIsFinal ==
    [][\A r \in Runs :
          runState[r] = "cancelled" /\ (\A a \in Attempts : lease[r][a] \notin Held)
              => runState'[r] = "cancelled"]_vars

\* While one polling worker survives, every submitted run reaches a result,
\* an approval gate or a cancellation: no crash, lost lease or spent budget
\* strands it.  The exception is a run that a recovery moved on a stale
\* snapshot: queued with no attempt left, or running with its lease taken.
Settled(r) == runState[r] \in Results \cup {"cancelled"}

Stranded(r) ==
    \/ runState[r] = "queued" /\ ~HasAttemptLeft(r)
    \/ runState[r] = "running" /\ lease[r][attempt[r]] \notin Held

SubmittedRunsSettle ==
    \A r \in Runs :
        (\E w \in LoopWorkers : [](pc[w] # "stopped"))
            => (runState[r] = "queued"
                    ~> Settled(r) \/ (r \in overtaken /\ Stranded(r)))

\* Claimed by recover_expired_leases: the runs it takes away from a worker are
\* those whose worker let the lease of the running attempt lapse.
OnlyLapsedWorkersAreRecovered ==
    [][\A w \in Workers :
          SeeRetryable(w) => \A p \in seen'[w] : lease[p[1]][attempt[p[1]]] = "overdue"]_vars

=============================================================================
