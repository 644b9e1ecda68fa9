---------------------- MODULE AppRunSchedulerProofs ----------------------
(***************************************************************************)
(* What TLAPS proves of AppRunScheduler, for every number of runs, workers *)
(* and attempts.  The argument is one inductive invariant, IInv: an        *)
(* attempt is a claim that at most one worker holds, and while the run is  *)
(* running its newest attempt is the one whose lease is held.              *)
(***************************************************************************)
EXTENDS AppRunScheduler, TLAPS

\* A run that was never inserted has no attempts.
FreshRuns == \A r \in Runs : runState[r] = "absent" => attempt[r] = 0

\* What `app cancel-queued` listed and what a recovery saw was inserted.
KnownRunsExist ==
    /\ \A r \in listed : runState[r] # "absent"
    /\ \A w \in Workers : \A p \in seen[w] : runState[p[1]] # "absent"

\* A worker has a job exactly while it executes a run; the job is an attempt
\* that was started, and a worker about to persist has a verdict.
JobsAreClaims ==
    \A w \in Workers :
        /\ pc[w] \notin RunSteps => job[w] = NoJob
        /\ pc[w] \in RunSteps =>
            /\ job[w] \in [run : Runs, att : Attempts]
            /\ JobAtt(w) <= attempt[JobRun(w)]
        /\ pc[w] \in {"complete", "release"} => verdict[w] \in Results

\* Once the current attempt has been persisted, the run is not running.
PersistedRunIsOver ==
    \A w \in Workers :
        pc[w] = "release" /\ JobAtt(w) = attempt[JobRun(w)]
            => runState[JobRun(w)] # "running"

\* A run whose cancellation is under way is cancelled, or was overtaken.
CancellingIsCancelled ==
    \A r \in cancelling \ overtaken : runState[r] = "cancelled"

\* A queued run can be claimed, unless it was put back on a stale snapshot.
QueuedCanStart ==
    \A r \in Runs \ overtaken : runState[r] = "queued" => HasAttemptLeft(r)

\* An attempt has no dag run before its worker reserves one, and one that has
\* not ended while its worker has recorded nothing.
DagRunsAreOpen ==
    /\ \A r \in Runs, a \in Attempts : a > attempt[r] => dag[r][a] = "none"
    /\ \A w \in Workers :
        /\ pc[w] = "reserve" => dag[JobRun(w)][JobAtt(w)] = "none"
        /\ pc[w] \in RunSteps \ {"release"} =>
              dag[JobRun(w)][JobAtt(w)] \in {"none", "running"}

\* Where only `app cancel` is in use, a finished cancellation leaves no lease.
CancelledHoldsNothing ==
    "cancel-queued" \notin CancelCommands =>
        listed = {} /\ CancelledRunHoldsNoLease

\* The inductive invariant.
IInv ==
    /\ TypeOK
    /\ FreshRuns
    /\ KnownRunsExist
    /\ JobsAreClaims
    /\ AttemptsWithinBudget
    /\ QueuedCanStart
    /\ OneWorkerPerAttempt
    /\ PersistedRunIsOver
    /\ CancellingIsCancelled
    /\ RunningHasLiveLease
    /\ DagRunsAreOpen
    /\ ResultIsRecorded
    /\ CancelledHoldsNothing

-----------------------------------------------------------------------------

\* The vocabulary of the module is expanded in every proof below.
USE DEF Goto, JobRun, JobAtt, NoJob, Attempts, Results, SuccessStates,
        FailureStates, Held, LeaseColumn, LeaseStates, RunStates, DagStates,
        Steps, PollSteps, RunSteps, tables, locals, recovery, operator

\* Steps that leave the dag runs alone keep every recorded result if they give
\* no run a new one.
LEMMA RecordedResultsKept ==
    ASSUME TypeOK, TypeOK', ResultIsRecorded, UNCHANGED dag,
           \A r \in Runs :
               /\ attempt[r] <= attempt'[r]
               /\ runState'[r] \in Results \ {"system_failed"}
                    => runState'[r] = runState[r]
    PROVE  ResultIsRecorded'
<1> SUFFICES ASSUME NEW r \in Runs, runState'[r] \in Results \ {"system_failed"}
             PROVE  \E a \in Attempts :
                        a <= attempt'[r] /\ dag'[r][a] \in DagVerdicts(runState'[r])
  BY DEF ResultIsRecorded
<1>1. runState'[r] = runState[r]
  OBVIOUS
<1>2. PICK a \in Attempts : a <= attempt[r] /\ dag[r][a] \in DagVerdicts(runState[r])
  BY <1>1 DEF ResultIsRecorded
<1>3. a <= attempt'[r]
  BY <1>2 DEF TypeOK
<1> QED BY <1>1, <1>2, <1>3

\* A report that ends a dag run leaves it in the state of some result.
LEMMA DagVerdictsAreResults ==
    ASSUME NEW v \in Results
    PROVE  DagVerdicts(v) \subseteq Results
BY DEF DagVerdicts

\* A new row is queued with no attempts and a budget of at least one.
LEMMA EnqueueStep ==
    ASSUME IInv, NEW r \in Runs, Enqueue(r)
    PROVE  IInv'
<1> USE DEF Enqueue
<1>1. TypeOK'
  BY BoundsAssumption DEF IInv, TypeOK
<1>2. AttemptsWithinBudget' /\ QueuedCanStart'
  BY BoundsAssumption DEF IInv, AttemptsWithinBudget,
       Lifecycle!AttemptsWithinBudget, QueuedCanStart, HasAttemptLeft, TypeOK, FreshRuns
<1>3. PersistedRunIsOver'
  BY DEF IInv, PersistedRunIsOver, JobsAreClaims
<1>4. ResultIsRecorded'
  BY <1>1, RecordedResultsKept DEF IInv, TypeOK
<1>5. /\ FreshRuns' /\ KnownRunsExist' /\ JobsAreClaims'
      /\ OneWorkerPerAttempt' /\ CancellingIsCancelled' /\ RunningHasLiveLease'
      /\ DagRunsAreOpen' /\ CancelledHoldsNothing'
  BY DEF IInv, FreshRuns, KnownRunsExist, JobsAreClaims, OneWorkerPerAttempt,
       CancellingIsCancelled, RunningHasLiveLease, DagRunsAreOpen,
       CancelledHoldsNothing, CancelledRunHoldsNoLease
<1> QED BY <1>1, <1>2, <1>3, <1>4, <1>5 DEF IInv

\* A snapshot names rows that exist, and writes nothing.
LEMMA SnapshotStep ==
    ASSUME IInv, NEW w \in Workers, SeeRetryable(w) \/ SeeSpent(w)
    PROVE  IInv'
<1> DEFINE S == IF SeeRetryable(w) THEN Retryable ELSE Spent
<1>1. /\ pc[w] \notin RunSteps /\ pc'[w] \in PollSteps
      /\ \A v \in Workers \ {w} : pc'[v] = pc[v]
      /\ pc' \in [Workers -> Steps]
      /\ seen' = [seen EXCEPT ![w] = Overdue(S)]
      /\ UNCHANGED <<tables, job, verdict, overtaken, operator, faults>>
  BY DEF SeeRetryable, SeeSpent, Snapshot, IInv, TypeOK
<1>2. S \subseteq Runs /\ \A r \in S : runState[r] = "running"
  BY DEF Retryable, Spent
<1>3. Overdue(S) \subseteq Runs \X Attempts /\ \A p \in Overdue(S) : p[1] \in S
  BY <1>2 DEF Overdue
<1> HIDE DEF S
<1>4. TypeOK'
  BY <1>1, <1>3 DEF IInv, TypeOK
<1>5. KnownRunsExist'
  BY <1>1, <1>2, <1>3 DEF IInv, KnownRunsExist, TypeOK
<1>6. JobsAreClaims'
  BY <1>1 DEF IInv, JobsAreClaims
<1>7. PersistedRunIsOver' /\ DagRunsAreOpen'
  BY <1>1 DEF IInv, PersistedRunIsOver, DagRunsAreOpen
<1>8. /\ FreshRuns' /\ AttemptsWithinBudget' /\ QueuedCanStart'
      /\ OneWorkerPerAttempt' /\ CancellingIsCancelled' /\ RunningHasLiveLease'
      /\ ResultIsRecorded' /\ CancelledHoldsNothing'
  BY <1>1 DEF IInv, FreshRuns, AttemptsWithinBudget,
       Lifecycle!AttemptsWithinBudget, QueuedCanStart, HasAttemptLeft,
       OneWorkerPerAttempt, CancellingIsCancelled, RunningHasLiveLease,
       ResultIsRecorded, CancelledHoldsNothing, CancelledRunHoldsNoLease
<1> QED BY <1>4, <1>5, <1>6, <1>7, <1>8 DEF IInv

\* The write of a recovery takes a run from its worker together with a lease,
\* and is remembered where the run had moved on since the snapshot.
LEMMA ExpireStep ==
    ASSUME IInv, NEW w \in Workers, RecoverRequeue(w) \/ RecoverFail(w)
    PROVE  IInv'
<1> DEFINE P == StillOverdue(w)
           M == {p[1] : p \in P}
           s == IF RecoverRequeue(w) THEN "queued" ELSE "system_failed"
<1>1. /\ pc[w] \notin RunSteps /\ pc'[w] \in PollSteps
      /\ \A v \in Workers \ {w} : pc'[v] = pc[v]
      /\ pc' \in [Workers -> Steps]
      /\ lease' = [r \in Runs |-> [a \in Attempts |->
                      IF <<r, a>> \in P THEN "expired" ELSE lease[r][a]]]
      /\ runState' = [r \in Runs |-> IF r \in M THEN s ELSE runState[r]]
      /\ seen' = [seen EXCEPT ![w] = {}]
      /\ UNCHANGED <<attempt, budget, dag, job, verdict, operator, faults>>
  BY DEF RecoverRequeue, RecoverFail, Expire, IInv, TypeOK
<1>2. /\ s \in {"queued", "system_failed"}
      /\ M \subseteq Runs
      /\ \A r \in Runs, a \in Attempts : <<r, a>> \in P => r \in M
      /\ \A r \in M : runState[r] # "absent"
  BY DEF IInv, TypeOK, KnownRunsExist, StillOverdue
<1>3. /\ overtaken \subseteq overtaken'
      /\ overtaken' \subseteq Runs
      /\ \A r \in M : runState[r] # "running" => r \in overtaken'
      /\ \A r \in M : s = "queued" /\ ~HasAttemptLeft(r) => r \in overtaken'
  BY <1>2 DEF RecoverRequeue, RecoverFail, Expire, Retryable, Spent, IInv, TypeOK
<1> HIDE DEF P, M, s
<1>4. TypeOK'
  BY <1>1, <1>2, <1>3 DEF IInv, TypeOK
<1>5. KnownRunsExist'
  BY <1>1, <1>2 DEF IInv, KnownRunsExist, TypeOK
<1>6. JobsAreClaims'
  BY <1>1 DEF IInv, JobsAreClaims
<1>7. PersistedRunIsOver' /\ DagRunsAreOpen' /\ FreshRuns'
  BY <1>1, <1>2 DEF IInv, PersistedRunIsOver, DagRunsAreOpen, FreshRuns, JobsAreClaims
<1>8. QueuedCanStart'
  BY <1>1, <1>2, <1>3 DEF IInv, QueuedCanStart, HasAttemptLeft
<1>9. CancellingIsCancelled'
  BY <1>1, <1>2, <1>3 DEF IInv, TypeOK, CancellingIsCancelled
<1>10. RunningHasLiveLease'
  BY <1>1, <1>2, <1>3 DEF IInv, RunningHasLiveLease
<1>11. ResultIsRecorded'
  BY <1>1, <1>2, <1>4, RecordedResultsKept DEF IInv, TypeOK
<1>12. CancelledHoldsNothing'
  BY <1>1, <1>2 DEF IInv, CancelledHoldsNothing, CancelledRunHoldsNoLease
<1>13. AttemptsWithinBudget' /\ OneWorkerPerAttempt'
  BY <1>1 DEF IInv, AttemptsWithinBudget, Lifecycle!AttemptsWithinBudget,
       OneWorkerPerAttempt
<1> QED BY <1>4, <1>5, <1>6, <1>7, <1>8, <1>9, <1>10, <1>11, <1>12, <1>13 DEF IInv

\* A claim takes an attempt number nobody has used, with a fresh lease.
LEMMA ClaimStep ==
    ASSUME IInv, NEW w \in Workers, NEW r \in Runs,
           pc[w] = "claim", Claimable(r), Claim(w, r)
    PROVE  IInv'
<1> USE DEF Claim, Claimable, HasAttemptLeft, NextAttempt
<1>1. TypeOK'
  BY BoundsAssumption DEF IInv, TypeOK
<1>2. JobsAreClaims'
  BY BoundsAssumption DEF IInv, JobsAreClaims, TypeOK
<1>3. AttemptsWithinBudget' /\ QueuedCanStart'
  BY BoundsAssumption DEF IInv, AttemptsWithinBudget,
       Lifecycle!AttemptsWithinBudget, QueuedCanStart, HasAttemptLeft, TypeOK
<1>4. OneWorkerPerAttempt'
  <2>1. \A v \in Workers : job[v] # NoJob => job[v] # job'[w]
    <3> SUFFICES ASSUME NEW v \in Workers, job[v] # NoJob PROVE job[v] # job'[w]
      OBVIOUS
    <3>1. job[v].att <= attempt[job[v].run] /\ job[v].att \in Attempts
      BY DEF IInv, JobsAreClaims
    <3>2. job'[w] = [run |-> r, att |-> attempt[r] + 1]
      BY DEF IInv, TypeOK
    <3>3. attempt[r] \in Nat
      BY DEF IInv, TypeOK
    <3> QED BY <3>1, <3>2, <3>3
  <2>2. \A v \in Workers : v # w => job'[v] = job[v]
    BY DEF IInv, TypeOK
  <2> QED BY <2>1, <2>2 DEF IInv, OneWorkerPerAttempt
<1>5. PersistedRunIsOver'
  BY DEF IInv, PersistedRunIsOver, TypeOK, JobsAreClaims
<1>6. RunningHasLiveLease'
  BY BoundsAssumption DEF IInv, RunningHasLiveLease, TypeOK
<1>7. DagRunsAreOpen'
  BY BoundsAssumption DEF IInv, DagRunsAreOpen, TypeOK
<1>8. ResultIsRecorded'
  BY <1>1, RecordedResultsKept DEF IInv, TypeOK
<1>9. /\ FreshRuns' /\ KnownRunsExist' /\ CancellingIsCancelled'
      /\ CancelledHoldsNothing'
  BY DEF IInv, FreshRuns, KnownRunsExist, CancellingIsCancelled,
       CancelledHoldsNothing, CancelledRunHoldsNoLease
<1> QED BY <1>1, <1>2, <1>3, <1>4, <1>5, <1>6, <1>7, <1>8, <1>9 DEF IInv

\* Polling in vain moves the worker only.
LEMMA ClaimNothingStep ==
    ASSUME IInv, NEW w \in Workers, ClaimNothing(w)
    PROVE  IInv'
<1> USE DEF ClaimNothing, AfterRun
<1>1. TypeOK'
  BY DEF IInv, TypeOK
<1>2. /\ FreshRuns' /\ KnownRunsExist' /\ JobsAreClaims'
      /\ AttemptsWithinBudget' /\ QueuedCanStart' /\ OneWorkerPerAttempt'
      /\ PersistedRunIsOver'
      /\ CancellingIsCancelled' /\ RunningHasLiveLease' /\ DagRunsAreOpen'
      /\ ResultIsRecorded' /\ CancelledHoldsNothing'
  BY DEF IInv, FreshRuns, KnownRunsExist, JobsAreClaims, AttemptsWithinBudget,
       Lifecycle!AttemptsWithinBudget, QueuedCanStart, HasAttemptLeft,
       OneWorkerPerAttempt, PersistedRunIsOver,
       CancellingIsCancelled, RunningHasLiveLease, DagRunsAreOpen,
       ResultIsRecorded, CancelledHoldsNothing, CancelledRunHoldsNoLease
<1> QED BY <1>1, <1>2 DEF IInv

\* A reservation writes a dag run that no result points to yet.
LEMMA ReserveStep ==
    ASSUME IInv, NEW w \in Workers, Reserve(w)
    PROVE  IInv'
<1> USE DEF Reserve
<1>1. TypeOK'
  BY DEF IInv, TypeOK
<1>2. DagRunsAreOpen'
  BY DEF IInv, DagRunsAreOpen, TypeOK, JobsAreClaims, OneWorkerPerAttempt
<1>3. ResultIsRecorded'
  <2> SUFFICES ASSUME NEW r \in Runs, runState'[r] \in Results \ {"system_failed"}
               PROVE  \E a \in Attempts :
                          a <= attempt'[r] /\ dag'[r][a] \in DagVerdicts(runState'[r])
    BY DEF ResultIsRecorded
  <2>1. PICK a \in Attempts : a <= attempt[r] /\ dag[r][a] \in DagVerdicts(runState[r])
    BY DEF IInv, ResultIsRecorded
  <2>2. ~(r = JobRun(w) /\ a = JobAtt(w))
    BY <2>1, DagVerdictsAreResults DEF IInv, DagRunsAreOpen
  <2>3. dag'[r][a] = dag[r][a]
    BY <2>2 DEF IInv, TypeOK, JobsAreClaims
  <2> QED BY <2>1, <2>3
<1>4. /\ FreshRuns' /\ KnownRunsExist' /\ JobsAreClaims'
      /\ AttemptsWithinBudget' /\ QueuedCanStart' /\ OneWorkerPerAttempt'
      /\ PersistedRunIsOver'
      /\ CancellingIsCancelled' /\ RunningHasLiveLease' /\ CancelledHoldsNothing'
  BY DEF IInv, FreshRuns, KnownRunsExist, JobsAreClaims, AttemptsWithinBudget,
       Lifecycle!AttemptsWithinBudget, QueuedCanStart, HasAttemptLeft,
       OneWorkerPerAttempt, PersistedRunIsOver,
       CancellingIsCancelled, RunningHasLiveLease, CancelledHoldsNothing,
       CancelledRunHoldsNoLease
<1> QED BY <1>1, <1>2, <1>3, <1>4 DEF IInv

\* A renewal leaves a held lease held.
LEMMA RenewStep ==
    ASSUME IInv, NEW w \in Workers, Renew(w)
    PROVE  IInv'
<1> USE DEF Renew
<1>1. TypeOK'
  BY DEF IInv, TypeOK
<1>2. /\ FreshRuns' /\ KnownRunsExist' /\ JobsAreClaims'
      /\ AttemptsWithinBudget' /\ QueuedCanStart' /\ OneWorkerPerAttempt'
      /\ PersistedRunIsOver'
      /\ CancellingIsCancelled' /\ RunningHasLiveLease' /\ DagRunsAreOpen'
      /\ ResultIsRecorded' /\ CancelledHoldsNothing'
  BY DEF IInv, FreshRuns, KnownRunsExist, JobsAreClaims, AttemptsWithinBudget,
       Lifecycle!AttemptsWithinBudget, QueuedCanStart, HasAttemptLeft,
       OneWorkerPerAttempt, PersistedRunIsOver,
       CancellingIsCancelled, RunningHasLiveLease, DagRunsAreOpen,
       ResultIsRecorded, CancelledHoldsNothing, CancelledRunHoldsNoLease
<1> QED BY <1>1, <1>2 DEF IInv

\* A worker starts cleaning up only after it saw the run cancelled.
LEMMA ObserveCancelStep ==
    ASSUME IInv, NEW w \in Workers, ObserveCancel(w)
    PROVE  IInv'
<1> USE DEF ObserveCancel
<1>1. TypeOK'
  BY DEF IInv, TypeOK
<1>2. /\ FreshRuns' /\ KnownRunsExist' /\ JobsAreClaims'
      /\ AttemptsWithinBudget' /\ QueuedCanStart' /\ OneWorkerPerAttempt'
      /\ PersistedRunIsOver'
      /\ CancellingIsCancelled' /\ RunningHasLiveLease' /\ DagRunsAreOpen'
      /\ ResultIsRecorded' /\ CancelledHoldsNothing'
  BY DEF IInv, FreshRuns, KnownRunsExist, JobsAreClaims, AttemptsWithinBudget,
       Lifecycle!AttemptsWithinBudget, QueuedCanStart, HasAttemptLeft,
       OneWorkerPerAttempt, PersistedRunIsOver,
       CancellingIsCancelled, RunningHasLiveLease, DagRunsAreOpen,
       ResultIsRecorded, CancelledHoldsNothing, CancelledRunHoldsNoLease
<1> QED BY <1>1, <1>2 DEF IInv

\* What the adapter answered is a result.
LEMMA AdapterRespondsStep ==
    ASSUME IInv, NEW w \in Workers, AdapterResponds(w)
    PROVE  IInv'
<1> USE DEF AdapterResponds
<1>1. TypeOK'
  BY OutcomesAssumption DEF IInv, TypeOK
<1>2. JobsAreClaims'
  BY OutcomesAssumption DEF IInv, JobsAreClaims, TypeOK
<1>3. /\ FreshRuns' /\ KnownRunsExist' /\ AttemptsWithinBudget' /\ QueuedCanStart'
      /\ OneWorkerPerAttempt' /\ PersistedRunIsOver' /\ CancellingIsCancelled'
      /\ RunningHasLiveLease' /\ DagRunsAreOpen' /\ ResultIsRecorded'
      /\ CancelledHoldsNothing'
  BY DEF IInv, FreshRuns, KnownRunsExist, AttemptsWithinBudget,
       Lifecycle!AttemptsWithinBudget, QueuedCanStart, HasAttemptLeft,
       OneWorkerPerAttempt, PersistedRunIsOver,
       CancellingIsCancelled, RunningHasLiveLease, DagRunsAreOpen,
       ResultIsRecorded, CancelledHoldsNothing, CancelledRunHoldsNoLease
<1> QED BY <1>1, <1>2, <1>3 DEF IInv

\* The recorded result is the state of the worker's own dag run.
LEMMA CompleteRecordedStep ==
    ASSUME IInv, NEW w \in Workers, CompleteRecorded(w)
    PROVE  IInv'
<1>1. /\ pc[w] = "complete"
      /\ runState[JobRun(w)] = "running"
      /\ runState' = [runState EXCEPT ![JobRun(w)] = verdict[w]]
      /\ pc' = [pc EXCEPT ![w] = "release"]
      /\ UNCHANGED <<attempt, budget, lease, job, verdict, recovery, operator, faults>>
  BY DEF CompleteRecorded, MayComplete
<1>2. PICK d \in DagVerdicts(verdict[w]) :
          dag' = [dag EXCEPT ![JobRun(w)][JobAtt(w)] = d]
  BY DEF CompleteRecorded
<1>3. /\ job[w] \in [run : Runs, att : Attempts]
      /\ JobAtt(w) <= attempt[JobRun(w)]
      /\ verdict[w] \in Results
      /\ d \in Results
  BY <1>1, DagVerdictsAreResults DEF IInv, JobsAreClaims
<1>4. TypeOK'
  BY <1>1, <1>2, <1>3 DEF IInv, TypeOK
<1>5. FreshRuns' /\ KnownRunsExist'
  BY <1>1, <1>3 DEF IInv, FreshRuns, KnownRunsExist, TypeOK
<1>6. AttemptsWithinBudget' /\ QueuedCanStart'
  BY <1>1, <1>3 DEF IInv, AttemptsWithinBudget, Lifecycle!AttemptsWithinBudget,
       QueuedCanStart, HasAttemptLeft, TypeOK
<1>7. PersistedRunIsOver'
  BY <1>1, <1>3 DEF IInv, PersistedRunIsOver, TypeOK, JobsAreClaims
<1>8. DagRunsAreOpen'
  BY <1>1, <1>2, <1>3 DEF IInv, DagRunsAreOpen, TypeOK, JobsAreClaims, OneWorkerPerAttempt
<1>9. ResultIsRecorded'
  <2> SUFFICES ASSUME NEW r \in Runs, runState'[r] \in Results \ {"system_failed"}
               PROVE  \E a \in Attempts :
                          a <= attempt'[r] /\ dag'[r][a] \in DagVerdicts(runState'[r])
    BY DEF ResultIsRecorded
  <2>1. CASE r = JobRun(w)
    <3>1. runState'[r] = verdict[w] /\ dag'[r][JobAtt(w)] = d
      BY <1>1, <1>2, <1>3, <2>1 DEF IInv, TypeOK
    <3>2. attempt' = attempt
      BY <1>1
    <3> QED BY <1>2, <1>3, <2>1, <3>1, <3>2
  <2>2. CASE r # JobRun(w)
    <3>1. runState'[r] = runState[r] /\ dag'[r] = dag[r] /\ attempt' = attempt
      BY <1>1, <1>2, <1>3, <2>2 DEF IInv, TypeOK
    <3> QED BY <3>1 DEF IInv, ResultIsRecorded
  <2> QED BY <2>1, <2>2
<1>10. /\ JobsAreClaims' /\ OneWorkerPerAttempt' /\ CancellingIsCancelled'
       /\ RunningHasLiveLease' /\ CancelledHoldsNothing'
  BY <1>1, <1>3 DEF IInv, JobsAreClaims, OneWorkerPerAttempt, CancellingIsCancelled,
       RunningHasLiveLease, CancelledHoldsNothing, CancelledRunHoldsNoLease, TypeOK
<1> QED BY <1>4, <1>5, <1>6, <1>7, <1>8, <1>9, <1>10 DEF IInv

\* A worker whose result is ignored leaves the tables alone.
LEMMA CompleteIgnoredStep ==
    ASSUME IInv, NEW w \in Workers, CompleteIgnored(w)
    PROVE  IInv'
<1> USE DEF CompleteIgnored, MayComplete
<1>1. TypeOK'
  BY DEF IInv, TypeOK
<1>2. /\ FreshRuns' /\ KnownRunsExist' /\ JobsAreClaims'
      /\ AttemptsWithinBudget' /\ QueuedCanStart' /\ OneWorkerPerAttempt'
      /\ PersistedRunIsOver'
      /\ CancellingIsCancelled' /\ RunningHasLiveLease' /\ DagRunsAreOpen'
      /\ ResultIsRecorded' /\ CancelledHoldsNothing'
  BY DEF IInv, FreshRuns, KnownRunsExist, JobsAreClaims, AttemptsWithinBudget,
       Lifecycle!AttemptsWithinBudget, QueuedCanStart, HasAttemptLeft,
       OneWorkerPerAttempt, PersistedRunIsOver,
       CancellingIsCancelled, RunningHasLiveLease, DagRunsAreOpen,
       ResultIsRecorded, CancelledHoldsNothing, CancelledRunHoldsNoLease
<1> QED BY <1>1, <1>2 DEF IInv

\* A worker releases its own lease, which is not the running attempt's.
LEMMA ReleaseStep ==
    ASSUME IInv, NEW w \in Workers, Release(w)
    PROVE  IInv'
<1> USE DEF Release, Finish, AfterRun, ReleasedLease, LeaseStateAfter
<1>1. TypeOK'
  <2>1. JobRun(w) \in Runs /\ JobAtt(w) \in Attempts
    BY DEF IInv, JobsAreClaims
  <2>2. lease' \in [Runs -> [Attempts -> LeaseStates]]
    <3>1. LeaseStateAfter(verdict[w]) \in LeaseStates
      OBVIOUS
    <3>2. lease \in [Runs -> [Attempts -> LeaseStates]]
      BY DEF IInv, TypeOK
    <3>3. lease' = [lease EXCEPT ![JobRun(w)][JobAtt(w)] =
                      IF @ \in Held THEN LeaseStateAfter(verdict[w]) ELSE @]
      OBVIOUS
    <3> HIDE DEF Release, LeaseStateAfter, LeaseStates, Attempts, Held, JobRun, JobAtt
    <3> QED BY <2>1, <3>1, <3>2, <3>3
  <2>3. pc' \in [Workers -> Steps]
    BY DEF IInv, TypeOK
  <2> QED BY <2>2, <2>3 DEF IInv, TypeOK
<1>2. JobsAreClaims'
  BY DEF IInv, JobsAreClaims, TypeOK
<1>3. PersistedRunIsOver'
  BY DEF IInv, PersistedRunIsOver, TypeOK
<1>4. RunningHasLiveLease'
  BY DEF IInv, RunningHasLiveLease, PersistedRunIsOver
<1>5. /\ FreshRuns' /\ KnownRunsExist' /\ AttemptsWithinBudget' /\ QueuedCanStart'
      /\ OneWorkerPerAttempt' /\ CancellingIsCancelled' /\ DagRunsAreOpen'
      /\ ResultIsRecorded' /\ CancelledHoldsNothing'
  BY DEF IInv, FreshRuns, KnownRunsExist, AttemptsWithinBudget,
       Lifecycle!AttemptsWithinBudget, QueuedCanStart, HasAttemptLeft,
       OneWorkerPerAttempt,
       CancellingIsCancelled, DagRunsAreOpen, ResultIsRecorded,
       CancelledHoldsNothing, CancelledRunHoldsNoLease
<1> QED BY <1>1, <1>2, <1>3, <1>4, <1>5 DEF IInv

\* A worker that dies of the rejected statement changes no table.
LEMMA CancelReleaseRejectedStep ==
    ASSUME IInv, NEW w \in Workers, CancelReleaseRejected(w)
    PROVE  IInv'
<1> USE DEF CancelReleaseRejected, Finish
<1>1. TypeOK'
  BY DEF IInv, TypeOK
<1>2. JobsAreClaims'
  BY DEF IInv, JobsAreClaims, TypeOK
<1>3. CancellingIsCancelled'
  BY DEF IInv, CancellingIsCancelled, TypeOK
<1>4. DagRunsAreOpen' /\ PersistedRunIsOver'
  BY DEF IInv, DagRunsAreOpen, PersistedRunIsOver, TypeOK, JobsAreClaims
<1>5. /\ FreshRuns' /\ KnownRunsExist' /\ AttemptsWithinBudget' /\ QueuedCanStart'
      /\ OneWorkerPerAttempt' /\ RunningHasLiveLease' /\ ResultIsRecorded'
      /\ CancelledHoldsNothing'
  BY DEF IInv, FreshRuns, KnownRunsExist, AttemptsWithinBudget,
       Lifecycle!AttemptsWithinBudget, QueuedCanStart, HasAttemptLeft,
       OneWorkerPerAttempt, RunningHasLiveLease, ResultIsRecorded,
       CancelledHoldsNothing, CancelledRunHoldsNoLease, TypeOK
<1> QED BY <1>1, <1>2, <1>3, <1>4, <1>5 DEF IInv

\* An accepted release found its lease already out of its hands.
LEMMA CancelReleaseAcceptedStep ==
    ASSUME IInv, NEW w \in Workers, CancelReleaseAccepted(w)
    PROVE  IInv'
<1> USE DEF CancelReleaseAccepted
<1>1. TypeOK'
  BY DEF IInv, TypeOK
<1>2. /\ FreshRuns' /\ KnownRunsExist' /\ JobsAreClaims'
      /\ AttemptsWithinBudget' /\ QueuedCanStart' /\ OneWorkerPerAttempt'
      /\ PersistedRunIsOver'
      /\ CancellingIsCancelled' /\ RunningHasLiveLease' /\ DagRunsAreOpen'
      /\ ResultIsRecorded' /\ CancelledHoldsNothing'
  BY DEF IInv, FreshRuns, KnownRunsExist, JobsAreClaims, AttemptsWithinBudget,
       Lifecycle!AttemptsWithinBudget, QueuedCanStart, HasAttemptLeft,
       OneWorkerPerAttempt, PersistedRunIsOver,
       CancellingIsCancelled, RunningHasLiveLease, DagRunsAreOpen,
       ResultIsRecorded, CancelledHoldsNothing, CancelledRunHoldsNoLease
<1> QED BY <1>1, <1>2 DEF IInv

\* The dag run of a cancelled run holds no recorded result.
LEMMA CancelDagRunStep ==
    ASSUME IInv, NEW w \in Workers, CancelDagRun(w)
    PROVE  IInv'
<1> USE DEF CancelDagRun, Finish, AfterRun
<1>1. TypeOK'
  <2>1. JobRun(w) \in Runs /\ JobAtt(w) \in Attempts
    BY DEF IInv, JobsAreClaims
  <2>2. dag' \in [Runs -> [Attempts -> DagStates]]
    <3>1. "cancelled" \in DagStates
      OBVIOUS
    <3>2. dag \in [Runs -> [Attempts -> DagStates]]
      BY DEF IInv, TypeOK
    <3>3. dag' = [dag EXCEPT ![JobRun(w)][JobAtt(w)] =
                    IF @ \in {"running", "awaiting_approval"} THEN "cancelled" ELSE @]
      OBVIOUS
    <3> HIDE DEF CancelDagRun, DagStates, Attempts, JobRun, JobAtt
    <3> QED BY <2>1, <3>1, <3>2, <3>3
  <2>3. pc' \in [Workers -> Steps]
    BY DEF IInv, TypeOK
  <2> QED BY <2>2, <2>3 DEF IInv, TypeOK
<1>2. JobsAreClaims'
  BY DEF IInv, JobsAreClaims, TypeOK
<1>3. CancellingIsCancelled'
  BY DEF IInv, CancellingIsCancelled, TypeOK
<1>4. DagRunsAreOpen' /\ PersistedRunIsOver'
  BY DEF IInv, DagRunsAreOpen, PersistedRunIsOver, TypeOK, JobsAreClaims,
       OneWorkerPerAttempt
<1>5. ResultIsRecorded'
  <2> SUFFICES ASSUME NEW r \in Runs, runState'[r] \in Results \ {"system_failed"}
               PROVE  \E a \in Attempts :
                          a <= attempt'[r] /\ dag'[r][a] \in DagVerdicts(runState'[r])
    BY DEF ResultIsRecorded
  <2>1. PICK a \in Attempts : a <= attempt[r] /\ dag[r][a] \in DagVerdicts(runState[r])
    BY DEF IInv, ResultIsRecorded
  <2>2. ~(r = JobRun(w) /\ a = JobAtt(w))
    BY <2>1, DagVerdictsAreResults DEF IInv, DagRunsAreOpen
  <2>3. dag'[r][a] = dag[r][a]
    BY <2>2 DEF IInv, TypeOK, JobsAreClaims
  <2> QED BY <2>1, <2>3
<1>6. /\ FreshRuns' /\ KnownRunsExist' /\ AttemptsWithinBudget' /\ QueuedCanStart'
      /\ OneWorkerPerAttempt' /\ RunningHasLiveLease' /\ CancelledHoldsNothing'
  BY DEF IInv, FreshRuns, KnownRunsExist, AttemptsWithinBudget,
       Lifecycle!AttemptsWithinBudget, QueuedCanStart, HasAttemptLeft,
       OneWorkerPerAttempt, RunningHasLiveLease, CancelledHoldsNothing,
       CancelledRunHoldsNoLease, TypeOK
<1> QED BY <1>1, <1>2, <1>3, <1>4, <1>5, <1>6 DEF IInv

\* A worker that dies forgets its job and nothing else.
LEMMA StopStep ==
    ASSUME IInv, NEW w \in Workers, Stop(w)
    PROVE  IInv'
<1> USE DEF Stop, Finish
<1>1. TypeOK'
  BY FaultBoundAssumption DEF IInv, TypeOK
<1>2. JobsAreClaims'
  BY DEF IInv, JobsAreClaims, TypeOK
<1>3. PersistedRunIsOver'
  BY DEF IInv, PersistedRunIsOver, TypeOK
<1>4. CancellingIsCancelled'
  BY DEF IInv, CancellingIsCancelled, TypeOK
<1>5. DagRunsAreOpen'
  BY DEF IInv, DagRunsAreOpen, TypeOK
<1>6. CancelledHoldsNothing'
  BY DEF IInv, CancelledHoldsNothing, CancelledRunHoldsNoLease, TypeOK
<1>7. /\ FreshRuns' /\ KnownRunsExist' /\ AttemptsWithinBudget' /\ QueuedCanStart'
      /\ OneWorkerPerAttempt' /\ RunningHasLiveLease' /\ ResultIsRecorded'
  BY DEF IInv, FreshRuns, KnownRunsExist, AttemptsWithinBudget,
       Lifecycle!AttemptsWithinBudget, QueuedCanStart, HasAttemptLeft,
       OneWorkerPerAttempt, RunningHasLiveLease,
       ResultIsRecorded
<1> QED BY <1>1, <1>2, <1>3, <1>4, <1>5, <1>6, <1>7 DEF IInv

\* A lease that is overdue is still held.
LEMMA LeaseTimesOutStep ==
    ASSUME IInv, NEW r \in Runs, NEW a \in Attempts, LeaseTimesOut(r, a)
    PROVE  IInv'
<1> USE DEF LeaseTimesOut
<1>1. TypeOK'
  BY DEF IInv, TypeOK
<1>2. /\ FreshRuns' /\ KnownRunsExist' /\ JobsAreClaims'
      /\ AttemptsWithinBudget' /\ QueuedCanStart' /\ OneWorkerPerAttempt'
      /\ PersistedRunIsOver'
      /\ CancellingIsCancelled' /\ RunningHasLiveLease' /\ DagRunsAreOpen'
      /\ ResultIsRecorded' /\ CancelledHoldsNothing'
  BY DEF IInv, FreshRuns, KnownRunsExist, JobsAreClaims, AttemptsWithinBudget,
       Lifecycle!AttemptsWithinBudget, QueuedCanStart, HasAttemptLeft,
       OneWorkerPerAttempt, PersistedRunIsOver,
       CancellingIsCancelled, RunningHasLiveLease, DagRunsAreOpen,
       ResultIsRecorded, CancelledHoldsNothing, CancelledRunHoldsNoLease
<1> QED BY <1>1, <1>2 DEF IInv

\* An approval leaves the queued run an attempt it can start.
LEMMA ApproveStep ==
    ASSUME IInv, NEW r \in Runs, Approve(r)
    PROVE  IInv'
<1> USE DEF Approve, ApprovedBudget
<1>1. TypeOK'
  BY BoundsAssumption DEF IInv, TypeOK
<1>2. AttemptsWithinBudget' /\ QueuedCanStart'
  BY BoundsAssumption DEF IInv, AttemptsWithinBudget,
       Lifecycle!AttemptsWithinBudget, QueuedCanStart, HasAttemptLeft, TypeOK
<1>3. PersistedRunIsOver'
  BY DEF IInv, PersistedRunIsOver, JobsAreClaims
<1>4. ResultIsRecorded'
  BY <1>1, RecordedResultsKept DEF IInv, TypeOK
<1>5. /\ FreshRuns' /\ KnownRunsExist' /\ JobsAreClaims'
      /\ OneWorkerPerAttempt' /\ CancellingIsCancelled' /\ RunningHasLiveLease'
      /\ DagRunsAreOpen' /\ CancelledHoldsNothing'
  BY DEF IInv, FreshRuns, KnownRunsExist, JobsAreClaims, OneWorkerPerAttempt,
       CancellingIsCancelled, RunningHasLiveLease, DagRunsAreOpen,
       CancelledHoldsNothing, CancelledRunHoldsNoLease
<1> QED BY <1>1, <1>2, <1>3, <1>4, <1>5 DEF IInv

\* A cancelled run is neither running nor a recorded result.
LEMMA CancelStep ==
    ASSUME IInv, NEW r \in Runs, Cancel(r)
    PROVE  IInv'
<1> USE DEF Cancel
<1>1. TypeOK'
  BY DEF IInv, TypeOK
<1>2. PersistedRunIsOver'
  BY DEF IInv, PersistedRunIsOver, JobsAreClaims
<1>3. CancellingIsCancelled'
  BY DEF IInv, CancellingIsCancelled, TypeOK
<1>4. ResultIsRecorded'
  BY <1>1, RecordedResultsKept DEF IInv, TypeOK
<1>5. /\ FreshRuns' /\ KnownRunsExist' /\ JobsAreClaims'
      /\ AttemptsWithinBudget' /\ QueuedCanStart' /\ OneWorkerPerAttempt'
      /\ RunningHasLiveLease'
      /\ DagRunsAreOpen' /\ CancelledHoldsNothing'
  BY DEF IInv, FreshRuns, KnownRunsExist, JobsAreClaims, AttemptsWithinBudget,
       Lifecycle!AttemptsWithinBudget, QueuedCanStart, HasAttemptLeft,
       OneWorkerPerAttempt, RunningHasLiveLease,
       DagRunsAreOpen, CancelledHoldsNothing, CancelledRunHoldsNoLease
<1> QED BY <1>1, <1>2, <1>3, <1>4, <1>5 DEF IInv

\* The leases that fail belong to a cancelled run.
LEMMA CancelLeasesStep ==
    ASSUME IInv, NEW r \in Runs, CancelLeases(r)
    PROVE  IInv'
<1> USE DEF CancelLeases
<1>1. TypeOK'
  BY DEF IInv, TypeOK
<1>2. RunningHasLiveLease'
  BY DEF IInv, RunningHasLiveLease, CancellingIsCancelled
<1>3. CancelledHoldsNothing'
  BY DEF IInv, CancelledHoldsNothing, CancelledRunHoldsNoLease, TypeOK
<1>4. /\ FreshRuns' /\ KnownRunsExist' /\ JobsAreClaims'
      /\ AttemptsWithinBudget' /\ QueuedCanStart' /\ OneWorkerPerAttempt'
      /\ PersistedRunIsOver'
      /\ CancellingIsCancelled' /\ DagRunsAreOpen' /\ ResultIsRecorded'
  BY DEF IInv, FreshRuns, KnownRunsExist, JobsAreClaims, AttemptsWithinBudget,
       Lifecycle!AttemptsWithinBudget, QueuedCanStart, HasAttemptLeft,
       OneWorkerPerAttempt, PersistedRunIsOver,
       CancellingIsCancelled, DagRunsAreOpen, ResultIsRecorded
<1> QED BY <1>1, <1>2, <1>3, <1>4 DEF IInv

\* An interrupted cancellation counts as a fault.
LEMMA CancelInterruptedStep ==
    ASSUME IInv, NEW r \in Runs, CancelInterrupted(r)
    PROVE  IInv'
<1> USE DEF CancelInterrupted
<1>1. TypeOK'
  BY FaultBoundAssumption DEF IInv, TypeOK
<1>2. CancelledHoldsNothing'
  BY DEF IInv, CancelledHoldsNothing, CancelledRunHoldsNoLease, TypeOK
<1>3. /\ FreshRuns' /\ KnownRunsExist' /\ JobsAreClaims'
      /\ AttemptsWithinBudget' /\ QueuedCanStart' /\ OneWorkerPerAttempt'
      /\ PersistedRunIsOver'
      /\ CancellingIsCancelled' /\ RunningHasLiveLease' /\ DagRunsAreOpen'
      /\ ResultIsRecorded'
  BY DEF IInv, FreshRuns, KnownRunsExist, JobsAreClaims, AttemptsWithinBudget,
       Lifecycle!AttemptsWithinBudget, QueuedCanStart, HasAttemptLeft,
       OneWorkerPerAttempt, PersistedRunIsOver,
       CancellingIsCancelled, RunningHasLiveLease, DagRunsAreOpen,
       ResultIsRecorded
<1> QED BY <1>1, <1>2, <1>3 DEF IInv

\* Listed runs are queued when they are listed.
LEMMA ListQueuedStep ==
    ASSUME IInv, ListQueued
    PROVE  IInv'
<1> USE DEF ListQueued
<1>1. TypeOK'
  BY DEF IInv, TypeOK
<1>2. /\ FreshRuns' /\ KnownRunsExist' /\ JobsAreClaims'
      /\ AttemptsWithinBudget' /\ QueuedCanStart' /\ OneWorkerPerAttempt'
      /\ PersistedRunIsOver'
      /\ CancellingIsCancelled' /\ RunningHasLiveLease' /\ DagRunsAreOpen'
      /\ ResultIsRecorded' /\ CancelledHoldsNothing'
  BY DEF IInv, FreshRuns, KnownRunsExist, JobsAreClaims, AttemptsWithinBudget,
       Lifecycle!AttemptsWithinBudget, QueuedCanStart, HasAttemptLeft,
       OneWorkerPerAttempt, PersistedRunIsOver,
       CancellingIsCancelled, RunningHasLiveLease, DagRunsAreOpen,
       ResultIsRecorded, CancelledHoldsNothing, CancelledRunHoldsNoLease
<1> QED BY <1>1, <1>2 DEF IInv

\* A batch cancellation gives no run a result.
LEMMA CancelListedStep ==
    ASSUME IInv, CancelListed
    PROVE  IInv'
<1> USE DEF CancelListed
<1>1. TypeOK'
  BY DEF IInv, TypeOK
<1>2. PersistedRunIsOver'
  BY DEF IInv, PersistedRunIsOver, JobsAreClaims
<1>3. CancellingIsCancelled'
  BY DEF IInv, CancellingIsCancelled, TypeOK, JobsAreClaims
<1>4. ResultIsRecorded'
  BY <1>1, RecordedResultsKept DEF IInv, TypeOK
<1>5. FreshRuns' /\ QueuedCanStart'
  BY DEF IInv, TypeOK, FreshRuns, KnownRunsExist, QueuedCanStart, HasAttemptLeft
<1>6. KnownRunsExist'
  BY DEF IInv, TypeOK, KnownRunsExist
<1>7. /\ JobsAreClaims' /\ AttemptsWithinBudget' /\ OneWorkerPerAttempt'
      /\ RunningHasLiveLease' /\ DagRunsAreOpen' /\ CancelledHoldsNothing'
  BY DEF IInv, TypeOK, JobsAreClaims, AttemptsWithinBudget,
       Lifecycle!AttemptsWithinBudget, OneWorkerPerAttempt, RunningHasLiveLease,
       DagRunsAreOpen, CancelledHoldsNothing, CancelledRunHoldsNoLease
<1> QED BY <1>1, <1>2, <1>3, <1>4, <1>5, <1>6, <1>7 DEF IInv

-----------------------------------------------------------------------------

\* IInv holds before anything was submitted.
LEMMA InitEstablishesIInv == Init => IInv
<1> SUFFICES ASSUME Init PROVE IInv
  OBVIOUS
<1> USE DEF Init
<1>1. TypeOK
  BY BoundsAssumption, FaultBoundAssumption DEF TypeOK
<1>2. FreshRuns /\ KnownRunsExist /\ JobsAreClaims /\ OneWorkerPerAttempt
      /\ PersistedRunIsOver
  BY DEF FreshRuns, KnownRunsExist, JobsAreClaims, OneWorkerPerAttempt,
         PersistedRunIsOver
<1>3. /\ AttemptsWithinBudget /\ QueuedCanStart /\ RunningHasLiveLease
      /\ CancellingIsCancelled
  BY DEF AttemptsWithinBudget, Lifecycle!AttemptsWithinBudget, QueuedCanStart,
         RunningHasLiveLease, CancellingIsCancelled
<1>4. DagRunsAreOpen /\ ResultIsRecorded /\ CancelledHoldsNothing
  BY DEF DagRunsAreOpen, ResultIsRecorded, CancelledHoldsNothing,
         CancelledRunHoldsNoLease
<1> QED BY <1>1, <1>2, <1>3, <1>4 DEF IInv

\* IInv reads no variable outside vars.
LEMMA StutterKeepsIInv == ASSUME IInv, UNCHANGED vars PROVE IInv'
BY DEF vars, IInv, TypeOK, FreshRuns, KnownRunsExist, JobsAreClaims,
     AttemptsWithinBudget,
       Lifecycle!AttemptsWithinBudget, QueuedCanStart, HasAttemptLeft,
       OneWorkerPerAttempt, PersistedRunIsOver,
       CancellingIsCancelled, RunningHasLiveLease, DagRunsAreOpen,
       ResultIsRecorded, CancelledHoldsNothing, CancelledRunHoldsNoLease

\* Every step of a worker keeps IInv.
LEMMA WorkerStepKeepsIInv ==
    ASSUME IInv, NEW w \in Workers, WorkerStep(w) PROVE IInv'
<1>1. CASE ClaimNext(w)
  <2>1. PICK r \in Runs : pc[w] = "claim" /\ Claimable(r) /\ Claim(w, r)
    BY <1>1 DEF ClaimNext
  <2> QED BY <2>1, ClaimStep
<1>2. CASE ClaimRun(w)
  <2>1. PICK r \in Runs : pc[w] = "claim" /\ Claimable(r) /\ Claim(w, r)
    BY <1>2 DEF ClaimRun
  <2> QED BY <2>1, ClaimStep
<1>3. CASE \/ SeeRetryable(w) \/ RecoverRequeue(w) \/ SeeSpent(w) \/ RecoverFail(w)
             \/ ClaimNothing(w) \/ Reserve(w)
  BY <1>3, SnapshotStep, ExpireStep, ClaimNothingStep, ReserveStep
<1>4. CASE ObserveCancel(w) \/ AdapterResponds(w) \/ CompleteRecorded(w)
             \/ CompleteIgnored(w) \/ Release(w)
  BY <1>4, ObserveCancelStep, AdapterRespondsStep, CompleteRecordedStep,
     CompleteIgnoredStep, ReleaseStep
<1>5. CASE CancelReleaseRejected(w) \/ CancelReleaseAccepted(w) \/ CancelDagRun(w)
  BY <1>5, CancelReleaseRejectedStep, CancelReleaseAcceptedStep,
       CancelDagRunStep
<1> QED BY <1>1, <1>2, <1>3, <1>4, <1>5 DEF WorkerStep

\* Every statement of an operator's command keeps IInv.
LEMMA OperatorStepKeepsIInv == ASSUME IInv, OperatorStep PROVE IInv'
<1>1. ASSUME NEW r \in Runs,
             Approve(r) \/ Cancel(r) \/ CancelLeases(r) \/ CancelInterrupted(r)
      PROVE  IInv'
  BY <1>1, ApproveStep, CancelStep, CancelLeasesStep, CancelInterruptedStep
<1>2. CASE ListQueued \/ CancelListed
  BY <1>2, ListQueuedStep, CancelListedStep
<1> QED BY <1>1, <1>2 DEF OperatorStep

\* IInv is inductive.
LEMMA NextKeepsIInv == IInv /\ [Next]_vars => IInv'
<1> SUFFICES ASSUME IInv, [Next]_vars PROVE IInv'
  OBVIOUS
<1>1. ASSUME NEW r \in Runs, Enqueue(r) PROVE IInv'
  BY <1>1, EnqueueStep
<1>2. ASSUME NEW w \in Workers, WorkerStep(w) \/ Renew(w) \/ Stop(w) PROVE IInv'
  BY <1>2, WorkerStepKeepsIInv, RenewStep, StopStep
<1>3. ASSUME NEW r \in Runs, NEW a \in Attempts, LeaseTimesOut(r, a) PROVE IInv'
  BY <1>3, LeaseTimesOutStep
<1>4. CASE OperatorStep
  BY <1>4, OperatorStepKeepsIInv
<1>5. CASE UNCHANGED vars
  BY <1>5, StutterKeepsIInv
<1> QED BY <1>1, <1>2, <1>3, <1>4, <1>5 DEF Next

\* IInv holds in every reachable state, whatever the constants.
THEOREM Inductive == Spec => []IInv
<1>1. Init => IInv
  BY InitEstablishesIInv
<1>2. IInv /\ [Next]_vars => IInv'
  BY NextKeepsIInv
<1> QED BY <1>1, <1>2, PTL DEF Spec

-----------------------------------------------------------------------------

\* Every variable keeps its type: claims never leave the attempt numbers the
\* budget allows, and workers name real runs.
THEOREM TypeCorrect == Spec => []TypeOK
<1>1. IInv => TypeOK
  BY DEF IInv
<1> QED BY <1>1, Inductive, PTL

\* A run marked running can be recovered: its current attempt's lease is held,
\* so recover_expired_leases will find it once it is overdue -- unless an
\* earlier recovery put the run back on a stale snapshot.
THEOREM RunningIsRecoverable == Spec => []RunningHasLiveLease
<1>1. IInv => RunningHasLiveLease
  BY DEF IInv
<1> QED BY <1>1, Inductive, PTL

\* claim_next and claim_run never hand one attempt to two workers.
THEOREM AttemptsAreExclusive == Spec => []OneWorkerPerAttempt
<1>1. IInv => OneWorkerPerAttempt
  BY DEF IInv
<1> QED BY <1>1, Inductive, PTL

\* No sequence of claims, recoveries, stale ones included, and approvals starts
\* more attempts than the budget.
THEOREM BudgetIsRespected == Spec => []AttemptsWithinBudget
<1>1. IInv => AttemptsWithinBudget
  BY DEF IInv
<1> QED BY <1>1, Inductive, PTL

\* What complete_success and complete_failure record in app_runs is found in
\* the dag run of an attempt, whatever later workers do to other attempts.
THEOREM ResultsAreRecorded == Spec => []ResultIsRecorded
<1>1. IInv => ResultIsRecorded
  BY DEF IInv
<1> QED BY <1>1, Inductive, PTL

\* Where `cancel-queued` is not used, an undisturbed app_cancel leaves the run
\* without a held lease, and no claim or renewal brings one back.
THEOREM CancelReleasesLeases ==
    "cancel-queued" \notin CancelCommands => (Spec => []CancelledRunHoldsNoLease)
<1> SUFFICES ASSUME "cancel-queued" \notin CancelCommands
             PROVE  Spec => []CancelledRunHoldsNoLease
  OBVIOUS
<1>1. IInv => CancelledRunHoldsNoLease
  BY DEF IInv, CancelledHoldsNothing
<1> QED BY <1>1, Inductive, PTL

-----------------------------------------------------------------------------
(* The scheduler implements the lifecycle of a run.                        *)

USE DEF Lifecycle!lifecycleVars, Lifecycle!suspects, Lifecycle!Move

\* The runs under suspicion stay the same when nobody's snapshot changes and
\* nobody comes to, or from, the write of a recovery.
LEMMA SuspectsKept ==
    ASSUME UNCHANGED seen,
           \A w \in Workers : \A step \in {"requeue", "fail"} :
               pc'[w] = step <=> pc[w] = step
    PROVE  UNCHANGED <<SeenAt("requeue"), SeenAt("fail")>>
BY DEF SeenAt

\* A snapshot adds runs that are running, each to its own set of suspects.
LEMMA SnapshotMapsToLifecycle ==
    ASSUME IInv, NEW w \in Workers, SeeRetryable(w) \/ SeeSpent(w)
    PROVE  Lifecycle!Suspect
<1> USE DEF IInv, TypeOK, Snapshot, Overdue
<1>1. CASE SeeRetryable(w)
  <2>1. SeenAt("requeue")' \subseteq SeenAt("requeue") \cup Retryable
    BY <1>1 DEF SeeRetryable, SeenAt
  <2>2. SeenAt("fail")' \subseteq SeenAt("fail")
    BY <1>1 DEF SeeRetryable, SeenAt
  <2>3. Retryable = {r \in Runs : runState[r] = "running" /\ attempt[r] < budget[r]}
    BY DEF Retryable, HasAttemptLeft
  <2>4. UNCHANGED <<runState, attempt, budget>>
    BY <1>1 DEF SeeRetryable
  <2> QED BY <2>1, <2>2, <2>3, <2>4 DEF Lifecycle!Suspect
<1>2. CASE SeeSpent(w)
  <2>1. SeenAt("fail")' \subseteq SeenAt("fail") \cup Spent
    BY <1>2 DEF SeeSpent, SeenAt
  <2>2. SeenAt("requeue")' \subseteq SeenAt("requeue")
    BY <1>2 DEF SeeSpent, SeenAt
  <2>3. Spent = {r \in Runs : runState[r] = "running" /\ attempt[r] >= budget[r]}
    <3>1. \A r \in Runs : attempt[r] \in Nat /\ budget[r] \in Nat
      OBVIOUS
    <3> QED BY <3>1 DEF Spent, HasAttemptLeft
  <2>4. UNCHANGED <<runState, attempt, budget>>
    BY <1>2 DEF SeeSpent
  <2> QED BY <2>1, <2>2, <2>3, <2>4 DEF Lifecycle!Suspect
<1> QED BY <1>1, <1>2

\* What a recovery moves it has seen before.
LEMMA ExpireMapsToLifecycle ==
    ASSUME IInv, NEW w \in Workers, RecoverRequeue(w) \/ RecoverFail(w)
    PROVE  Lifecycle!LifecycleNext
<1> DEFINE M == {p[1] : p \in StillOverdue(w)}
<1> USE DEF IInv, TypeOK, Expire
<1>1. CASE RecoverRequeue(w)
  <2>1. M \subseteq SeenAt("requeue") /\ M \subseteq Runs
    BY <1>1 DEF RecoverRequeue, SeenAt, StillOverdue
  <2>2. SeenAt("requeue")' \subseteq SeenAt("requeue")
    BY <1>1 DEF RecoverRequeue, SeenAt
  <2>3. SeenAt("fail")' = SeenAt("fail")
    BY <1>1 DEF RecoverRequeue, SeenAt
  <2>4. /\ runState' = [r \in Runs |-> IF r \in M THEN "queued" ELSE runState[r]]
        /\ UNCHANGED <<attempt, budget>>
    BY <1>1 DEF RecoverRequeue
  <2>5. Lifecycle!Requeue(M)
    BY <2>1, <2>2, <2>3, <2>4 DEF Lifecycle!Requeue
  <2> QED BY <2>1, <2>5 DEF Lifecycle!LifecycleNext
<1>2. CASE RecoverFail(w)
  <2>1. M \subseteq SeenAt("fail") /\ M \subseteq Runs
    BY <1>2 DEF RecoverFail, SeenAt, StillOverdue
  <2>2. SeenAt("fail")' \subseteq SeenAt("fail")
    BY <1>2 DEF RecoverFail, SeenAt
  <2>3. SeenAt("requeue")' = SeenAt("requeue")
    BY <1>2 DEF RecoverFail, SeenAt
  <2>4. /\ runState' = [r \in Runs |-> IF r \in M THEN "system_failed" ELSE runState[r]]
        /\ UNCHANGED <<attempt, budget>>
    BY <1>2 DEF RecoverFail
  <2>5. Lifecycle!GiveUp(M)
    BY <2>1, <2>2, <2>3, <2>4 DEF Lifecycle!GiveUp
  <2> QED BY <2>1, <2>5 DEF Lifecycle!LifecycleNext
<1> QED BY <1>1, <1>2

\* Any other step of a worker is a start, a result, or does not show.
LEMMA ExecutionMapsToLifecycle ==
    ASSUME IInv, NEW w \in Workers, WorkerStep(w),
           ~(SeeRetryable(w) \/ RecoverRequeue(w) \/ SeeSpent(w) \/ RecoverFail(w))
    PROVE  Lifecycle!LifecycleNext \/ UNCHANGED Lifecycle!lifecycleVars
<1>1. UNCHANGED <<SeenAt("requeue"), SeenAt("fail")>>
  <2>1. /\ UNCHANGED seen
        /\ pc[w] \notin {"requeue", "fail"} /\ pc'[w] \notin {"requeue", "fail"}
        /\ \A v \in Workers \ {w} : pc'[v] = pc[v]
    BY DEF WorkerStep, ClaimNext, ClaimRun, Claim, ClaimNothing, Reserve,
           ObserveCancel, AdapterResponds, CompleteRecorded, CompleteIgnored,
           Release, CancelReleaseRejected, CancelReleaseAccepted, CancelDagRun,
           Finish, AfterRun, IInv, TypeOK
  <2>2. \A v \in Workers : \A step \in {"requeue", "fail"} :
           pc'[v] = step <=> pc[v] = step
    BY <2>1
  <2> QED BY <2>1, <2>2, SuspectsKept
<1>2. CASE ClaimNext(w) \/ ClaimRun(w)
  <2>1. PICK r \in Runs : Claimable(r) /\ Claim(w, r)
    BY <1>2 DEF ClaimNext, ClaimRun
  <2>2. Lifecycle!Start(r)
    BY <1>1, <2>1 DEF IInv, TypeOK, Claimable, HasAttemptLeft, Claim, NextAttempt,
                      Lifecycle!Start
  <2> QED BY <2>2 DEF Lifecycle!LifecycleNext
<1>3. CASE CompleteRecorded(w)
  <2>1. JobRun(w) \in Runs /\ verdict[w] \in Lifecycle!Results
    BY <1>3 DEF IInv, JobsAreClaims, CompleteRecorded, Lifecycle!Results
  <2>2. Lifecycle!Settle(JobRun(w), verdict[w])
    BY <1>1, <1>3, <2>1 DEF IInv, TypeOK, CompleteRecorded, MayComplete,
         Lifecycle!Settle
  <2> QED BY <2>1, <2>2 DEF Lifecycle!LifecycleNext
<1>4. CASE ClaimNothing(w) \/ Reserve(w) \/ ObserveCancel(w) \/ AdapterResponds(w)
             \/ CompleteIgnored(w) \/ Release(w) \/ CancelReleaseRejected(w)
             \/ CancelReleaseAccepted(w) \/ CancelDagRun(w)
  BY <1>1, <1>4 DEF ClaimNothing, Reserve, ObserveCancel, AdapterResponds,
              CompleteIgnored, Release, CancelReleaseRejected,
              CancelReleaseAccepted, CancelDagRun
<1> QED BY <1>2, <1>3, <1>4 DEF WorkerStep

\* A worker's step is a lifecycle step of app_runs, or does not show there.
LEMMA WorkerStepMapsToLifecycle ==
    ASSUME IInv, NEW w \in Workers, WorkerStep(w)
    PROVE  Lifecycle!LifecycleNext \/ UNCHANGED Lifecycle!lifecycleVars
<1>1. CASE SeeRetryable(w) \/ SeeSpent(w)
  BY <1>1, SnapshotMapsToLifecycle DEF Lifecycle!LifecycleNext
<1>2. CASE RecoverRequeue(w) \/ RecoverFail(w)
  BY <1>2, ExpireMapsToLifecycle
<1> QED BY <1>1, <1>2, ExecutionMapsToLifecycle

\* A renewed or a dead worker's leases leave the suspects at most smaller.
LEMMA RenewAndStopMapToLifecycle ==
    ASSUME IInv, NEW w \in Workers, Renew(w) \/ Stop(w)
    PROVE  Lifecycle!Suspect
<1>1. /\ UNCHANGED <<runState, attempt, budget>>
      /\ \A v \in Workers : seen'[v] \subseteq seen[v]
      /\ \A v \in Workers : \A step \in {"requeue", "fail"} :
            pc'[v] = step => pc[v] = step
  <2>1. CASE Renew(w)
    BY <2>1 DEF Renew, IInv, TypeOK
  <2>2. CASE Stop(w)
    BY <2>2 DEF Stop, Finish, IInv, TypeOK
  <2> QED BY <2>1, <2>2
<1>2. SeenAt("requeue")' \subseteq SeenAt("requeue")
      /\ SeenAt("fail")' \subseteq SeenAt("fail")
  BY <1>1 DEF SeenAt
<1> QED BY <1>1, <1>2 DEF Lifecycle!Suspect

\* So is every step of an operator.
LEMMA OperatorStepMapsToLifecycle ==
    ASSUME IInv, OperatorStep
    PROVE  Lifecycle!LifecycleNext \/ UNCHANGED Lifecycle!lifecycleVars
<1>1. UNCHANGED <<SeenAt("requeue"), SeenAt("fail")>>
  <2>1. UNCHANGED <<seen, pc>>
    BY DEF OperatorStep, Approve, Cancel, CancelLeases, CancelInterrupted,
           ListQueued, CancelListed
  <2> QED BY <2>1, SuspectsKept
<1>2. ASSUME NEW r \in Runs, Approve(r) PROVE Lifecycle!LifecycleNext
  <2>1. Lifecycle!Resume(r)
    BY <1>1, <1>2 DEF IInv, TypeOK, Approve, ApprovedBudget, Lifecycle!Resume
  <2> QED BY <2>1 DEF Lifecycle!LifecycleNext
<1>3. ASSUME NEW r \in Runs, Cancel(r) PROVE Lifecycle!LifecycleNext
  <2>1. Lifecycle!Withdraw({r})
    BY <1>1, <1>3 DEF IInv, TypeOK, Cancel, Lifecycle!Withdraw
  <2> QED BY <2>1 DEF Lifecycle!LifecycleNext
<1>4. CASE CancelListed
  <2>1. Lifecycle!Withdraw(listed)
    BY <1>1, <1>4 DEF IInv, TypeOK, KnownRunsExist, CancelListed, Lifecycle!Withdraw
  <2> QED BY <2>1 DEF IInv, TypeOK, Lifecycle!LifecycleNext
<1>5. ASSUME NEW r \in Runs, CancelLeases(r) \/ CancelInterrupted(r)
      PROVE  UNCHANGED <<runState, attempt, budget>>
  BY <1>5 DEF CancelLeases, CancelInterrupted
<1>6. CASE ListQueued
  BY <1>1, <1>6 DEF ListQueued
<1> QED BY <1>1, <1>2, <1>3, <1>4, <1>5, <1>6 DEF OperatorStep

\* Every step of the scheduler maps to a lifecycle step or a stutter.
LEMMA NextMapsToLifecycle ==
    IInv /\ [Next]_vars => [Lifecycle!LifecycleNext]_(Lifecycle!lifecycleVars)
<1> SUFFICES ASSUME IInv, [Next]_vars
             PROVE  Lifecycle!LifecycleNext \/ UNCHANGED Lifecycle!lifecycleVars
  OBVIOUS
<1>1. ASSUME NEW r \in Runs, Enqueue(r) PROVE Lifecycle!LifecycleNext
  <2>1. UNCHANGED <<SeenAt("requeue"), SeenAt("fail")>>
    BY <1>1, SuspectsKept DEF Enqueue
  <2>2. Lifecycle!Submit(r)
    BY <1>1, <2>1 DEF IInv, TypeOK, Enqueue, Lifecycle!Submit
  <2> QED BY <2>2 DEF Lifecycle!LifecycleNext
<1>2. ASSUME NEW w \in Workers, Renew(w) \/ Stop(w)
      PROVE  Lifecycle!LifecycleNext
  BY <1>2, RenewAndStopMapToLifecycle DEF Lifecycle!LifecycleNext
<1>3. ASSUME NEW r \in Runs, NEW a \in Attempts, LeaseTimesOut(r, a)
      PROVE  UNCHANGED Lifecycle!lifecycleVars
  BY <1>3, SuspectsKept DEF LeaseTimesOut
<1>4. CASE UNCHANGED vars
  BY <1>4, SuspectsKept DEF vars
<1> QED BY <1>1, <1>2, <1>3, <1>4, WorkerStepMapsToLifecycle,
           OperatorStepMapsToLifecycle DEF Next

\* Seen through app_runs and what recoveries under way have seen of it, the
\* scheduler, its operators, its crashes, its zombies and its stale recoveries
\* only ever take the steps AppRunLifecycle allows.
THEOREM ImplementsLifecycle == Spec => RefinesLifecycle
<1>1. Init => Lifecycle!LifecycleInit
  BY DEF Init, SeenAt, Lifecycle!LifecycleInit
<1>2. IInv /\ [Next]_vars => [Lifecycle!LifecycleNext]_(Lifecycle!lifecycleVars)
  BY NextMapsToLifecycle
<1> QED BY <1>1, <1>2, Inductive, PTL DEF Spec, RefinesLifecycle,
     Lifecycle!LifecycleSpec

-----------------------------------------------------------------------------
(* How the state of a run changes.                                         *)

HeldLeases(r) == {a \in Attempts : lease[r][a] \in Held}

\* How far an attempt of a run has come.  A run is queued again after it ran,
\* or after it waited for an approval.
RunRank(s) ==
    CASE s = "absent" -> 0
      [] s = "running" -> 1
      [] s = "awaiting_approval" -> 2
      [] s = "queued" -> 3
      [] s \in {"done", "partial", "failed", "system_failed"} -> 4
      [] s = "cancelled" -> 5

\* A run moves on: to a later attempt; or by a recovery that takes a held lease
\* with it; or, with no lease more than before, to a later rank.
Loses(r) == HeldLeases(r)' \subseteq HeldLeases(r) /\ HeldLeases(r)' # HeldLeases(r)

RunAdvances(r) ==
    \/ attempt[r] < attempt'[r]
    \/ attempt'[r] = attempt[r] /\ Loses(r)
    \/ /\ attempt'[r] = attempt[r]
       /\ HeldLeases(r)' = HeldLeases(r)
       /\ RunRank(runState[r]) < RunRank(runState'[r])

RunStands(r) == attempt'[r] = attempt[r] /\ runState'[r] = runState[r]

RunsAdvance == [][\A r \in Runs : RunStands(r) \/ RunAdvances(r)]_vars

\* A recovery that moves a run takes a held lease from it.
LEMMA ExpireTakesLease ==
    ASSUME IInv, NEW w \in Workers, RecoverRequeue(w) \/ RecoverFail(w), NEW r \in Runs
    PROVE  /\ attempt'[r] = attempt[r]
           /\ runState'[r] = runState[r] \/ Loses(r)
<1>1. /\ lease' = [q \in Runs |-> [a \in Attempts |->
                      IF <<q, a>> \in StillOverdue(w) THEN "expired" ELSE lease[q][a]]]
      /\ r \notin {p[1] : p \in StillOverdue(w)} => runState'[r] = runState[r]
      /\ UNCHANGED attempt
  BY DEF RecoverRequeue, RecoverFail, Expire
<1>2. HeldLeases(r)' \subseteq HeldLeases(r)
  BY <1>1 DEF HeldLeases
<1>3. ASSUME r \in {p[1] : p \in StillOverdue(w)} PROVE HeldLeases(r)' # HeldLeases(r)
  <2>1. PICK p \in StillOverdue(w) : r = p[1]
    BY <1>3
  <2>2. /\ p \in Runs \X Attempts /\ lease[p[1]][p[2]] = "overdue"
    BY <2>1 DEF StillOverdue, IInv, TypeOK
  <2>3. <<r, p[2]>> = p /\ p[2] \in Attempts
    BY <2>1, <2>2
  <2>4. p[2] \in HeldLeases(r)
    BY <2>1, <2>2, <2>3 DEF HeldLeases
  <2>5. lease'[r][p[2]] = "expired"
    BY <1>1, <2>1, <2>3
  <2>6. p[2] \notin HeldLeases(r)'
    BY <2>5 DEF HeldLeases
  <2> QED BY <2>4, <2>6
<1> QED BY <1>1, <1>2, <1>3 DEF Loses

\* Every step leaves a run where it is or takes it on.
LEMMA StepAdvancesRun ==
    ASSUME IInv, [Next]_vars, NEW r \in Runs
    PROVE  RunStands(r) \/ RunAdvances(r)
<1> USE DEF RunStands, RunAdvances, RunRank, IInv, TypeOK
<1>1. ASSUME NEW q \in Runs, Enqueue(q) PROVE RunStands(r) \/ RunAdvances(r)
  BY <1>1 DEF Enqueue, HeldLeases
<1>2. ASSUME NEW w \in Workers, RecoverRequeue(w) \/ RecoverFail(w)
      PROVE  RunStands(r) \/ RunAdvances(r)
  BY <1>2, ExpireTakesLease
<1>3. ASSUME NEW w \in Workers, ClaimNext(w) \/ ClaimRun(w)
      PROVE  RunStands(r) \/ RunAdvances(r)
  BY <1>3 DEF ClaimNext, ClaimRun, Claim, NextAttempt
<1>4. ASSUME NEW w \in Workers, CompleteRecorded(w)
      PROVE  RunStands(r) \/ RunAdvances(r)
  <2>1. verdict[w] \in Results
    BY <1>4 DEF CompleteRecorded, JobsAreClaims
  <2> QED BY <1>4, <2>1 DEF CompleteRecorded, MayComplete, HeldLeases
<1>5. ASSUME NEW w \in Workers,
             WorkerStep(w) \/ Renew(w) \/ Stop(w),
             ~(\/ RecoverRequeue(w) \/ RecoverFail(w) \/ ClaimNext(w)
               \/ ClaimRun(w) \/ CompleteRecorded(w))
      PROVE  RunStands(r)
  <2>1. UNCHANGED <<runState, attempt>>
    BY <1>5 DEF WorkerStep, SeeRetryable, SeeSpent, Snapshot, ClaimNothing,
         Reserve, ObserveCancel, AdapterResponds, CompleteIgnored, Release,
         CancelReleaseRejected, CancelReleaseAccepted, CancelDagRun, Renew, Stop
  <2> QED BY <2>1
<1>6. ASSUME NEW q \in Runs, Approve(q) \/ Cancel(q)
      PROVE  RunStands(r) \/ RunAdvances(r)
  BY <1>6 DEF Approve, Cancel, HeldLeases
<1>7. CASE CancelListed
  BY <1>7 DEF CancelListed, HeldLeases, KnownRunsExist
<1>8. ASSUME NEW q \in Runs, NEW a \in Attempts,
             LeaseTimesOut(q, a) \/ CancelLeases(q) \/ CancelInterrupted(q) \/ ListQueued
      PROVE  RunStands(r)
  BY <1>8 DEF LeaseTimesOut, CancelLeases, CancelInterrupted, ListQueued
<1>9. ASSUME NEW q \in Runs, CancelLeases(q) \/ CancelInterrupted(q) \/ ListQueued
      PROVE  RunStands(r)
  BY <1>9 DEF CancelLeases, CancelInterrupted, ListQueued
<1>10. CASE UNCHANGED vars
  BY <1>10 DEF vars
<1> QED BY <1>1, <1>2, <1>3, <1>4, <1>5, <1>6, <1>7, <1>8, <1>9, <1>10
        DEF Next, OperatorStep

\* No circle of requeues, lapses, stale recoveries and approvals: each change of
\* a run starts a later attempt, or takes a held lease from it (which only a
\* new attempt brings), or takes it further on in the attempt it is in; and
\* attempts stay within a budget that only an approval raises.  This is what
\* SubmittedRunsSettle rests on: a run is kept from settling only by workers
\* that stop, or by being stranded after a stale recovery.
THEOREM RunsNeverReturn == Spec => []AttemptsWithinBudget /\ RunsAdvance
<1>1. IInv /\ [Next]_vars => [\A r \in Runs : RunStands(r) \/ RunAdvances(r)]_vars
  BY StepAdvancesRun
<1> QED BY <1>1, Inductive, BudgetIsRespected, PTL DEF Spec, RunsAdvance

\* A cancelled run that holds no lease leaves that state in no step.
LEMMA StepKeepsCancelled ==
    ASSUME IInv, [Next]_vars, NEW r \in Runs, runState[r] = "cancelled",
           \A a \in Attempts : lease[r][a] \notin Held
    PROVE  runState'[r] = "cancelled"
<1>1. HeldLeases(r) = {}
  BY DEF HeldLeases
<1>2. ASSUME NEW w \in Workers, RecoverRequeue(w) \/ RecoverFail(w)
      PROVE  runState'[r] = "cancelled"
  BY <1>1, <1>2, ExpireTakesLease DEF Loses
<1>3. ASSUME NEW w \in Workers, ClaimNext(w) \/ ClaimRun(w) \/ CompleteRecorded(w)
      PROVE  runState'[r] = "cancelled"
  BY <1>3 DEF ClaimNext, ClaimRun, Claimable, Claim, CompleteRecorded, MayComplete,
       IInv, TypeOK
<1>4. ASSUME NEW w \in Workers, WorkerStep(w) \/ Renew(w) \/ Stop(w)
      PROVE  runState'[r] = "cancelled"
  BY <1>2, <1>3, <1>4 DEF WorkerStep, SeeRetryable, SeeSpent, Snapshot,
       ClaimNothing, Reserve, ObserveCancel, AdapterResponds, CompleteIgnored,
       Release, CancelReleaseRejected, CancelReleaseAccepted, CancelDagRun,
       Renew, Stop
<1>5. ASSUME NEW q \in Runs, \/ Enqueue(q) \/ Approve(q) \/ Cancel(q)
                              \/ CancelLeases(q) \/ CancelInterrupted(q)
      PROVE  runState'[r] = "cancelled"
  BY <1>5 DEF Enqueue, Approve, Cancel, CancelLeases, CancelInterrupted, IInv, TypeOK
<1>6. CASE ListQueued \/ CancelListed
  BY <1>6 DEF ListQueued, CancelListed
<1>7. ASSUME NEW q \in Runs, NEW a \in Attempts, LeaseTimesOut(q, a)
      PROVE  runState'[r] = "cancelled"
  BY <1>7 DEF LeaseTimesOut
<1>8. CASE UNCHANGED vars
  BY <1>8 DEF vars
<1> QED BY <1>4, <1>5, <1>6, <1>7, <1>8 DEF Next, OperatorStep

\* A cancellation is final once the run holds no lease: a worker that finishes
\* later, a recovery that saw the run running, and approvals all leave it.
THEOREM CancellationIsFinal == Spec => CancelledIsFinal
<1>1. IInv /\ [Next]_vars =>
        [\A r \in Runs :
           runState[r] = "cancelled" /\ (\A a \in Attempts : lease[r][a] \notin Held)
               => runState'[r] = "cancelled"]_vars
  BY StepKeepsCancelled
<1> QED BY <1>1, Inductive, PTL DEF Spec, CancelledIsFinal

\* So `app cancel` is final when it has returned, if nothing disturbed it: its
\* second statement leaves no lease that a recovery could find.
THEOREM UndisturbedCancelIsFinal ==
    "cancel-queued" \notin CancelCommands =>
        (Spec => [][\A r \in Runs :
                      faults = 0 /\ runState[r] = "cancelled" /\ r \notin cancelling
                          => runState'[r] = "cancelled"]_vars)
<1> SUFFICES ASSUME "cancel-queued" \notin CancelCommands
             PROVE  Spec => [][\A r \in Runs :
                      faults = 0 /\ runState[r] = "cancelled" /\ r \notin cancelling
                          => runState'[r] = "cancelled"]_vars
  OBVIOUS
<1>1. IInv /\ [Next]_vars =>
        [\A r \in Runs :
           faults = 0 /\ runState[r] = "cancelled" /\ r \notin cancelling
               => runState'[r] = "cancelled"]_vars
  <2>1. IInv => CancelledRunHoldsNoLease
    BY DEF IInv, CancelledHoldsNothing
  <2> QED BY <2>1, StepKeepsCancelled DEF CancelledRunHoldsNoLease
<1> QED BY <1>1, Inductive, PTL DEF Spec

=============================================================================
