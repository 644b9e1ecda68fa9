------------------------- MODULE AppRunLifecycle -------------------------
(***************************************************************************)
(* What the durable app-run queue promises about one row of `app_runs`,    *)
(* with no workers, leases or crashes in sight: a run is queued, started   *)
(* at most `budget` times, handed back to the queue or given up when it    *)
(* was seen running with a lapsed lease, and ends with one result; only an *)
(* approval, a cancellation, or a recovery that saw it running before,     *)
(* changes it afterwards.  AppRunScheduler is shown to implement this.     *)
(***************************************************************************)
EXTENDS Naturals

CONSTANTS
    Runs,      \* rows of app_runs
    MaxRetry   \* largest retry.max_attempts an installed action declares

VARIABLES
    runState,  \* app_runs.state, "absent" before the row is inserted
    attempt,   \* app_runs.attempt, the attempts started so far
    budget,    \* input.retry.max_attempts
    retryable, \* runs a recovery saw running, with an attempt left
    spent      \* runs a recovery saw running, with no attempt left

lifecycleVars == <<runState, attempt, budget, retryable, spent>>
suspects == <<retryable, spent>>

\* The results a worker records for an attempt (report_state and the failure
\* states the scheduler passes to complete_failure).
Results == {"done", "partial", "awaiting_approval", "failed", "system_failed"}

RunStates == {"absent", "queued", "running", "cancelled"} \cup Results

LifecycleTypeOK ==
    /\ runState \in [Runs -> RunStates]
    /\ attempt \in [Runs -> Nat]
    /\ budget \in [Runs -> Nat]
    /\ retryable \subseteq Runs
    /\ spent \subseteq Runs

LifecycleInit ==
    /\ runState = [r \in Runs |-> "absent"]
    /\ attempt = [r \in Runs |-> 0]
    /\ budget = [r \in Runs |-> 0]
    /\ retryable = {}
    /\ spent = {}

\* Move every run of S to the state s.
Move(S, s) == runState' = [r \in Runs |-> IF r \in S THEN s ELSE runState[r]]

Submit(r) ==
    /\ runState[r] = "absent"
    /\ Move({r}, "queued")
    /\ \E m \in 1..MaxRetry : budget' = [budget EXCEPT ![r] = m]
    /\ UNCHANGED <<attempt, suspects>>

Start(r) ==
    /\ runState[r] = "queued"
    /\ attempt[r] < budget[r]
    /\ Move({r}, "running")
    /\ attempt' = [attempt EXCEPT ![r] = @ + 1]
    /\ UNCHANGED <<budget, suspects>>

\* A recovery sees runs marked running whose lease has lapsed, or leaves off
\* runs it saw before: their lease was renewed, or it died.
Suspect ==
    /\ retryable' \subseteq retryable \cup
           {r \in Runs : runState[r] = "running" /\ attempt[r] < budget[r]}
    /\ spent' \subseteq spent \cup
           {r \in Runs : runState[r] = "running" /\ attempt[r] >= budget[r]}
    /\ UNCHANGED <<runState, attempt, budget>>

\* Runs that were seen to be lost with an attempt left go back to the queue
\* together, whatever has become of them in between.
Requeue(S) ==
    /\ S \subseteq retryable
    /\ Move(S, "queued")
    /\ retryable' \subseteq retryable
    /\ UNCHANGED <<attempt, budget, spent>>

\* Runs that were seen to be lost with no attempt left fail.
GiveUp(S) ==
    /\ S \subseteq spent
    /\ Move(S, "system_failed")
    /\ spent' \subseteq spent
    /\ UNCHANGED <<attempt, budget, retryable>>

Settle(r, v) ==
    /\ runState[r] = "running"
    /\ Move({r}, v)
    /\ UNCHANGED <<attempt, budget, suspects>>

\* An approval always buys the attempt it needs to resume.
Resume(r) ==
    /\ runState[r] = "awaiting_approval"
    /\ Move({r}, "queued")
    /\ budget' = [budget EXCEPT ![r] = IF @ > attempt[r] THEN @ ELSE attempt[r] + 1]
    /\ UNCHANGED <<attempt, suspects>>

\* Operators cancel runs that exist.  `cancel` takes one queued or running
\* run; `cancel-queued` takes a batch whose members it listed earlier, in
\* whatever state they are by now.
Withdraw(S) ==
    /\ \A r \in S : runState[r] # "absent"
    /\ Move(S, "cancelled")
    /\ UNCHANGED <<attempt, budget, suspects>>

LifecycleNext ==
    \/ \E r \in Runs :
        \/ Submit(r)
        \/ Start(r)
        \/ \E v \in Results : Settle(r, v)
        \/ Resume(r)
    \/ \E S \in SUBSET Runs : Requeue(S) \/ GiveUp(S) \/ Withdraw(S)
    \/ Suspect

LifecycleSpec == LifecycleInit /\ [][LifecycleNext]_lifecycleVars

-----------------------------------------------------------------------------
(* What every implementation of the lifecycle inherits.                    *)

\* A run never starts more attempts than its budget.
AttemptsWithinBudget == \A r \in Runs : attempt[r] <= budget[r]

\* A cancelled run that no recovery saw running before is never claimed,
\* settled, requeued or resumed again.
CancelledIsFinal ==
    [][\A r \in Runs \ (retryable \cup spent) :
          runState[r] = "cancelled" => runState'[r] = "cancelled"]_lifecycleVars

=============================================================================
