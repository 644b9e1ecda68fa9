---------------------------- MODULE ReviewBatch ----------------------------
(***************************************************************************)
(* One batch of papers: `batch create` inserts its items one by one, and   *)
(* any number of `batch run` processes claim items that are due, review    *)
(* them in turn and, after each, derive the state of the batch from counts *)
(* of its items.  Every SQL statement is an action, but for the claim,     *)
(* which is one transaction.                                               *)
(***************************************************************************)
EXTENDS Naturals, FiniteSets, FiniteSetsExt

CONSTANTS
    Runners,     \* processes of `batch run`, each run again when it ended
    ItemCount,   \* papers of the listing, by position
    DailyLimit,  \* review_batches.daily_limit
    AutoPr,      \* review_batches.auto_pr
    FaultBound   \* bound on database errors and crashes

ASSUME BatchAssumption ==
    /\ ItemCount \in Nat /\ DailyLimit \in Nat \ {0}
    /\ AutoPr \in BOOLEAN /\ FaultBound \in Nat

VARIABLES
    item,      \* review_batch_items.state, "absent" before the insert
    attempts,  \* review_batch_items.attempts
    batch,     \* review_batches.state
    creating,  \* `batch create` is still inserting items
    early,     \* a run claimed items while it was
    pc,        \* what a runner does with the first of its items
    todo,      \* items a runner claimed and has not finished
    hasUrl,    \* the review of that item got a pull request
    erred,     \* its processing failed, so that nobody looks at what follows
    verdict,   \* the state a runner is about to give the batch
    faults     \* database errors and crashes so far

vars == <<item, attempts, batch, creating, early, pc, todo, hasUrl, erred,
          verdict, faults>>

Items == 0..ItemCount - 1
Pending == {"queued", "running"}
Settled == {"reviewed", "pr_open", "failed"}
Refreshing == {"count_pending", "count_failed", "label"}
Stages == {"idle", "review", "open_pr", "mark_succeeded", "mark_failed"} \cup Refreshing

TypeOK ==
    /\ item \in [Items -> {"absent"} \cup Pending \cup Settled]
    /\ attempts \in [Items -> 0..1]
    /\ batch \in {"active", "done", "failed"}
    /\ creating \in BOOLEAN /\ early \in BOOLEAN
    /\ pc \in [Runners -> Stages]
    /\ todo \in [Runners -> SUBSET Items]
    /\ hasUrl \in [Runners -> BOOLEAN]
    /\ erred \in [Runners -> BOOLEAN]
    /\ verdict \in [Runners -> {"done", "failed"}]
    /\ faults \in 0..FaultBound

Init ==
    /\ item = [i \in Items |-> "absent"]
    /\ attempts = [i \in Items |-> 0]
    /\ batch = "active"
    /\ creating = TRUE /\ early = FALSE
    /\ pc = [r \in Runners |-> "idle"]
    /\ todo = [r \in Runners |-> {}]
    /\ hasUrl = [r \in Runners |-> FALSE]
    /\ erred = [r \in Runners |-> FALSE]
    /\ verdict = [r \in Runners |-> "done"]
    /\ faults = 0

(***************************************************************************)
(* `batch create`                                                          *)
(***************************************************************************)
\* Days after the start date.
ScheduledFor(i) == i \div DailyLimit

InsertItem(i) ==
    /\ creating /\ item[i] = "absent" /\ \A j \in 0..i - 1 : item[j] # "absent"
    /\ item' = [item EXCEPT ![i] = "queued"]
    /\ UNCHANGED <<attempts, batch, creating, early, pc, todo, hasUrl, erred, verdict, faults>>

\* The last item is in, or an insert failed; what was inserted stays.
EndCreate ==
    /\ creating /\ creating' = FALSE
    /\ \/ (\A i \in Items : item[i] # "absent") /\ UNCHANGED faults
       \/ faults < FaultBound /\ faults' = faults + 1
    /\ UNCHANGED <<item, attempts, batch, early, pc, todo, hasUrl, erred, verdict>>

(***************************************************************************)
(* `batch run`                                                             *)
(***************************************************************************)
\* Mutant of Due: runs take over what another process is working on.
DueOrRunning(today) ==
    {i \in Items : item[i] \in Pending /\ ScheduledFor(i) <= today}

Due(today) == {i \in Items : item[i] = "queued" /\ ScheduledFor(i) <= today}

\* The first `limit` due items, by date and position; positions are dated in
\* order.  A run that finds none ends.
Claim(r, today, limit) ==
    LET due   == Due(today)
        first == {i \in due : Cardinality({j \in due : j < i}) < limit}
    IN  /\ pc[r] = "idle" /\ first # {}
        /\ item' = [i \in Items |-> IF i \in first THEN "running" ELSE item[i]]
        /\ attempts' = [i \in Items |-> IF i \in first THEN attempts[i] + 1 ELSE attempts[i]]
        /\ todo' = [todo EXCEPT ![r] = first]
        /\ pc' = [pc EXCEPT ![r] = "review"]
        /\ erred' = [erred EXCEPT ![r] = FALSE]
        /\ early' = (early \/ creating)
        /\ UNCHANGED <<batch, creating, hasUrl, verdict, faults>>

Goto(r, stage) == pc' = [pc EXCEPT ![r] = stage]

\* Items are worked on in the order in which they were claimed.
Current(r) == Min(todo[r])

\* On to the next item, if there is one.
NextItem(r) ==
    /\ todo' = [todo EXCEPT ![r] = @ \ {Current(r)}]
    /\ erred' = [erred EXCEPT ![r] = FALSE]
    /\ Goto(r, IF todo[r] = {Current(r)} THEN "idle" ELSE "review")

Errs(r) == erred' = [erred EXCEPT ![r] = TRUE] /\ Goto(r, "mark_failed")

Review(r) ==
    /\ pc[r] = "review"
    /\ \/ Goto(r, IF AutoPr THEN "open_pr" ELSE "mark_succeeded") /\ UNCHANGED erred
       \/ Errs(r)
    /\ hasUrl' = [hasUrl EXCEPT ![r] = FALSE]
    /\ UNCHANGED <<item, attempts, batch, creating, early, todo, verdict, faults>>

\* The review gate may open no pull request.
OpenPr(r) ==
    /\ pc[r] = "open_pr"
    /\ \/ \E url \in BOOLEAN :
            /\ hasUrl' = [hasUrl EXCEPT ![r] = url]
            /\ Goto(r, "mark_succeeded") /\ UNCHANGED erred
       \/ Errs(r) /\ UNCHANGED hasUrl
    /\ UNCHANGED <<item, attempts, batch, creating, early, todo, verdict, faults>>

SetItem(r, state) ==
    /\ item' = [item EXCEPT ![Current(r)] = state]
    /\ Goto(r, "count_pending")
    /\ UNCHANGED <<attempts, batch, creating, early, todo, hasUrl, erred, verdict, faults>>

MarkSucceeded(r) ==
    pc[r] = "mark_succeeded" /\ SetItem(r, IF hasUrl[r] THEN "pr_open" ELSE "reviewed")

MarkFailed(r) == pc[r] = "mark_failed" /\ SetItem(r, "failed")

\* Mutants of CountPending: running items do not count, or failed ones do.
CountQueued(r) ==
    /\ pc[r] = "count_pending"
    /\ IF \E i \in Items : item[i] = "queued"
       THEN NextItem(r) ELSE Goto(r, "count_failed") /\ UNCHANGED <<todo, erred>>
    /\ UNCHANGED <<item, attempts, batch, creating, early, hasUrl, verdict, faults>>
CountUnfinished(r) ==
    /\ pc[r] = "count_pending"
    /\ IF \E i \in Items : item[i] \in Pending \cup {"failed"}
       THEN NextItem(r) ELSE Goto(r, "count_failed") /\ UNCHANGED <<todo, erred>>
    /\ UNCHANGED <<item, attempts, batch, creating, early, hasUrl, verdict, faults>>

CountPending(r) ==
    /\ pc[r] = "count_pending"
    /\ IF \E i \in Items : item[i] \in Pending
       THEN NextItem(r) ELSE Goto(r, "count_failed") /\ UNCHANGED <<todo, erred>>
    /\ UNCHANGED <<item, attempts, batch, creating, early, hasUrl, verdict, faults>>

\* Mutant of CountFailed: the runner looks at its own item only.
CountOwnFailure(r) ==
    /\ pc[r] = "count_failed"
    /\ verdict' = [verdict EXCEPT ![r] =
                      IF item[Current(r)] = "failed" THEN "failed" ELSE "done"]
    /\ Goto(r, "label")
    /\ UNCHANGED <<item, attempts, batch, creating, early, todo, hasUrl, erred, faults>>

CountFailed(r) ==
    /\ pc[r] = "count_failed"
    /\ verdict' = [verdict EXCEPT ![r] =
                      IF \E i \in Items : item[i] = "failed" THEN "failed" ELSE "done"]
    /\ Goto(r, "label")
    /\ UNCHANGED <<item, attempts, batch, creating, early, todo, hasUrl, erred, faults>>

Label(r) ==
    /\ pc[r] = "label"
    /\ batch' = verdict[r]
    /\ NextItem(r)
    /\ UNCHANGED <<item, attempts, creating, early, hasUrl, verdict, faults>>

\* Any error of an item's processing, the refresh after its success included,
\* marks it failed; errors of that are ignored.
DatabaseError(r) ==
    /\ faults < FaultBound /\ faults' = faults + 1
    /\ pc[r] \in {"mark_succeeded", "mark_failed"} \cup Refreshing
    /\ IF erred[r] THEN NextItem(r) ELSE Errs(r) /\ UNCHANGED todo
    /\ UNCHANGED <<item, attempts, batch, creating, early, hasUrl, verdict>>

\* Nothing takes back what a process had claimed.
Crash(r) ==
    /\ faults < FaultBound /\ faults' = faults + 1
    /\ pc[r] # "idle" /\ Goto(r, "idle")
    /\ todo' = [todo EXCEPT ![r] = {}]
    /\ UNCHANGED <<item, attempts, batch, creating, early, hasUrl, erred, verdict>>

RunnerStep(r) ==
    \/ Review(r) \/ OpenPr(r) \/ MarkSucceeded(r) \/ MarkFailed(r)
    \/ CountPending(r) \/ CountFailed(r) \/ Label(r)

Next ==
    \/ \E i \in Items : InsertItem(i)
    \/ EndCreate
    \/ \E r \in Runners :
        \/ \E today \in Items, limit \in 1..ItemCount : Claim(r, today, limit)
        \/ RunnerStep(r) \/ DatabaseError(r) \/ Crash(r)

Spec == Init /\ [][Next]_vars

\* A runner goes through its items; nobody has to create or run a batch.
FairSpec == Spec /\ \A r \in Runners : WF_vars(RunnerStep(r))

(***************************************************************************)
(* Properties                                                              *)
(***************************************************************************)
Failures == {i \in Items : item[i] = "failed"}

\* No paper is reviewed twice and no two runners work on the same one,
\* whatever runs overlap, crash or are started again: reviews cost money.
ReviewedOnce ==
    /\ \A i \in Items : attempts[i] = (IF item[i] \in {"absent", "queued"} THEN 0 ELSE 1)
    /\ \A r, s \in Runners : r # s => todo[r] \cap todo[s] = {}

\* A batch that is called done or failed has no work left, although the count
\* and the update are two statements, unless it was run while it was created.
SettledBatchHasNoWork ==
    ~early /\ batch # "active" => \A i \in Items : item[i] \notin Pending

\* A failed batch has a failed item.  A batch is called done over a failed
\* item only after an error of the database, whose item had succeeded.
LabelMatchesItems ==
    /\ batch = "failed" => Failures # {}
    /\ ~early /\ faults = 0 /\ batch = "done" => Failures = {}

\* Without faults, a batch whose items were all claimed is in time labelled:
\* whichever runner finishes last finds nothing pending.
BatchSettles ==
    [](faults = 0 /\ ~early) =>
        ((\E i \in Items : item[i] = "running") /\ (\A i \in Items : item[i] # "queued")
            ~> batch # "active")
=============================================================================
