# A verification project for AgentHero / GrokRxiv

AgentHero (`src/crates`) runs installed apps as durable jobs: `app_runs` rows in Postgres that
workers claim under leases, each executed by an adapter process that walks a DAG of nodes. GrokRxiv
(`src/agenthero/apps/grokrxiv`) is the largest app: it ingests arXiv papers, reviews them with teams
of agents, formalizes their theorems in Lean and publishes the reviews as pull requests. This
directory holds TLA+ models of the parts whose correctness depends on interleavings, crashes, retries
and ordering, TLC runs over small instances, and TLAPS proofs for every value of the constants.

    tlc -workers 2 -config SchedulerSafety.cfg MCAppRunScheduler
    tlapm AppRunSchedulerProofs.tla

`PROJECT.json` lists every component with its status, every hazard at its line, every run with its
properties, the lines each definition models, and the theorems.

## 1. Inventory

| Component | State | Operations | What is hard | What makes it correct |
|---|---|---|---|---|
| App-run scheduler (`orchestrator/src/{scheduler,app_runs}.rs`) | rows of `app_runs`, `worker_leases`, `dag_runs`; per worker: the claimed run, the adapter's answer | recover expired leases, claim, reserve, renew, observe a cancellation, complete, release, cancel the dag run | workers share only the tables; leases lapse under live workers; recovery writes what it read before; a worker dies between two statements and is not respawned | a lost run is always found; one worker per attempt; results agree with dag runs; budgets hold; cancelled is final once no lease is left |
| Operator commands (`orchestrator/src/cli.rs`) | the same rows | submit, replay, approve, cancel (two statements), cancel-queued (list, then update), work | race with every worker step | each change is a legal step of a run's lifecycle |
| DAG executor (`dag-executor/src/lib.rs`) | node statuses, reports, branch selections, checkpoint, cancellation token, semaphore | execute a layer concurrently or serially, retry, skip, branch, gate, approve, replay, cancel | two loops decide the same things; pauses and resumes; reports per attempt | readiness before start, honest reports, every pass returns, approvals are remembered |
| DAG manifests (`dag-runtime/src/lib.rs`) | nodes and edges | validate, layer | cycles | layers respect edges; exactly the cycles are rejected |
| GrokRxiv supervisor (`supervisor.rs`, `supervisor/jobs.rs`) | bounded channel, worker set, job rows, reviews being published | enqueue, run, hand over, retry, shut down | workers send to the queue they drain; retries at shutdown | no job is lost; attempts do not overlap; the queue drains or its wedge is known |
| One review (`supervisor/review_flow.rs`, `verification.rs`, `review_gate.rs`, `agents/runners/cli.rs`) | rows of reviews, agents, moderation and job; caches; permits | insert, run specialists, call again, verify, gate, synthesize, cache, enqueue, retry the job | every statement may fail after the row is visible; caches outlive the review that filled them; notes are read after they were superseded; what becomes a row differs from what is cached and synthesized | what is offered is complete; no row is stranded; a synthesis is about its rows; nothing that passed is paid twice |
| Review batches (`batch.rs`) | batches and items | create, claim due items, mark, refresh the batch | a count and an update in two statements; crash after a claim; run while created | each paper once; labels agree with items; batches settle |
| Publishing (`supervisor/publish.rs`, `routes/webhook.rs`, `publisher/src/github.rs`, `db.rs`) | review, moderation and re-review rows; pull requests | open, link, merge, close, finalize, reconcile, re-review, decide | webhooks lost, doubled, reordered, or recorded and forgotten; effects outside, or in another table, before the row is written | published only what was merged; a commit reviewed once; merges found by polling |
| Lean formalization (`grokrxiv .../cli.rs`) | library, target files, results, `theorem_map.json` | author, check, fix, feed back, judge, merge the map | files are overwritten round after round; the target is built on a copy of a library that others edit; deaths leave files behind; labels may share a directory | what is called proved was built and judged as it is; all rounds end |
| Adapter processes (`orchestrator/src/dag_apps.rs`) | child process, pipes | spawn, feed, wait, time out, kill | timeout against a late answer | every adapter ends |
| Ingest schedule and rate limit (`scheduler.rs`, `arxiv_rate_limit.rs`) | last call, next fire time | acquire, fire, split ranges | day boundaries | min gap; each day once |
| Storage (`storage/src/git_store.rs`) | a working copy and a remote | write, commit, push | concurrent commits | pushed commits hold the artifacts named |
| Ingestion, rendering, verifier rules, LLM adapter, agent runtime, app SDK, HTTP server, web, other apps | little shared state | sequential calls, I/O, text | — | — |

How they interact: `agh app run` inserts a row; a worker claims it, reserves a dag run and starts the
app's adapter; the adapter executes its manifest with the DAG executor and answers with a report; the
worker folds the report into `app_runs` and `dag_runs`. A report that waits for an approval is the
checkpoint that `agh app approve` puts into the row's input for the next attempt. GrokRxiv's server
sends ingest, review and publish jobs through its supervisor; batches and commands run reviews
directly. A review ends in the moderation queue, from where decisions, pull requests and webhooks take
it on, or bring a new review of the paper about.

## 2. Modules

| Module | Models |
|---|---|
| `AppRunLifecycle` | abstract: what the queue promises about a run (submit, start, suspect, requeue, give up, settle, resume, withdraw) |
| `AppRunScheduler`, `MCAppRunScheduler` | the workers, the three tables, the operator's commands; implements `AppRunLifecycle` |
| `DagManifest` | what layering guarantees and execution relies on |
| `DagLayers` | `execution_layers` as the loop it is |
| `DagExecutor`, `MCDagExecutor` | `execute_with_checkpoint` over several passes of one run; three manifests |
| `SupervisorQueue` | the supervisor's channel, loop and workers, with shutdown |
| `PaperReviews` | abstract: what the tables promise about the reviews of a paper (insert, fail, offer, reopen, refuse, reject, withdraw, publish) |
| `ReviewTeam` | one job reviewing a paper, again and again: agents, verification, synthesis, caches, moderation |
| `ReviewLifecycle` | the reviews of a paper against its pull requests on GitHub |
| `ReviewBatch` | `batch create` and `batch run` |
| `InventoryFormalize`, `MCInventoryFormalize` | `formalize` on the theorem inventory; claims that share a directory |
| `...Proofs` | the inductive invariant, theorems and lemmas of the module they are named for |

`DagLayers` and `DagExecutor` meet in `DagManifest`: `LayersRespectEdges` is what the first is proved
to deliver and what the second assumes of its manifests. `AppRunScheduler` holds
`Lifecycle == INSTANCE AppRunLifecycle WITH ...`: its `RefinesLifecycle` is checked and proved.
`ReviewTeam` is what `ReviewLifecycle` calls a run (`StartReview`, `CompleteReview`, `FailReview`): both
hold `Rows == INSTANCE PaperReviews WITH ...`, and their `RefinesRows` is checked and proved. The one
writes the rows in its `Insert`, `Fail` and `Offer`, with all that agents, caches and databases do in
between; the other decides about them and publishes them. `SupervisorQueue` and `ReviewBatch` see a
review as the outcome of an item.

### AppRunScheduler

Rows are functions of a run number; a claim's lease and dag run are named by run and attempt, because
the claim transaction inserts one lease, draws one dag-run id and increments `attempt`. One action is
one SQL statement, or one transaction where the code opens one, but for recovery, whose two
statements are a read and a write each. The order of a worker is its `pc`:

    requeue_expired [-> requeue] -> fail_expired [-> fail] -> claim
        -> reserve -> adapter -> complete -> release -> ...
                             \-> cancel_release -> cancel_dag -> ...

Recovery (`app_runs.rs:1167-1209`) joins leases and runs, expires the leases and then updates the runs
by id. `Snapshot` is what the join sees. When the statement gets its row locks, under READ COMMITTED,
the lease rows are tested again (`StillOverdue`) and the state of the run is not (`Expire`): a run that
was completed or cancelled in between, with its lease still held, goes back to `queued`, or to
`system_failed`. `overtaken` remembers such runs. The abstract lifecycle has this way back
(`Suspect`, then `Requeue` or `GiveUp`), so that `RefinesLifecycle` says what follows from it and what
does not: only runs that were seen running are brought back, once for each lease, within their budget.
The properties that a run brought back may break name it: `RunningHasLiveLease` excepts `overtaken`
runs, `SubmittedRunsSettle` those that are `Stranded` by it (queued without an attempt left, or running
after `app cancel` took the lease), `CancelledIsFinal` cancelled runs with a held lease. A cancellation
that nothing disturbed leaves none, and is final (`UndisturbedCancelIsFinal`).

`LoopWorkers` are `worker_loop` tasks, which poll again; `OnceWorkers` are `agh app work`, which exit.
`"overdue"` is a lease whose `leased_until` has passed while its column still says `'leased'`: `Renew`
takes it back, `LeaseTimesOut` (15 minutes) leads there, recovery expires it. `Stop` is a crash or a
database error leaving the loop through `?`: `spawn` never starts the worker again.

`Reserve` also starts the adapter; `AdapterResponds` is any branch of the response (ok with a report
or without, not ok, error, timeout), reduced to the state the worker will record; `CompleteRecorded`
is `complete_success` and `complete_failure`, each with the persisted report, whose `run_id` is the
reserved dag run (adapters are told its id and report it, `scheduler.rs:726`, so that the branches
for a report without one and for a report that is pending or running are left out). With `ok=false`
the run becomes failed while the dag run takes the report's own state (`DagVerdicts`). A run is
cancelled by one `app cancel` at a time. `Approve` leaves out the refusals (wrong key, no
checkpoint), which change nothing. A release in a state the table's check constraint rejects fails
only when it matches a row, so the two outcomes of the cancellation path are two actions.

Simplifications to know of: other statements and transactions are atomic. Those that test what they
change do so in the update of the row itself, or have locked the row (claims, approvals). `for
update skip locked` may also take a run that is not the oldest. Events, node rows, artifacts and
heartbeats of `worker_nodes` are not modelled: no step decides on them.

### DagExecutor and DagLayers

A pass is one call of `execute_with_checkpoint`. `phase`, `layer` and `queue` say where it is: a layer
whose nodes not replayed are all ordinary, unmetered and ready is executed as tasks behind a semaphore
(`StartQueued` takes the permit, `AnswerConcurrent` releases it, `CollectLayer` joins); any other layer
goes node by node through `SkipNode`, `SelectCase`, `EvaluateGate`, `EvaluateApproval` or
`StartSerial`/`AnswerSerial`. There is no await between two evaluations, so each is one action; the
token may be set by another thread at any time (`RequestCancel`), and is read where the code reads it:
before a layer and before a serial node, not before a queued task or a retry.

`reports` holds one status per attempt, as the code pushes them. `Resume` makes the last report the
checkpoint of the next pass, with one more approval after a pause, or without (a replay); `IsReplayed`
says what the checkpoint gives for a node. An answer of a concurrent task is appended when it is given
and not when it is collected; nothing reads in between. Loop and map nodes are `composite`: several
calls, one after the other, that yield one status. Contracts, policies and failed preflights are
errors, which `ErrorStatus` turns into failed or, for an optional node, degraded. Budget units matter
only in that a metered node forces the serial path. Panics of handlers are not modelled.

In `DagLayers` the map of remaining dependencies is a function whose domain shrinks; a layer is a set,
because the code sorts it by manifest order before it is used.

### SupervisorQueue

An item is a job and its attempt number. The loop takes items while fewer than `WorkerLimit` tasks are
alive (`Receive`); a send on a full channel waits in its sender, so the channel and its waiting senders
are one sequence, of which the first `Capacity` items are buffered. A task marks its row running,
works, and succeeds, hands a review job over (`HandOver`), fails for good or backs off and sends its
retry (`BackOff`, `Resend`, `Resent`). `Shutdown`, `CloseQueue`, `Drained` and `Exit` are the token,
`rx.close()`, the drain of the loop and the end of the process, which does not wait for tasks that
still sleep. `DatabaseError` and `Panic` end a task without its last writes. The work of an item is
its outcome. `publish_after_approval` has no caller in the repository but its test; it is modelled as
the code has it.

### ReviewTeam

`phase` is where the one job of the paper is:

    mark -> start -> panel -> verify -> gate -> meta -> verify_meta -> set_meta -> enqueue -> mark_done
              \__________________________ error -> mark (a retry) or mark_failed

`InsertReview` is the transaction that withdraws what the paper had under review, together with its
moderation row. In the panel each role `Take`s a permit, looks in the cache and calls its CLI up to
four times (`AfterCall`: a corrective call after an answer that does not validate, both again with the
fallback provider after an exhausted quota); the supervisor's timeout, a timeout of a call and an error
have one result, the role's stub. Outputs are verified in manifest order, stored and cached one by one.
`Verdicts` says what verification can make of an output: a stub fails, but for citation, whose stub is
judged by the live checks of the bibliography, and but for the meta-reviewer, whose stub is a valid
synthesis. `GateFails` records the synthetic meta-review of a missed quorum. `Fail` sets the row
`system_failed`, or not if that statement fails too, and retries or gives the job up: whether the
error's words sound temporary is a free choice. `StartJob` is a new job, or a moderator's request for
changes with its notes. `DatabaseError` and `Crash` are faults; after a crash nothing resumes the job.

What becomes a row is not what the agent answered: postprocessors add facts of their own (`FactRoles`,
and citation's degraded form of a stub) before the answer is verified and stored, while the cache, the
synthesis and its key take the raw answer (`review_flow.rs:1038-1084`, `1170-1178`). A row is therefore
an answer and the facts of its review, and `SynthesisIsOfItsRows` says that a synthesis was made of the
answers that became the rows beside it, not that it saw the facts in them. `CacheIsOnRecord` likewise:
the row of a cached answer shows it with the facts of that review.

An answer is named by the review that paid for it, so that two answers of a role are equal only if one
was cached. Stubs quote an error, so two of them need not be equal: with a stub in the bundle a lookup
of the meta cache may hit or miss. The paper does not change, the cache's thirty days do not pass, the
cache is not disabled, and two pipelines never run on one paper at once.

### ReviewLifecycle

`reviews.status`, `superseded_at`, `github_pr_url`, `moderation_queue` and `rereview_requests` of one
paper, beside the pull requests on GitHub, whose body names a review (`marker`). Opening is four steps
of an `Opener` process (`CheckReview`, `OpenPr`, `MarkPrOpen`, `LinkPr`; then `CloseSuperseded`), which
may be killed between them, and whose two updates may fail unnoticed (`UpdateFails`: the code drops
their results). A merge or a pushed commit is `Deliver`ed as a webhook any time later, more
than once or never; the delivery is recorded before its task is spawned, and `Crash` forgets the tasks.
`ListPrOpen`, `Reconcile` and `SkipListed` are a pass of the reconciler, which reads each pull request
it listed or leaves it for a later pass. `Approve`, `Reject`, `Withdraw`, `Correct`, `RequestChanges`
and `CloseReview` are the operator's commands. `Reject` writes the moderation row, `CloseReview` and
`Approve` change the pull request, each before the review's status: the status update is then pending
in `deciding`, until `FinishDecision` makes it, whatever the review is by then, or `AbandonDecision`
(an error in between, a kill) drops it. `close` without an open pull request is `Withdraw`. The rows
`rejections` and `corrections` are read by no step and left out. `request` is `"over"` when the task of
a re-review has ended, failed or been lost. GitHub itself (`Merge`, `Push`) is
external. The partial unique index on active reviews is a guard (`StatusAllowed`).

### ReviewBatch

`InsertItem` and `EndCreate` are `batch create`, `Claim` the transaction that takes due items within
the daily limit, then each runner goes through its items: review, pull request, result, and the refresh
of the batch as the statements it is (`CountPending`, `CountFailed`, `Label`). Errors of an item's
processing mark it failed, errors of that are ignored, and a crash leaves what was claimed `running`.
`early` remembers a run that claimed items while the batch was being created, which the settling
properties except: the counts then see a part of the batch.

### InventoryFormalize

Texts are told apart by what Lean says of them (plain, needy of a richer library, broken, tainted), as
libraries are (unusable, poor, rich). A build that is killed or times out is a compile error to the
code, whatever the text or library, and starts repairs as one (`CheckResults`, `LibraryCheck`).

A directory is named by a slug of the claim's id, a raw LaTeX label (`cli.rs:11597`, `12203-12221`):
every character that is not alphanumeric becomes `_`, so that `thm:1` and `thm-1` share one. `Dir` maps
claims to directories; of claims that share one, a step may find any text in place of its own (`Code`,
`Shown`), and any result. `ProvedIsVerified`, and what `LibraryIsChecked` says of files, are claimed of
a claim that is `Alone` in its directory and fail without that; `cli.rs:15644` speaks of isolated
directories, which such claims do not have.

A job of a target goes author, check, fix, feedback, judge, with
`round` for where in its bounded repairs it is; `file` keeps what lies on disk: the text, the copy that
was checked, the library it was built on, and the text the judge called faithful. A run without a claim
works on all targets; its jobs interleave freely, which covers the parallelism the code bounds. A death
(`Crash`) leaves files that the next run reuses; `Finish` merges the map. The git commit after a run,
prompts and single-stage commands are left out.

## 3. Runs

| Run | What it asks | Bounds | Distinct states |
|---|---|---|---|
| `scheduler_safety` | recoverable runs, exclusive attempts, results recorded, cancellation, refinement of `AppRunLifecycle` (budgets with it) | 1 run, 2 pollers and 1 `app work`, 3 attempts, budget up to 2, 1 fault, `app cancel`; symmetry of the pollers | 1,539,084 |
| `scheduler_queue` | a cancelled run without a lease is never revived, submitted runs settle, with `cancel-queued` and two runs | 2 runs, 1 poller and 1 `app work`, 2 attempts, 1 fault | 413,624 |
| `executor_safety` | readiness, honest reports, approvals, every pass returns | 3 manifests of 5 nodes, 2 attempts per node, 3 passes | |
| `layers_all_graphs` | layering | every graph of 4 nodes, self edges included (65,536) | |
| `supervisor_queue` | no job lost, attempts and publishes apart, the queue settles, shutdown drains | 3 jobs, 2 workers, a channel of 1, 2 attempts, 1 fault | 304,974 |
| `review_team` | complete offers, no stranded rows, synthesis and caches on record, nothing paid twice, refinement of `PaperReviews`, jobs end | 2 roles (one of them citation), quorum 1, 1 permit, 2 attempts, 2 reviews, 1 fault | 1,601,610 |
| `review_lifecycle` | published was merged, one review per commit, refinement of `PaperReviews`, merges are found | 2 reviews, 1 pull request, 1 commit with 2 deliveries, 1 opener, 1 decision, 1 crash or failed statement | 980,479 |
| `review_batch` | reviewed once, settled means done, labels, batches settle | 2 runners, 3 items, daily limit 2, 2 faults | 190,564 |
| `inventory_formalize` | what is called proved is, targets sit on a checked library, parallel targets keep it, runs end | 3 claims of which two share a directory, texts needy and tainted, 2 runs, 1 crash | 761,207 |

Why the bounds are enough to be interesting. Scheduler: three attempts allow a zombie of attempt 1, a
successor that pauses, and an attempt bought by an approval; three workers let two zombies overlap a
live one while a third is about to write what it read; two runs let one be claimed while another is
cancelled from a stale list, and recovery take both. An instance with liveness, one run, three workers
and both commands was explored once with the same result. Executor: the
manifests put a layer wider than its permits, a retried node, an optional node, a gated tool, a branch
over a loop, a gate behind an arm, an approval in the layer of a handler and a metered tool in front of
three passes, enough to pause, resume and replay what was resumed. Supervisor: two workers, both
sending to a full channel of one, are the least that wedges; a third job fills the channel. Review
team: two reviews are a retry or a request for changes, and the second may take everything, a part or
nothing from the caches of the first; one permit makes roles queue. A larger instance (3 roles, quorum
2, 2 permits, 24 million states) was explored once with the same result. Lifecycle: two reviews are a
re-review that supersedes the one whose pull request is open; two deliveries are a duplicate on both
sides of a crash. Batch: three items over two runners with a daily limit of two leave one for later,
and the last two finish at once. Formalize: a needy text makes library feedback worthwhile, a tainted
one is refused by the kernel's guard; two runs let the second reuse what the first left, and let
a claim and the other of its directory be worked on in turn. Named bounds: `NumRuns`,
`AttemptBound`, `FaultBound`, `MaxRetry`, `PassBound`, `MaxAttempts`, `JobCount`, `ReviewBound`,
`ReviewCount`, `PrCount`, `DecisionBound`, `CrashBound`, `ItemCount`, `RunBound`.

What an abstract module promises is inherited and not run again: that attempts stay within their
budget and that cancelled is final (`AppRunLifecycle`), that a paper has one active review, that a
failed review has no moderation row and that no review awaits a moderator as new twice
(`PaperReviews`).

`CHECK_DEADLOCK FALSE` everywhere: workers exit or die, an executed run ends, layering returns, and the
bounds on jobs, reviews and runs are used up.

The type invariant of each state machine is a theorem (`TypeCorrect`; in `DagLayersProofs` a conjunct of
the invariant `Inductive` proves) and is not run as well.

Runs that expect a violation state what a doc, a comment or a schema says, and find the code doing
otherwise:

| Run | The claim | What happens |
|---|---|---|
| `recovered_healthy_worker` | recovery takes runs whose lease expired "while still marked running" | an old attempt's lease is enough; overtaken runs are a second way, as they are not running when they are taken |
| `replay_rerun` | completed nodes are replayed | the serial loop goes over replayed nodes again |
| `notes_lost` | the new pass gets the notes the moderator just wrote | inserting the new review supersedes the row that holds them, and only then it is looked for |

More disagreements and dangers were met and are in the models, listed as hazards that no property
catches: a supervisor whose workers all wait to send (`Wedged`, reached by `supervisor_queue`); a pull
request whose URL is never stored, which no pass of the reconciler finds; claims that share a directory;
the cancellation path writes a lease state the table rejects (`scheduler.rs:344`); a rejected review is
published when its pull request is merged (`webhook.rs:888`); the stub of a failed meta-reviewer is
cached as passed (`review_flow.rs:1335`).

### Fairness

- `AppRunScheduler`: weak fairness of each worker's next step (tokio schedules its tasks; an adapter
  answers or hits its timeout), and of the expiry of a lease nobody holds (time passes). A renewal, a
  fault, a submission or a command is owed by nobody. `SubmittedRunsSettle` assumes one polling worker
  that never stops, and excepts stranded runs (above); a run may still wait at an approval gate, which counts as settled.
- `DagExecutor`: weak fairness of the executor's steps as a whole, which include the answers of
  handlers (they time out), and none for cancellation or resumption. `DagLayers`: of the loop.
- `SupervisorQueue`: weak fairness of the loop and of some task's step, not of each task: the runtime
  goes on polling. `JobsSettle` names its exception, `Wedged`, where every worker waits to send.
- `ReviewTeam`, `InventoryFormalize`: weak fairness of the process's steps as a whole; calls of agents
  and commands end by timeouts. Nobody has to start a job or a run.
- `ReviewLifecycle`: weak fairness of the reconciler's passes (a timer; reading one pull request may
  fail in each), and strong fairness of reading: some pass gets an answer from GitHub. None of webhooks,
  operators or reviews. `MergedReviewsAreRepaired` speaks of reviews whose URL was stored.
- `ReviewBatch`: weak fairness of each runner.

## 4. Proofs

All theorems hold for every value of the constants and rest on the modules' named assumptions alone
(`ApprovalsAreRemembered` also assumes that handlers do not ask for approvals on their own account).
Each `...Proofs` module has one lemma per action or group of actions, `Inductive` (`Spec => []IInv`),
`TypeCorrect` and the properties that follow.

| Module | Theorems | What `IInv` adds to them, and why |
|---|---|---|
| `AppRunSchedulerProofs` | running runs are recoverable, attempts exclusive, budgets kept, results recorded, cancelled runs hold no lease and stay cancelled (`cancel-queued` not in use), refinement of `AppRunLifecycle`, cancelled without a lease is final, runs never return to where they were | the worker about to release has recorded its attempt (`PersistedRunIsOver`), so nobody releases the lease of a running attempt; a run whose cancellation is under way is cancelled, unless overtaken (`CancellingIsCancelled`); a claim takes a number above all in use (`JobsAreClaims`); dag runs exist from their reservation on and are open until recorded (`DagRunsAreOpen`); queued runs have an attempt left, unless overtaken (`QueuedCanStart`); new rows are untouched (`FreshRuns`), and what was listed or seen exists (`KnownRunsExist`) |
| `DagLayersProofs` | accepted layers respect every edge, exactly the cyclic graphs are rejected, layers are minimal, there are at most as many as nodes | what the map holds (`MapIsExact`); layers lie behind their dependencies; no placed set is a cycle; beside it, layers and unplaced nodes add up to no more than the nodes (`TurnsAreCounted`) |
| `DagExecutorProofs` | nodes start ready, success hides no failure, reports account for every node, approvals are remembered, decisions of earlier layers stand, retries are bounded, every step advances | nodes of earlier layers are decided and of later ones open (`PastIsDecided`, `FutureIsOpen`), what the current layer knows (`PresentIsKnown`), statuses are reported and skips have reasons, starts were ready when made, what was returned is what was known (`ReturnedReport`). `CallsCounted` relates the attempts of a node to the reports of the pass beyond the replayed ones |
| `SupervisorQueueProofs` | no job lost, attempts in order, publishes exclusive up to a retry, settled rows stand, every step advances | new jobs and items are untouched (`NewJobsAreFresh`, `ItemsAreNew`), a later attempt was sent by the one before (`AttemptsFollow`, `RetriesRemain`), a job that is not over has an attempt that stands for it (`AttemptRemains`), a publish under way is in flight (`PublishesAreInflight`), and nothing moves after the exit. `RowsAreSettledLast`: a settled row leaves no attempt that could write it again |
| `ReviewBatchProofs` | papers reviewed once, settled batches have no work, labels are right, no label is lost, every step advances | items at work were claimed (`TodoIsClaimed`) and run until their runner says how they ended (`UntouchedIsRunning`); nothing becomes pending again once the batch was created (`ClaimsFollowCreation`), so a verdict holds until it is written (`VerdictsHold`) |
| `ReviewLifecycleProofs` | published was merged, a commit reviewed once, refinement of `PaperReviews` and what it brings: one active review, failed is not moderated, a review awaits once | openings, urls and lists name reviews that the pull request carries (`OpeningsCarry`, `UrlsCarry`, `ListedCarry`); tasks and requests stem from what happened on GitHub (`TasksFollowEvents`, `RequestsFollowPushes`, `CausesAreRequested`); a pending update rests on a rejected row or a merged pull request (`DecisionsFollow`; the rest is `Core`). The abstract rows have an invariant of their own, `RowsInv` |
| `InventoryFormalizeProofs` | proved is verified and targets sit on a checked library (both of claims alone in their directory), parallel targets keep it, every step advances | jobs belong to the run (`JobsBelongToRun`), a pass was accepted by the kernel on what lies there (`PassedIsAccepted`), proved jobs were judged (`ProvedJobsAreVerified`), entries hold until work on their claim begins (`EntriesHoldUntilWork`); for the files, that steps of other claims keep those of a claim alone (`OthersKeepTheirFiles`) |
| `ReviewTeamProofs` | offered reviews are complete, none is stranded; syntheses are of their rows, caches on record, nothing that passed is paid twice; refinement of `PaperReviews`; every step advances | `IInv`: rows and syntheses exist only for inserted reviews (`RowsBegin`), only the job's own is in the making (`OwnReview`), what was written before each phase (`Written`, `CompletedInOrder`), and none is left behind (`NoneLeft`). `JInv`, for the caches: the rows of the review in the making hold what the agents returned (`RowsFollowOutputs`), a synthesis in hand or in the cache is of the rows of the review that paid for it (`MetaIsOfRows`, `SynthesisIsWritten`; `SameAnswers` carries it from one review to the next), and what passed, or was taken from the cache, is in it (`PassedIsCached`, `HitsRemain`). `CountedExist`, for the refinement: reviews are inserted in order |

**Bounded progress.** Liveness under fairness stays with TLC (`SubmittedRunsSettle`, `EveryPassReturns`,
`LayeringEnds`, `JobsSettle`, `ShutdownDrains`, `MergedReviewsAreRepaired`, `BatchSettles`, `RunsEnd`,
`JobsEnd`), because the prover reasons neither about fairness nor about ENABLED. What can be proved for
every value of the constants is the other half of each argument: that nothing goes round in a circle.
A measure is given to the state, and no step takes it back:

| Theorem | The measure | With fairness, and a step to take, it gives |
|---|---|---|
| `RunsNeverReturn` (scheduler) | of a run: its attempt, then the leases it still holds (a recovery takes one with every run it moves, and only a claim brings one), then how far the attempt came (running, waiting for approval, queued again, over, cancelled); attempts stay within the budget | the part of `SubmittedRunsSettle` that requeues, lapsed leases and approvals could break |
| `LayeringIsBounded` | nodes not yet placed | `LayeringEnds` |
| `EveryStepAdvances` (executor), `RetriesAreBounded` | layer, whether it was entered, and the work left on each of its nodes, with its attempts | `EveryPassReturns` |
| `EveryStepAdvances` (queue), `SettledRowsStand` | of each item its stage, of the server its shutdown | `JobsSettle`, `ShutdownDrains`, but for a wedged queue, which has no step to take |
| `EveryStepAdvances` (batch), `NoLabelIsLost` | of each item its state, of each runner what it has left to do and how far it is | `BatchSettles` |
| `EveryStepAdvances` (formalize) | of the run its stage, of each job its stage and its rounds of repair, feedback and judging | `RunsEnd` |
| `EveryStepAdvances` (team) | attempt, phase, next role, tasks | `JobsEnd` |

`MergedReviewsAreRepaired` has no such theorem: operators may take a review back and forth without end.
The measures hold whatever faults happen, without the bounds on faults, runs and reviews of the runs'
instances. They are stated in the `...Proofs` modules and no run repeats them; TLC found each to hold on
the instance of its module's run. No module declares a RECURSIVE operator.

## 5. Plan

Done: the scheduler with its abstract lifecycle, the executor and its layers, the supervisor's queue,
batches, publishing, formalization, one review by its team, the abstract reviews that the last and
publishing implement, and their proofs.

1. Loop and map nodes of the executor in detail (rounds, items, their child reports), panics of tasks.
2. The arXiv gate, day ranges and the LLM adapter's bounded retry as pure modules.

## 6. Not modelled

The repository has some 120,000 lines of implementation, and most of them keep no state that another
step decides on: prompts and templates, parsing and rendering of papers and reports, verifier rules
over text, command-line parsing and printing, HTTP clients of providers, web pages. Their outcomes
appear as nondeterministic answers; a model of their text would show nothing that a test does not. The
models cover the state changes instead, which are a small share of the lines.

Left out of the parts that are modelled: the per-theorem Lean loop (`cli.rs` 6839-7911, 9283-9694),
which nothing calls; two `formalize` processes on one review, which share their files without a lock
and are not documented to be allowed; two pipelines on one paper; expiry and changes of cache keys;
the reconciler's page limit; contents of branches, bodies and comments on GitHub; adapter processes
as such (pipes, output limits, killing the child).
