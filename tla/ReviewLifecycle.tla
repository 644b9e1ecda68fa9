-------------------------- MODULE ReviewLifecycle --------------------------
(***************************************************************************)
(* The reviews of one paper, from the run that writes a review to its      *)
(* publication through a GitHub pull request.  The rows of `reviews` are   *)
(* changed by review runs, by operator commands that open, merge or close  *)
(* a pull request or decide about a review, by GitHub webhooks and by a    *)
(* reconciler that looks for merges whose webhook was lost.                *)
(*                                                                         *)
(* Every SQL statement and every call to GitHub that changes this state is *)
(* an action.  A command that changes something else first (a moderation   *)
(* row, a pull request) has its status update pending in between, in       *)
(* `deciding`, where other actors, errors and a kill may come.  Reviews    *)
(* and pull requests are numbered in the order in which they are created.  *)
(***************************************************************************)
EXTENDS Naturals

CONSTANTS
    ReviewCount,   \* bound on the review runs of the paper
    PrCount,       \* bound on the pull requests opened for it
    Commits,       \* commits an author may push to a pull request
    Copies,        \* bound on the deliveries GitHub makes of a push
    Openers,       \* operator processes that open pull requests
    DecisionBound, \* bound on the decisions operators take about reviews
    CrashBound     \* bound on crashes of the server and of operator processes,
                   \* and on statements of an operator process that fail

ASSUME CountsAssumption ==
    /\ ReviewCount \in Nat /\ PrCount \in Nat /\ Copies \in Nat
    /\ DecisionBound \in Nat /\ CrashBound \in Nat
ASSUME CommitsAssumption == "none" \notin Commits

VARIABLES
    status,      \* reviews.status, "absent" before the row is inserted
    superseded,  \* reviews.superseded_at: the review that replaced this one
    url,         \* reviews.github_pr_url, 0 when null
    moderation,  \* the review's moderation_queue row: "open" is pending,
                 \* approved or changes_requested
    run,         \* the review run of the row, "dag" until it ends, if ever
    cause,       \* the commit whose re-review inserted the row, if any
    pr,          \* pull requests on GitHub
    marker,      \* the review id in a pull request's body
    pushed,      \* the pull request a commit was pushed to, 0 before
    request,     \* rereview_requests row of the commit and what its task did,
                 \* "over" when the task has ended, failed or been lost
    opening,     \* operator processes that open a pull request
    deciding,    \* status updates that commands in progress have yet to make
    seen,        \* webhook deliveries recorded in review_events
    tasks,       \* tasks the webhooks spawned
    listed,      \* what is left of the reconciler's current list
    decisions,   \* decisions of operators so far
    crashes      \* crashes so far

rows == <<status, superseded, url, moderation>>
github == <<pr, marker, pushed>>
vars == <<status, superseded, url, moderation, run, cause, pr, marker, pushed,
          request, opening, deciding, seen, tasks, listed, decisions, crashes>>

Reviews == 1..ReviewCount
Prs == 1..PrCount
NoCommit == "none"

\* Statuses of the partial unique index reviews_one_active_per_paper.
ActiveStatuses == {"awaiting_moderation", "pr_open", "published", "corrected"}
Statuses == ActiveStatuses \cup {"absent", "withdrawn", "rejected", "system_failed"}

\* A webhook event: the merge of a pull request, or a commit pushed to one.
Merges == {<<"merge", p>> : p \in Prs}
Pushes == {<<"synchronize", k>> : k \in Commits}

\* GitHub may deliver a push under several ids, numbered in the order they come
\* in; a second delivery of a merge would only finalize again.
Deliveries == Merges \X {1} \cup Pushes \X (1..Copies)

Openings == [step : {"idle", "checked", "opened", "marked", "linked"},
             review : 0..ReviewCount, pr : 0..PrCount, kind : {"publication", "revision"}]
Idle == [step |-> "idle", review |-> 0, pr |-> 0, kind |-> "publication"]

TypeOK ==
    /\ status \in [Reviews -> Statuses]
    /\ superseded \in [Reviews -> 0..ReviewCount]
    /\ url \in [Reviews -> 0..PrCount]
    /\ moderation \in [Reviews -> {"none", "open", "rejected", "superseded"}]
    /\ run \in [Reviews -> {"none", "dag", "over"}]
    /\ cause \in [Reviews -> Commits \cup {NoCommit}]
    /\ pr \in [Prs -> {"absent", "open", "closed", "merged"}]
    /\ marker \in [Prs -> 0..ReviewCount]
    /\ pushed \in [Commits -> 0..PrCount]
    /\ request \in [Commits -> {"none", "queued", "running", "done", "marked", "over"}]
    /\ opening \in [Openers -> Openings]
    /\ deciding \in SUBSET (Reviews \X {"rejected", "withdrawn", "published"})
    /\ seen \in SUBSET Deliveries
    /\ tasks \in SUBSET ({<<"finalize", r>> : r \in Reviews} \cup
                         {<<"synchronize", k>> : k \in Commits})
    /\ listed \in SUBSET (Reviews \X Prs)
    /\ decisions \in 0..DecisionBound /\ crashes \in 0..CrashBound

Init ==
    /\ status = [r \in Reviews |-> "absent"]
    /\ superseded = [r \in Reviews |-> 0]
    /\ url = [r \in Reviews |-> 0]
    /\ moderation = [r \in Reviews |-> "none"]
    /\ run = [r \in Reviews |-> "none"]
    /\ cause = [r \in Reviews |-> NoCommit]
    /\ pr = [p \in Prs |-> "absent"]
    /\ marker = [p \in Prs |-> 0]
    /\ pushed = [k \in Commits |-> 0]
    /\ request = [k \in Commits |-> "none"]
    /\ opening = [c \in Openers |-> Idle]
    /\ deciding = {}
    /\ seen = {} /\ tasks = {} /\ listed = {}
    /\ decisions = 0 /\ crashes = 0

Exists(r) == status[r] # "absent"
Active(r) == status[r] \in ActiveStatuses

\* set_review_status: unconditional, but for the unique index, which refuses
\* a second active review of the paper and leaves the row as it is.
StatusAllowed(r, s) ==
    s \in ActiveStatuses => \A q \in Reviews \ {r} : ~Active(q)

\* Mutant of SetStatus: there is no unique index.
SetStatusAnyway(r, s) == status' = [status EXCEPT ![r] = s]

SetStatus(r, s) ==
    status' = IF StatusAllowed(r, s) THEN [status EXCEPT ![r] = s] ELSE status

(***************************************************************************)
(* Review runs                                                             *)
(***************************************************************************)

\* insert_review: one transaction replaces the paper's active review.
InsertReview(r, why) ==
    LET replaced == {q \in Reviews : Active(q)}
    IN  /\ ~Exists(r) /\ \A q \in 1..r - 1 : Exists(q)
        /\ status' = [q \in Reviews |->
                         CASE q = r -> "awaiting_moderation"
                           [] q \in replaced -> "withdrawn"
                           [] OTHER -> status[q]]
        /\ superseded' = [q \in Reviews |-> IF q \in replaced THEN r ELSE superseded[q]]
        /\ moderation' = [q \in Reviews |->
                             IF q \in replaced /\ moderation[q] = "open"
                             THEN "superseded" ELSE moderation[q]]
        /\ run' = [run EXCEPT ![r] = "dag"]
        /\ cause' = [cause EXCEPT ![r] = why]
        /\ UNCHANGED url

StartReview(r) ==
    /\ InsertReview(r, NoCommit)
    /\ UNCHANGED <<github, request, opening, deciding, seen, tasks, listed, decisions,
                   crashes>>

\* The process that runs the review is alive: the server, for a re-review.
Running(r) ==
    run[r] = "dag" /\ \A k \in Commits : k = cause[r] => request[k] = "running"

\* The DAG's errors fail the row whatever became of it in the meantime.
FailReview(r) ==
    /\ Running(r)
    /\ run' = [run EXCEPT ![r] = "over"]
    /\ status' = [status EXCEPT ![r] = "system_failed"]
    /\ request' = [k \in Commits |-> IF k = cause[r] THEN "over" ELSE request[k]]
    /\ UNCHANGED <<superseded, url, moderation, cause, github, opening, deciding, seen,
                   tasks, listed, decisions, crashes>>

\* insert_moderation_pending does not look at the review either.
CompleteReview(r) ==
    /\ Running(r)
    /\ run' = [run EXCEPT ![r] = "over"]
    /\ moderation' = [moderation EXCEPT ![r] = "open"]
    /\ request' = [k \in Commits |-> IF k = cause[r] THEN "done" ELSE request[k]]
    /\ UNCHANGED <<status, superseded, url, cause, github, opening, deciding, seen,
                   tasks, listed, decisions, crashes>>

(***************************************************************************)
(* Opening the pull request of a review                                    *)
(***************************************************************************)
Step(c, s) == opening' = [opening EXCEPT ![c].step = s]

\* A review with a pull request keeps it.  A gate that does not pass opens a
\* revision-needed pull request instead, and asks for changes, which leaves
\* the moderation row open.
CheckReview(c, r, kind) ==
    /\ opening[c].step = "idle" /\ Exists(r) /\ url[r] = 0
    /\ opening' = [opening EXCEPT ![c] = [step |-> "checked", review |-> r, pr |-> 0,
                                          kind |-> kind]]
    /\ moderation' = IF kind = "revision" /\ moderation[r] # "none"
                     THEN [moderation EXCEPT ![r] = "open"] ELSE moderation
    /\ UNCHANGED <<status, superseded, url, run, cause, github, request, deciding,
                   seen, tasks, listed, decisions, crashes>>

\* open_review_pr: a new branch and a new pull request on every call.
OpenPr(c, p) ==
    /\ opening[c].step = "checked"
    /\ pr[p] = "absent" /\ \A q \in 1..p - 1 : pr[q] # "absent"
    /\ pr' = [pr EXCEPT ![p] = "open"]
    /\ marker' = [marker EXCEPT ![p] = opening[c].review]
    /\ opening' = [opening EXCEPT ![c].step = "opened", ![c].pr = p]
    /\ UNCHANGED <<rows, run, cause, pushed, request, deciding, seen, tasks, listed,
                   decisions, crashes>>

MarkPrOpen(c) ==
    /\ opening[c].step = "opened"
    /\ SetStatus(opening[c].review, "pr_open")
    /\ Step(c, "marked")
    /\ UNCHANGED <<superseded, url, moderation, run, cause, github, request, deciding,
                   seen, tasks, listed, decisions, crashes>>

AfterLink(c) ==
    IF opening[c].kind = "publication" THEN Step(c, "linked")
                                       ELSE opening' = [opening EXCEPT ![c] = Idle]

LinkPr(c) ==
    /\ opening[c].step = "marked"
    /\ url' = [url EXCEPT ![opening[c].review] = opening[c].pr]
    /\ AfterLink(c)
    /\ UNCHANGED <<status, superseded, moderation, run, cause, github, request,
                   deciding, seen, tasks, listed, decisions, crashes>>

\* The result of either update is dropped: an error leaves the row as it is, and
\* the process goes on.
UpdateFails(c) ==
    /\ crashes < CrashBound /\ crashes' = crashes + 1
    /\ \/ opening[c].step = "opened" /\ Step(c, "marked")
       \/ opening[c].step = "marked" /\ AfterLink(c)
    /\ UNCHANGED <<rows, run, cause, github, request, deciding, seen, tasks, listed,
                   decisions>>

\* close_superseded_pr_if_any: the pull request of the review that was
\* superseded last, if there is one.
SupersededWithPr ==
    {r \in Reviews : status[r] = "withdrawn" /\ superseded[r] # 0 /\ url[r] # 0}
CloseSuperseded(c) ==
    LET last == {r \in SupersededWithPr :
                    \A q \in SupersededWithPr : superseded[q] <= superseded[r]}
        old  == {url[r] : r \in last}
    IN  /\ opening[c].step = "linked"
        /\ pr' = [p \in Prs |-> IF p \in old /\ pr[p] = "open" THEN "closed" ELSE pr[p]]
        /\ opening' = [opening EXCEPT ![c] = Idle]
        /\ UNCHANGED <<rows, run, cause, marker, pushed, request, deciding, seen,
                       tasks, listed, decisions, crashes>>

(***************************************************************************)
(* Operator decisions                                                      *)
(***************************************************************************)
Decision == decisions < DecisionBound /\ decisions' = decisions + 1

Decide(r, s) ==
    /\ Decision
    /\ SetStatus(r, s)
    /\ UNCHANGED <<superseded, url, moderation, run, cause, github, request, opening,
                   deciding, seen, tasks, listed, crashes>>

\* `withdraw`, and `close` where there is no open pull request to close.
Withdraw(r) == Exists(r) /\ Decide(r, "withdrawn")
Correct(r) == Exists(r) /\ Decide(r, "corrected")

\* The command then starts a fresh run, StartReview.
RequestChanges(r) ==
    /\ Decision
    /\ moderation[r] # "none"
    /\ moderation' = [moderation EXCEPT ![r] = "open"]
    /\ UNCHANGED <<status, superseded, url, run, cause, github, request, opening,
                   deciding, seen, tasks, listed, crashes>>

\* A command goes on to its status update.  A review is rejected, closed or
\* approved by one command of a kind at a time.
Begin(r, s) == <<r, s>> \notin deciding /\ deciding' = deciding \cup {<<r, s>>}

\* The moderation row is rejected before the review is.
Reject(r) ==
    /\ Decision
    /\ moderation[r] # "none"
    /\ moderation' = [moderation EXCEPT ![r] = "rejected"]
    /\ Begin(r, "rejected")
    /\ UNCHANGED <<status, superseded, url, run, cause, github, request, opening, seen,
                   tasks, listed, crashes>>

\* `close` closes the review's pull request before it withdraws the review.
CloseReview(r) ==
    /\ Decision
    /\ Exists(r) /\ url[r] # 0 /\ pr[url[r]] = "open"
    /\ pr' = [pr EXCEPT ![url[r]] = "closed"]
    /\ IF status[r] # "withdrawn" THEN Begin(r, "withdrawn") ELSE UNCHANGED deciding
    /\ UNCHANGED <<rows, run, cause, marker, pushed, request, opening, seen, tasks,
                   listed, crashes>>

\* `approve` merges the pull request before it finalizes the review.
Approve(r) ==
    /\ Exists(r) /\ url[r] # 0 /\ pr[url[r]] = "open"
    /\ pr' = [pr EXCEPT ![url[r]] = "merged"]
    /\ Begin(r, "published")
    /\ UNCHANGED <<rows, run, cause, marker, pushed, request, opening, seen, tasks,
                   listed, decisions, crashes>>

\* The status update, whatever became of the review in the meantime.
FinishDecision(r, s) ==
    /\ <<r, s>> \in deciding
    /\ deciding' = deciding \ {<<r, s>>}
    /\ SetStatus(r, s)
    /\ UNCHANGED <<superseded, url, moderation, run, cause, github, request, opening,
                   seen, tasks, listed, decisions, crashes>>

\* The command is killed, or a statement between fails (the insert into
\* rejections or corrections), and its update is never made.
AbandonDecision(r, s) ==
    /\ crashes < CrashBound /\ crashes' = crashes + 1
    /\ <<r, s>> \in deciding
    /\ deciding' = deciding \ {<<r, s>>}
    /\ UNCHANGED <<rows, run, cause, github, request, opening, seen, tasks, listed,
                   decisions>>

(***************************************************************************)
(* Merges, webhooks and the reconciler                                     *)
(***************************************************************************)

\* finalize_published_review.  It skips a published review and overwrites any
\* other status, so that its read and its write are one action.
Finalize(r) == SetStatus(r, "published")

\* A maintainer merges on GitHub.
Merge(p) ==
    /\ pr[p] = "open"
    /\ pr' = [pr EXCEPT ![p] = "merged"]
    /\ UNCHANGED <<rows, run, cause, marker, pushed, request, opening, deciding, seen,
                   tasks, listed, decisions, crashes>>

\* An author pushes a commit to an open pull request.
Push(k, p) ==
    /\ pushed[k] = 0 /\ pr[p] = "open"
    /\ pushed' = [pushed EXCEPT ![k] = p]
    /\ UNCHANGED <<rows, run, cause, pr, marker, request, opening, deciding, seen,
                   tasks, listed, decisions, crashes>>

Happened(e) ==
    \/ \E p \in Prs : e = <<"merge", p>> /\ pr[p] = "merged"
    \/ \E k \in Commits : e = <<"synchronize", k>> /\ pushed[k] # 0

\* The delivery is recorded before its task is spawned; a second delivery with
\* the same id is acknowledged and ignored.
Deliver(d) ==
    /\ Happened(d[1]) /\ d \notin seen
    /\ \A i \in 1..d[2] - 1 : <<d[1], i>> \in seen
    /\ seen' = seen \cup {d}
    /\ tasks' = tasks \cup {IF d[1] \in Merges THEN <<"finalize", marker[d[1][2]]>>
                                             ELSE d[1]}
    /\ UNCHANGED <<rows, run, cause, github, request, opening, deciding, listed,
                   decisions, crashes>>

RunFinalizer(r) ==
    /\ <<"finalize", r>> \in tasks
    /\ tasks' = tasks \ {<<"finalize", r>>}
    /\ Finalize(r)
    /\ UNCHANGED <<superseded, url, moderation, run, cause, github, request, opening,
                   deciding, seen, listed, decisions, crashes>>

\* Mutant of HandleSynchronize: no `on conflict do nothing`.
HandleSynchronizeAgain(k) ==
    /\ <<"synchronize", k>> \in tasks
    /\ tasks' = tasks \ {<<"synchronize", k>>}
    /\ request' = [request EXCEPT ![k] = "queued"]
    /\ UNCHANGED <<rows, run, cause, github, opening, deciding, seen, listed,
                   decisions, crashes>>

\* enqueue_rereview_for_commit ignores a commit that has a request.
HandleSynchronize(k) ==
    /\ <<"synchronize", k>> \in tasks
    /\ tasks' = tasks \ {<<"synchronize", k>>}
    /\ request' = IF request[k] = "none" THEN [request EXCEPT ![k] = "queued"] ELSE request
    /\ UNCHANGED <<rows, run, cause, github, opening, deciding, seen, listed,
                   decisions, crashes>>

StartRereview(k, r) ==
    /\ request[k] = "queued"
    /\ request' = [request EXCEPT ![k] = "running"]
    /\ InsertReview(r, k)
    /\ UNCHANGED <<github, opening, deciding, seen, tasks, listed, decisions, crashes>>

\* The corrected source could not be prepared.
RereviewFails(k) ==
    /\ request[k] = "queued"
    /\ request' = [request EXCEPT ![k] = "over"]
    /\ UNCHANGED <<rows, run, cause, github, opening, deciding, seen, tasks, listed,
                   decisions, crashes>>

\* After its run a re-review takes over the pull request: status, then url.
TakeOverPr(k, r) ==
    /\ cause[r] = k
    /\ \/ /\ request[k] = "done"
          /\ SetStatus(r, "pr_open")
          /\ request' = [request EXCEPT ![k] = "marked"]
          /\ UNCHANGED url
       \/ /\ request[k] = "marked"
          /\ url' = [url EXCEPT ![r] = pushed[k]]
          /\ request' = [request EXCEPT ![k] = "over"]
          /\ UNCHANGED status
    /\ UNCHANGED <<superseded, moderation, run, cause, github, opening, deciding, seen,
                   tasks, listed, decisions, crashes>>

\* Mutant of ListPrOpen: a merge whose webhook was recorded needs no repair.
ListUndelivered ==
    /\ listed = {}
    /\ listed' = {<<r, url[r]>> : r \in
                     {q \in Reviews : /\ status[q] = "pr_open" /\ url[q] # 0
                                      /\ <<<<"merge", url[q]>>, 1>> \notin seen}}
    /\ UNCHANGED <<rows, run, cause, github, request, opening, deciding, seen, tasks,
                   decisions, crashes>>

\* A pass of the reconciler: the list, then its reviews one by one.
ListPrOpen ==
    /\ listed = {}
    /\ listed' = {<<r, url[r]>> : r \in {q \in Reviews : status[q] = "pr_open" /\ url[q] # 0}}
    /\ UNCHANGED <<rows, run, cause, github, request, opening, deciding, seen, tasks,
                   decisions, crashes>>

\* Mutant of Reconcile: a closed pull request is taken for a merged one.
ReconcileClosed(r, p) ==
    /\ <<r, p>> \in listed
    /\ listed' = listed \ {<<r, p>>}
    /\ IF pr[p] # "open" THEN Finalize(r) ELSE UNCHANGED status
    /\ UNCHANGED <<superseded, url, moderation, run, cause, github, request, opening,
                   deciding, seen, tasks, decisions, crashes>>

Reconcile(r, p) ==
    /\ <<r, p>> \in listed
    /\ listed' = listed \ {<<r, p>>}
    /\ IF pr[p] = "merged" THEN Finalize(r) ELSE UNCHANGED status
    /\ UNCHANGED <<superseded, url, moderation, run, cause, github, request, opening,
                   deciding, seen, tasks, decisions, crashes>>

\* A pull request that cannot be read, or a review that cannot be finalized, is
\* left for a later pass.
SkipListed(r, p) ==
    /\ <<r, p>> \in listed
    /\ listed' = listed \ {<<r, p>>}
    /\ UNCHANGED <<rows, run, cause, github, request, opening, deciding, seen, tasks,
                   decisions, crashes>>

\* The server forgets its tasks, its list and the re-reviews it was running:
\* nothing restarts a request that was recorded.
Crash ==
    /\ crashes < CrashBound /\ crashes' = crashes + 1
    /\ tasks' = {} /\ listed' = {}
    /\ request' = [k \in Commits |->
                      IF request[k] = "none" THEN "none" ELSE "over"]
    /\ UNCHANGED <<rows, run, cause, github, opening, deciding, seen, decisions>>

\* An operator process dies while it opens a pull request.  (One that runs a
\* review leaves its row as it is, like a run that never ends.)
KillOpener(c) ==
    /\ crashes < CrashBound /\ crashes' = crashes + 1
    /\ opening[c].step # "idle"
    /\ opening' = [opening EXCEPT ![c] = Idle]
    /\ UNCHANGED <<rows, run, cause, github, request, deciding, seen, tasks, listed,
                   decisions>>

Next ==
    \/ \E r \in Reviews :
        \/ StartReview(r) \/ FailReview(r) \/ CompleteReview(r)
        \/ Reject(r) \/ Withdraw(r) \/ Correct(r) \/ RequestChanges(r) \/ Approve(r)
        \/ CloseReview(r)
        \/ \E s \in {"rejected", "withdrawn", "published"} :
               FinishDecision(r, s) \/ AbandonDecision(r, s)
        \/ RunFinalizer(r)
        \/ \E p \in Prs : Reconcile(r, p) \/ SkipListed(r, p)
        \/ \E k \in Commits : StartRereview(k, r) \/ TakeOverPr(k, r)
    \/ \E c \in Openers :
        \/ \E r \in Reviews, kind \in {"publication", "revision"} : CheckReview(c, r, kind)
        \/ \E p \in Prs : OpenPr(c, p)
        \/ MarkPrOpen(c) \/ LinkPr(c) \/ UpdateFails(c) \/ CloseSuperseded(c)
        \/ KillOpener(c)
    \/ \E p \in Prs : Merge(p)
    \/ \E k \in Commits, p \in Prs : Push(k, p)
    \/ \E d \in Deliveries : Deliver(d)
    \/ \E k \in Commits : HandleSynchronize(k) \/ RereviewFails(k)
    \/ ListPrOpen \/ Crash

Spec == Init /\ [][Next]_vars

\* The reconciler's timer comes round, a pass ends, and some pass gets an answer
\* from GitHub; nothing is said of webhooks, operators or reviews.
FairSpec ==
    /\ Spec
    /\ WF_vars(ListPrOpen \/ \E r \in Reviews, p \in Prs : SkipListed(r, p))
    /\ SF_vars(\E r \in Reviews, p \in Prs : Reconcile(r, p))

(***************************************************************************)
(* Properties                                                              *)
(***************************************************************************)
\* The pull request was opened for the review, or for one whose correction
\* commit the review is about.
Carries(p, r) == marker[p] = r \/ \E k \in Commits : pushed[k] = p /\ cause[r] = k

\* No review is public as published, by whatever webhook, reconciler pass or
\* command, unless a pull request that carries it was merged.
PublishedWasMerged ==
    \A r \in Reviews :
        status[r] = "published" => \E p \in Prs : pr[p] = "merged" /\ Carries(p, r)

\* A correction commit is reviewed at most once, however often GitHub delivers
\* it and wherever the server crashes: once it has a review it is not queued
\* for another.
OneReviewPerCommit ==
    \A r \in Reviews :
        cause[r] # NoCommit =>
            /\ request[cause[r]] # "queued"
            /\ \A q \in Reviews \ {r} : cause[q] # cause[r]

\* Whatever commands, webhooks, re-reviews and crashes come together: the rows of
\* reviews take only the steps PaperReviews allows, so that one is active at a
\* time, and none awaits moderation twice.
Rows == INSTANCE PaperReviews
    WITH ReviewCount <- ReviewCount, status <- status, moderation <- moderation

RefinesRows == Rows!RowsSpec

\* A review whose stored pull request is merged does not wait in pr_open for
\* good, although webhooks are lost, recorded without effect or aimed at the
\* review it replaced, and passes fail: the reconciler repairs it.
AwaitsMerged(r) == status[r] = "pr_open" /\ url[r] # 0 /\ pr[url[r]] = "merged"

MergedReviewsAreRepaired == []<>(\A r \in Reviews : ~AwaitsMerged(r))
=============================================================================
