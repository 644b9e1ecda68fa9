----------------------------- MODULE ReviewTeam -----------------------------
(***************************************************************************)
(* The review of one paper by a team of agents.  A job inserts a review,   *)
(* lets the specialists answer side by side, verifies what they answered   *)
(* in the order of the manifest, lets the meta-reviewer synthesize it if   *)
(* enough of it is usable, and puts the review before a moderator.  What   *)
(* passed is cached, so that the next review of the paper need not pay for *)
(* it again.  A job whose error may be temporary starts over with a new    *)
(* review; a moderator may ask for one, too.                               *)
(*                                                                         *)
(* Every SQL statement and every call of an agent's CLI is an action.      *)
(* Reviews are numbered in the order of their rows.  An answer is told     *)
(* from others by its role and the review that paid for it; what stands    *)
(* for a failed agent quotes its error, so that two of them may differ.    *)
(* A row shows an answer as it was processed, with facts that its review   *)
(* gathered; caches and the synthesis are given the answer as it came.     *)
(* The paper does not change and the cache's 30 days do not pass.          *)
(***************************************************************************)
EXTENDS Integers, FiniteSets

CONSTANTS
    RoleCount,    \* specialists, by position in the manifest; citation is last
    Quorum,       \* min_usable of the manifest's gate
    Permits,      \* GROKRXIV_REVIEW_CONCURRENCY
    FactRoles,    \* roles whose postprocessor adds facts to what they answered
    LiveChecks,   \* GROKRXIV_REVIEW_CITATION_EXISTENCE
    Fallback,     \* AGENTHERO_CLI_QUOTA_FALLBACK_PROVIDER is set
    MaxRetries,   \* attempts of a job
    ReviewBound,  \* bound on the reviews of the paper
    FaultBound    \* bound on database errors and crashes

ASSUME CountsAssumption ==
    /\ RoleCount \in Nat \ {0} /\ Quorum \in 1..RoleCount /\ Permits \in Nat \ {0}
    /\ MaxRetries \in Nat \ {0} /\ ReviewBound \in Nat /\ FaultBound \in Nat
    /\ FactRoles \subseteq 1..RoleCount
    /\ LiveChecks \in BOOLEAN /\ Fallback \in BOOLEAN

VARIABLES
    phase,      \* where the job is
    job,        \* jobs.state
    attempt,    \* retries of the job so far
    asked,      \* the review whose moderator asked for this job, if any
    review,     \* the review of this attempt, 0 before its row
    count,      \* reviews inserted so far
    status,     \* reviews.status, "absent" before the row
    queue,      \* moderation_queue.state of a review, "none" without a row
    notes,      \* the review whose moderator's notes a review's prompts hold
    row,        \* review_agents by review and agent: the verdict of an answer and
                \* the review whose facts the output made of it holds, if any
    synthesis,  \* reviews.meta_review
    called,     \* the agents a review called
    task,       \* what the task of an agent is doing
    output,     \* what it returned
    fresh,      \* which was no cache hit
    next,       \* the role to verify
    cache,      \* review_cache of the specialists
    metaCache,  \* and of the meta-reviewer, by what it was given
    faults      \* database errors and crashes so far

run == <<job, attempt, asked, review>>
team == <<task, output, fresh, next>>
records == <<status, queue, notes, row, synthesis>>
caches == <<cache, metaCache>>
vars == <<phase, run, count, records, called, team, caches, faults>>

Roles == 1..RoleCount
Meta == 0
Agents == Roles \cup {Meta}
Citation == RoleCount
Reviews == 1..ReviewBound

\* Outputs: none yet, the stub of a failed agent, the answer a review paid for.
None == -1
Stub == 0
Outputs == Reviews \cup {None, Stub}
Bundles == [Roles -> Outputs]
GateFailed == -2

NoRow == [answer |-> None, facts |-> 0, verdict |-> "none"]
Calls == {"first", "corrective", "fallback", "fallback_corrective"}

JobOK ==
    /\ phase \in {"idle", "mark", "start", "panel", "verify", "gate", "meta", "verify_meta",
                  "set_meta", "enqueue", "mark_done", "error", "mark_failed"}
    /\ job \in {"none", "queued", "running", "done", "failed"}
    /\ attempt \in 0..MaxRetries - 1
    /\ asked \in 0..ReviewBound /\ review \in 0..ReviewBound /\ count \in 0..ReviewBound
    /\ next \in 1..RoleCount + 1
ReviewsOK ==
    /\ status \in [Reviews -> {"absent", "awaiting_moderation", "withdrawn", "system_failed"}]
    /\ queue \in [Reviews -> {"none", "pending", "changes_requested", "superseded"}]
    /\ notes \in [Reviews -> 0..ReviewBound]
    /\ synthesis \in [Reviews -> Outputs \cup {GateFailed}]
RowsOK ==
    row \in [Reviews -> [Agents -> [answer : Outputs, facts : 0..ReviewBound,
                                    verdict : {"none", "pass", "warn", "fail"}]]]
TeamOK ==
    /\ called \in [Reviews -> SUBSET Agents]
    /\ task \in [Agents -> {"none", "waiting", "done"} \cup Calls]
    /\ output \in [Agents -> Outputs]
    /\ fresh \in [Agents -> BOOLEAN]
CachesOK ==
    /\ cache \in [Roles -> Outputs]
    /\ metaCache \subseteq [bundle : Bundles, output : Outputs]
FaultsOK == faults \in 0..FaultBound
TypeOK == JobOK /\ ReviewsOK /\ RowsOK /\ TeamOK /\ CachesOK /\ FaultsOK

NoTeam ==
    /\ task' = [a \in Agents |-> "none"]
    /\ output' = [a \in Agents |-> None]
    /\ fresh' = [a \in Agents |-> FALSE]
    /\ next' = 1

Init ==
    /\ phase = "idle" /\ job = "none"
    /\ attempt = 0 /\ asked = 0 /\ review = 0 /\ count = 0
    /\ status = [r \in Reviews |-> "absent"]
    /\ queue = [r \in Reviews |-> "none"]
    /\ notes = [r \in Reviews |-> 0]
    /\ row = [r \in Reviews |-> [a \in Agents |-> NoRow]]
    /\ synthesis = [r \in Reviews |-> None]
    /\ called = [r \in Reviews |-> {}]
    /\ task = [a \in Agents |-> "none"]
    /\ output = [a \in Agents |-> None]
    /\ fresh = [a \in Agents |-> FALSE]
    /\ next = 1
    /\ cache = [i \in Roles |-> None] /\ metaCache = {}
    /\ faults = 0

Fault == faults < FaultBound /\ faults' = faults + 1

(***************************************************************************)
(* The job                                                                 *)
(***************************************************************************)
\* An operator, or the moderator of r, wants a review.
StartJob(r) ==
    /\ phase = "idle" /\ count < ReviewBound
    /\ r # 0 => queue[r] # "none"
    /\ queue' = [q \in Reviews |-> IF q = r THEN "changes_requested" ELSE queue[q]]
    /\ phase' = "mark" /\ job' = "queued" /\ attempt' = 0 /\ asked' = r /\ review' = 0
    /\ UNCHANGED <<count, status, notes, row, synthesis, called, team, caches, faults>>

MarkRunning ==
    /\ phase = "mark"
    /\ phase' = "start" /\ job' = "running" /\ review' = 0
    /\ UNCHANGED <<attempt, asked, count, records, called, team, caches, faults>>

\* Mutant of Replaced: what never came before a moderator is not replaced.
ReplacedOffered == {q \in Reviews : status[q] = "awaiting_moderation" /\ queue[q] # "none"}

Replaced == {q \in Reviews : status[q] = "awaiting_moderation"}

\* insert_review: one transaction withdraws what the paper had under review.
InsertReview(r) ==
    /\ r = count + 1 /\ r \in Reviews
    /\ count' = r /\ review' = r
    /\ status' = [q \in Reviews |-> CASE q = r -> "awaiting_moderation"
                                      [] q \in Replaced -> "withdrawn"
                                      [] OTHER -> status[q]]
    /\ queue' = [q \in Reviews |-> IF q \in Replaced /\ queue[q] # "none"
                                   THEN "superseded" ELSE queue[q]]

\* The notes are looked for after the row is inserted.
Requested == {q \in Reviews : queue'[q] = "changes_requested"}

LatestNotes == {n \in Requested : \A q \in Requested : q <= n}
                 \cup IF Requested = {} THEN {0} ELSE {}

\* An incomplete extraction ends the attempt before it has a row.
Extract ==
    /\ phase = "start" /\ phase' = "error"
    /\ UNCHANGED <<run, count, records, called, team, caches, faults>>

StartReview ==
    /\ phase = "start"
    /\ InsertReview(count + 1)
    /\ \E n \in LatestNotes : notes' = [notes EXCEPT ![review'] = n]
    /\ task' = [a \in Agents |-> IF a \in Roles THEN "waiting" ELSE "none"]
    /\ output' = [a \in Agents |-> None] /\ fresh' = [a \in Agents |-> FALSE] /\ next' = 1
    /\ phase' = "panel"
    /\ UNCHANGED <<job, attempt, asked, row, synthesis, called, caches, faults>>

(***************************************************************************)
(* Agents                                                                  *)
(***************************************************************************)
Goto(p) == phase' = p

Finish(a, out, paid) ==
    /\ task' = [task EXCEPT ![a] = "done"]
    /\ output' = [output EXCEPT ![a] = out]
    /\ fresh' = [fresh EXCEPT ![a] = paid]

Call(a) ==
    /\ task' = [task EXCEPT ![a] = "first"]
    /\ called' = [called EXCEPT ![review] = @ \cup {a}]
    /\ UNCHANGED <<output, fresh>>

\* Mutant of Busy: a permit is kept until the panel is over.
BusyOrDone == {a \in Agents : task[a] \in Calls \cup {"done"}}

Busy == {a \in Agents : task[a] \in Calls}

\* A lookup that fails counts as a miss.
Take(i) ==
    /\ phase = "panel" /\ task[i] = "waiting" /\ Cardinality(Busy) < Permits
    /\ \/ cache[i] # None /\ Finish(i, cache[i], FALSE) /\ UNCHANGED <<called, faults>>
       \/ cache[i] = None /\ Call(i) /\ UNCHANGED faults
       \/ cache[i] # None /\ Call(i) /\ Fault
    /\ UNCHANGED <<phase, run, count, records, next, caches>>

\* An answer that does not validate is asked for once more; an exhausted quota
\* is left to the fallback provider, which has none.
AfterCall(stage) ==
    (CASE stage = "first"    -> {"corrective"}
       [] stage = "fallback" -> {"fallback_corrective"}
       [] OTHER              -> {})
    \cup IF Fallback /\ stage \in {"first", "corrective"} THEN {"fallback"} ELSE {}

\* Errors, timeouts of the call and the supervisor's timeout for all calls of
\* the agent have one result.
CallReturns(a) ==
    /\ task[a] \in Calls
    /\ \/ \E out \in {review, Stub} : Finish(a, out, TRUE)
       \/ \E stage \in AfterCall(task[a]) :
            task' = [task EXCEPT ![a] = stage] /\ UNCHANGED <<output, fresh>>
    /\ phase' = IF a = Meta /\ task'[a] = "done" THEN "verify_meta" ELSE phase
    /\ UNCHANGED <<run, count, records, called, next, caches, faults>>

Collect ==
    /\ phase = "panel" /\ \A i \in Roles : task[i] = "done"
    /\ phase' = "verify"
    /\ UNCHANGED <<run, count, records, called, team, caches, faults>>

(***************************************************************************)
(* Verification                                                            *)
(***************************************************************************)
\* A specialist that failed fails verification, but for citation, whose stub is
\* judged by the live checks of the bibliography.  Without them no citation
\* output passes.  The meta-reviewer's stub is valid and has nothing to fail.
Verdicts(a, out) ==
    CASE a = Meta /\ out = Stub                                  -> {"pass", "warn"}
      [] a \in Roles /\ out = Stub /\ ~(a = Citation /\ LiveChecks) -> {"fail"}
      [] a = Citation /\ out # Stub /\ ~LiveChecks                -> {"warn"}
      [] OTHER                                                    -> {"pass", "warn", "fail"}

\* The postprocessors: what a review found out itself is added to the outputs of
\* some roles and to citation's stub, also where the answer is an earlier one's.
\* (What else they change follows from the answer.)
Facts(a, out, r) == IF a \in FactRoles \/ (a = Citation /\ out = Stub) THEN r ELSE 0

InsertRow(a, v) ==
    row' = [row EXCEPT ![review][a] =
               [answer |-> output[a], facts |-> Facts(a, output[a], review), verdict |-> v]]

\* Mutants of Cacheable: warnings are good enough, or roles wait for the last.
CacheableIfUsable(a, v) == fresh[a] /\ v # "fail"
CacheableAtEnd(a, v) == fresh[a] /\ v = "pass" /\ next >= RoleCount

Cacheable(a, v) == fresh[a] /\ v = "pass"

\* Errors of the cache are ignored.
Store(i, v) ==
    \/ /\ cache' = IF Cacheable(i, v) THEN [cache EXCEPT ![i] = output[i]] ELSE cache
       /\ UNCHANGED faults
    \/ Cacheable(i, v) /\ Fault /\ UNCHANGED cache

\* What the merge of facts made of an output is validated again.
Verify ==
    /\ phase = "verify"
    /\ \E v \in Verdicts(next, output[next]) :
        \/ /\ InsertRow(next, v) /\ Store(next, v)
           /\ next' = next + 1
           /\ phase' = IF next = RoleCount THEN "gate" ELSE "verify"
        \/ v # "fail" /\ phase' = "error" /\ UNCHANGED <<row, next, cache, faults>>
    /\ UNCHANGED <<run, count, status, queue, notes, synthesis, called, task, output, fresh, metaCache>>

\* Mutant of Usable: the specialists that answered.
UsableAnswers == {i \in Roles : output[i] # Stub}

Usable == {i \in Roles : row[review][i].verdict \in {"pass", "warn"}}

(***************************************************************************)
(* Synthesis                                                               *)
(***************************************************************************)
\* Mutant of Bundle: citation is no part of what the synthesis is about.
BundleWithoutCitation == [i \in Roles |-> IF i = Citation THEN None ELSE output[i]]

Bundle == [i \in Roles |-> output[i]]

Hits == {e \in metaCache : e.bundle = Bundle}

\* Then a hit is no certain one, and a new entry no certain replacement.
QuotesErrors == \E i \in Roles : output[i] = Stub

GateFails ==
    /\ phase = "gate" /\ Cardinality(Usable) < Quorum
    /\ synthesis' = [synthesis EXCEPT ![review] = GateFailed]
    /\ phase' = "enqueue"
    /\ UNCHANGED <<run, count, status, queue, notes, row, called, team, caches, faults>>

StartMeta ==
    /\ phase = "gate" /\ Cardinality(Usable) >= Quorum
    /\ \/ /\ \E e \in Hits : Finish(Meta, e.output, FALSE)
          /\ phase' = "verify_meta" /\ UNCHANGED <<called, faults>>
       \/ Hits = {} /\ Call(Meta) /\ phase' = "meta" /\ UNCHANGED faults
       \/ Hits # {} /\ QuotesErrors /\ Call(Meta) /\ phase' = "meta" /\ UNCHANGED faults
       \/ Hits # {} /\ ~QuotesErrors /\ Call(Meta) /\ phase' = "meta" /\ Fault
    /\ UNCHANGED <<run, count, records, next, caches>>

VerifyMeta ==
    /\ phase = "verify_meta" /\ phase' = "set_meta"
    /\ \E v \in Verdicts(Meta, output[Meta]) :
        /\ InsertRow(Meta, v)
        /\ \/ ~Cacheable(Meta, v) /\ UNCHANGED <<metaCache, faults>>
           \/ /\ Cacheable(Meta, v)
              /\ \E old \in {Hits} \cup (IF QuotesErrors THEN {{}} ELSE {}) :
                    metaCache' = (metaCache \ old) \cup {[bundle |-> Bundle, output |-> output[Meta]]}
              /\ UNCHANGED faults
           \/ Cacheable(Meta, v) /\ Fault /\ UNCHANGED metaCache
    /\ UNCHANGED <<run, count, status, queue, notes, synthesis, called, team, cache>>

SetMeta ==
    /\ phase = "set_meta" /\ phase' = "enqueue"
    /\ synthesis' = [synthesis EXCEPT ![review] = output[Meta]]
    /\ UNCHANGED <<run, count, status, queue, notes, row, called, team, caches, faults>>

(***************************************************************************)
(* The end of an attempt                                                   *)
(***************************************************************************)
\* An error of insert_moderation_pending is ignored.
Enqueue ==
    /\ phase = "enqueue" /\ phase' = "mark_done" /\ NoTeam
    /\ \/ queue' = [queue EXCEPT ![review] = "pending"] /\ UNCHANGED faults
       \/ Fault /\ UNCHANGED queue
    /\ UNCHANGED <<run, count, status, notes, row, synthesis, called, caches>>

MarkDone ==
    /\ phase = "mark_done" /\ phase' = "idle" /\ job' = "done"
    /\ UNCHANGED <<attempt, asked, review, count, records, called, team, caches, faults>>

\* Mutant of Fail: the row is given up with the job only.
FailLast ==
    /\ phase = "error" /\ NoTeam
    /\ \/ attempt + 1 < MaxRetries /\ count < ReviewBound
          /\ attempt' = attempt + 1 /\ phase' = "mark" /\ UNCHANGED status
       \/ /\ phase' = "mark_failed" /\ UNCHANGED attempt
          /\ status' = [r \in Reviews |-> IF r = review THEN "system_failed" ELSE status[r]]
    /\ UNCHANGED <<job, asked, review, count, queue, notes, row, synthesis, called, caches, faults>>

\* Whether an error may be temporary is guessed from its words.
Fail ==
    /\ phase = "error" /\ NoTeam
    /\ \/ attempt + 1 < MaxRetries /\ count < ReviewBound
          /\ attempt' = attempt + 1 /\ phase' = "mark"
       \/ phase' = "mark_failed" /\ UNCHANGED attempt
    /\ \/ /\ status' = [r \in Reviews |-> IF r = review THEN "system_failed" ELSE status[r]]
          /\ UNCHANGED faults
       \/ review # 0 /\ Fault /\ UNCHANGED status
    /\ UNCHANGED <<job, asked, review, count, queue, notes, row, synthesis, called, caches>>

MarkFailed ==
    /\ phase = "mark_failed" /\ phase' = "idle" /\ job' = "failed"
    /\ UNCHANGED <<attempt, asked, review, count, records, called, team, caches, faults>>

\* An error of the job's own row ends the job; others end its attempt, in the
\* panel before the specialists have started.
DatabaseError ==
    /\ Fault
    /\ \/ phase \in {"mark", "mark_done", "mark_failed"} /\ phase' = "idle"
       \/ /\ \/ phase \in {"start", "verify", "verify_meta", "set_meta"}
             \/ phase = "panel" /\ called[review] = {} /\ \A i \in Roles : task[i] = "waiting"
             \/ phase = "gate" /\ Cardinality(Usable) < Quorum
          /\ phase' = "error"
    /\ UNCHANGED <<run, count, records, called, team, caches>>

\* Nothing restarts the job, and its review stays as it is.
Crash ==
    /\ phase # "idle" /\ Fault /\ phase' = "idle" /\ NoTeam
    /\ UNCHANGED <<run, count, records, called, caches>>

Step ==
    \/ MarkRunning \/ Extract \/ StartReview \/ Collect \/ Verify \/ GateFails \/ StartMeta
    \/ VerifyMeta \/ SetMeta \/ Enqueue \/ MarkDone \/ Fail \/ MarkFailed
    \/ \E i \in Roles : Take(i)
    \/ \E a \in Agents : CallReturns(a)

Next == Step \/ (\E r \in 0..ReviewBound : StartJob(r)) \/ DatabaseError \/ Crash

Spec == Init /\ [][Next]_vars

\* Every call of an agent returns or times out; nobody has to start a job.
FairSpec == Spec /\ WF_vars(Step)

(***************************************************************************)
(* Properties                                                              *)
(***************************************************************************)
Complete(r) ==
    /\ \A i \in Roles : row[r][i] # NoRow
    /\ IF Cardinality({i \in Roles : row[r][i].verdict \in {"pass", "warn"}}) < Quorum
       THEN synthesis[r] = GateFailed /\ row[r][Meta] = NoRow
       ELSE row[r][Meta] # NoRow /\ synthesis[r] = row[r][Meta].answer

\* "Only completed reviews enter the moderation queue": what a moderator is
\* shown, or a job reports as done, has a verified row of every specialist and
\* a synthesis exactly if enough of them are usable, whatever failed or was
\* taken from the cache.
OfferedIsComplete ==
    \A r \in Reviews :
        queue[r] # "none" \/ (job = "done" /\ r = review) =>
            Complete(r) /\ status[r] # "system_failed"

\* No error path leaves a review on its "stale `awaiting_moderation` state":
\* but for crashes and errors of the database, a review that awaits a moderator
\* is in the queue or being made.
NoReviewIsStranded ==
    faults = 0 => \A r \in Reviews :
        status[r] = "awaiting_moderation" =>
            queue[r] \in {"pending", "changes_requested"} \/ (r = review /\ phase # "idle")

\* Whatever fails, is retried, crashes or is asked for again: of the rows of
\* reviews the job takes only the steps that PaperReviews allows, so that one
\* review is active at a time and none that failed comes before a moderator.
Moderation ==
    [r \in Reviews |->
        IF queue[r] \in {"pending", "changes_requested"} THEN "open" ELSE queue[r]]

Rows == INSTANCE PaperReviews
    WITH ReviewCount <- ReviewBound, status <- status, moderation <- Moderation

RefinesRows == Rows!RowsSpec

\* A synthesis was made of the very answers that became the rows beside it, also
\* when it was made for an earlier review.  It knows nothing of the facts in the
\* rows, and between the two reviews only they may differ.
SynthesisIsOfItsRows ==
    \A r \in Reviews : synthesis[r] \in Reviews =>
        \A i \in Roles : \E out \in Outputs \ {None} :
            \A q \in {r, synthesis[r]} :
                row[q][i].answer = out /\ row[q][i].facts = Facts(i, out, q)

\* What the cache offers was verified for some review, whose row was made of it:
\* failures get in only as stubs of citation, vouched for by live checks, or of
\* the synthesis.
CacheIsOnRecord ==
    /\ \A i \in Roles : cache[i] # None =>
        /\ \E r \in Reviews : row[r][i].answer = cache[i] /\ row[r][i].verdict = "pass"
        /\ cache[i] = Stub => i = Citation /\ LiveChecks
    /\ \A e \in metaCache : \E r \in Reviews :
        /\ row[r][Meta].answer = e.output /\ row[r][Meta].verdict = "pass"
        /\ \A i \in Roles : row[r][i].answer = e.bundle[i]

\* Re-reviewing a paper, as a retry or on request, pays no agent again for what
\* passed in an earlier review, even if that review failed in the end.
PassedIsNotPaidAgain ==
    faults = 0 => \A q, r \in Reviews : q < r =>
        /\ \A i \in Roles : row[q][i].verdict = "pass" => i \notin called[r]
        /\ /\ row[q][Meta].verdict = "pass"
           /\ \A i \in Roles : row[r][i].answer \in Reviews /\ row[q][i].answer = row[r][i].answer
           => Meta \notin called[r]

\* Every job ends, with all permits taken, calls repeated or agents silent.
JobsEnd == [](phase # "idle" => <>(phase = "idle"))

\* What the comment on `request_changes` says: the new pass gets the notes the
\* moderator just wrote and threads them into the prompts.
NotesReachTheAgents ==
    asked # 0 /\ review # 0 => notes[review] = asked
=============================================================================
