------------------------ MODULE ReviewLifecycleProofs ------------------------
(***************************************************************************)
(* What TLAPS proves of ReviewLifecycle, for any number of reviews, pull   *)
(* requests, commits, operator processes and crashes.  Whatever may make a *)
(* review published traces back to a merge of a pull request that carries  *)
(* it: a webhook's task, an entry of the reconciler's list, the url in the *)
(* review's row and the update that `approve` has yet to make.  A commit's *)
(* request is made once, and its review after it.                          *)
(***************************************************************************)
EXTENDS ReviewLifecycle, TLAPS

\* A row that was not inserted is blank; a review that is being written has
\* no moderation row and has not failed.
RowsBegin ==
    \A r \in Reviews :
        /\ status[r] = "absent" =>
              moderation[r] = "none" /\ run[r] = "none" /\ cause[r] = NoCommit
                      /\ url[r] = 0
        /\ run[r] = "dag" => moderation[r] = "none" /\ status[r] # "system_failed"

\* A pull request that was not opened is blank, and one that was names a review.
PrsBegin ==
    \A p \in Prs :
        /\ pr[p] = "absent" => marker[p] = 0 /\ \A k \in Commits : pushed[k] # p
        /\ pr[p] # "absent" => marker[p] \in Reviews /\ Exists(marker[p])

\* A process that opens a pull request opens it for the review it goes on with.
OpeningsCarry ==
    \A c \in Openers : opening[c].step # "idle" =>
        /\ opening[c].review \in Reviews /\ Exists(opening[c].review)
        /\ opening[c].step # "checked" =>
              opening[c].pr \in Prs /\ marker[opening[c].pr] = opening[c].review

\* The pull request in a review's row carries it, and so did the one the
\* reconciler listed with it.
UrlsCarry == \A r \in Reviews : url[r] # 0 => Carries(url[r], r)
ListedCarry == \A r \in Reviews, p \in Prs : <<r, p>> \in listed => Carries(p, r)

\* Tasks stem from what happened on GitHub, however they were delivered.
TasksFollowEvents ==
    /\ \A r \in Reviews : <<"finalize", r>> \in tasks =>
          \E p \in Prs : pr[p] = "merged" /\ marker[p] = r
    /\ \A k \in Commits : <<"synchronize", k>> \in tasks => pushed[k] # 0

RequestsFollowPushes == \A k \in Commits : request[k] # "none" => pushed[k] # 0

\* A commit that caused a review has been requested.
CausesAreRequested == \A r \in Reviews : cause[r] # NoCommit =>
        request[cause[r]] # "none"

\* A review whose DAG failed never enters moderation
\* (`insert_moderation_pending`).
FailedIsNotModerated ==
    \A r \in Reviews : status[r] = "system_failed" => moderation[r] = "none"

\* A status update is pending only of a review that exists, after its moderation
\* row was rejected or after a pull request that carries it was merged.
DecisionsFollow ==
    \A r \in Reviews, s \in {"rejected", "withdrawn", "published"} :
        <<r, s>> \in deciding =>
            /\ Exists(r)
            /\ s = "rejected" => moderation[r] # "none"
            /\ s = "published" => \E p \in Prs : pr[p] = "merged" /\ Carries(p, r)

\* The inductive invariant: what the tables, GitHub and the tasks say of each
\* other, and what pending updates rest on.
Core ==
    /\ TypeOK
    /\ RowsBegin
    /\ PrsBegin
    /\ OpeningsCarry
    /\ UrlsCarry
    /\ ListedCarry
    /\ TasksFollowEvents
    /\ RequestsFollowPushes
    /\ CausesAreRequested
    /\ PublishedWasMerged
    /\ OneReviewPerCommit
    /\ FailedIsNotModerated

IInv == Core /\ DecisionsFollow

-----------------------------------------------------------------------------

\* The vocabulary of the module is expanded in every proof below.
USE CountsAssumption, CommitsAssumption
USE DEF Reviews, Prs, NoCommit, ActiveStatuses, Statuses, Idle, Exists, rows, github

\* A status write changes one row, if the unique index lets it.
LEMMA SetStatusEffect ==
    ASSUME TypeOK, NEW r \in Reviews, NEW s \in Statuses, SetStatus(r, s)
    PROVE  /\ status' \in [Reviews -> Statuses]
           /\ \A q \in Reviews : status'[q] = status[q] \/ (q = r /\ status'[q] = s)
<1>1. CASE StatusAllowed(r, s)
    BY <1>1 DEF TypeOK, SetStatus
<1>2. CASE ~StatusAllowed(r, s)
    BY <1>2 DEF TypeOK, SetStatus
<1> QED BY <1>1, <1>2

\* The steps of opening a pull request keep the type of its process.
LEMMA OpeningsClosed ==
    /\ Idle \in Openings
    /\ \A o \in Openings, s \in {"marked", "linked"} : [o EXCEPT !.step = s] \in
            Openings
    /\ \A o \in Openings, p \in Prs : [o EXCEPT !.step = "opened", !.pr = p] \in
            Openings
<1>1. Idle \in Openings
    BY DEF Openings
<1>2. ASSUME NEW o \in Openings, NEW s \in {"marked", "linked"}
      PROVE  [o EXCEPT !.step = s] \in Openings
    BY DEF Openings
<1>3. ASSUME NEW o \in Openings, NEW p \in Prs
      PROVE  [o EXCEPT !.step = "opened", !.pr = p] \in Openings
    <2>1. p \in 0..PrCount
        OBVIOUS
    <2> HIDE DEF Prs
    <2> QED BY <2>1 DEF Openings
<1> QED BY <1>1, <1>2, <1>3

LEMMA StartReviewStep ==
    ASSUME IInv, NEW r \in Reviews, StartReview(r)
    PROVE  Core'
<1> USE DEF IInv, Core, StartReview, InsertReview
<1>1. TypeOK'
    <2>1. status' \in [Reviews -> Statuses]
        BY DEF TypeOK
    <2>2. superseded' \in [Reviews -> 0..ReviewCount]
        BY DEF TypeOK
    <2>3. moderation' \in [Reviews -> {"none", "open", "rejected", "superseded"}]
        BY DEF TypeOK
    <2>4. run' \in [Reviews -> {"none", "dag", "over"}]
        BY DEF TypeOK
    <2>5. cause' \in [Reviews -> Commits \cup {NoCommit}]
        BY DEF TypeOK
    <2> QED BY <2>1, <2>2, <2>3, <2>4, <2>5 DEF TypeOK
<1>2. RowsBegin'
    BY DEF TypeOK, RowsBegin
<1>3. PrsBegin'
    BY DEF TypeOK, PrsBegin
<1>4. OpeningsCarry'
    BY DEF TypeOK, OpeningsCarry
<1>5. UrlsCarry'
    BY DEF TypeOK, UrlsCarry, PrsBegin, RowsBegin, Carries
<1>6. ListedCarry'
    BY DEF TypeOK, ListedCarry, PrsBegin, RowsBegin, Carries
<1>7. CausesAreRequested'
    BY DEF TypeOK, CausesAreRequested
<1>8. PublishedWasMerged'
    BY DEF TypeOK, PublishedWasMerged, PrsBegin, RowsBegin, Carries
<1>9. OneReviewPerCommit'
    BY DEF TypeOK, OneReviewPerCommit, CausesAreRequested, RowsBegin
<1>10. FailedIsNotModerated'
    BY DEF TypeOK, FailedIsNotModerated, RowsBegin
<1> QED BY <1>1, <1>2, <1>3, <1>4, <1>5, <1>6, <1>7, <1>8, <1>9, <1>10 DEF
        TasksFollowEvents, RequestsFollowPushes

LEMMA FailReviewStep ==
    ASSUME IInv, NEW r \in Reviews, FailReview(r)
    PROVE  Core'
<1> USE DEF IInv, Core, FailReview, Running
<1>1. TypeOK'
    BY DEF TypeOK
<1>2. RowsBegin'
    BY DEF TypeOK, RowsBegin
<1>3. PrsBegin'
    BY DEF TypeOK, PrsBegin
<1>4. OpeningsCarry'
    BY DEF TypeOK, OpeningsCarry
<1>5. RequestsFollowPushes'
    BY DEF TypeOK, RequestsFollowPushes
<1>6. CausesAreRequested'
    BY DEF TypeOK, CausesAreRequested
<1>7. PublishedWasMerged'
    BY DEF TypeOK, PublishedWasMerged, PrsBegin, RowsBegin, Carries
<1>8. OneReviewPerCommit'
    BY DEF TypeOK, OneReviewPerCommit, CausesAreRequested, RowsBegin
<1>9. FailedIsNotModerated'
    BY DEF TypeOK, FailedIsNotModerated, RowsBegin
<1> QED BY <1>1, <1>2, <1>3, <1>4, <1>5, <1>6, <1>7, <1>8, <1>9 DEF UrlsCarry,
        ListedCarry, TasksFollowEvents, Carries

LEMMA CompleteReviewStep ==
    ASSUME IInv, NEW r \in Reviews, CompleteReview(r)
    PROVE  Core'
<1> USE DEF IInv, Core, CompleteReview, Running
<1>1. TypeOK'
    BY DEF TypeOK
<1>2. RowsBegin'
    BY DEF TypeOK, RowsBegin
<1>3. RequestsFollowPushes'
    BY DEF TypeOK, RequestsFollowPushes
<1>4. CausesAreRequested'
    BY DEF TypeOK, CausesAreRequested
<1>5. OneReviewPerCommit'
    BY DEF TypeOK, OneReviewPerCommit, CausesAreRequested, RowsBegin
<1>6. FailedIsNotModerated'
    BY DEF TypeOK, FailedIsNotModerated, RowsBegin
<1> QED BY <1>1, <1>2, <1>3, <1>4, <1>5, <1>6 DEF PrsBegin, OpeningsCarry,
        UrlsCarry, ListedCarry, TasksFollowEvents, PublishedWasMerged, Carries

LEMMA CheckReviewStep ==
    ASSUME IInv, NEW c \in Openers, NEW r \in Reviews, NEW kind \in
           {"publication", "revision"}, CheckReview(c, r, kind)
    PROVE  Core'
<1> USE DEF IInv, Core, CheckReview
<1>1. TypeOK'
    <2>1. opening' \in [Openers -> Openings]
        BY DEF TypeOK, Openings
    <2>2. moderation' \in [Reviews -> {"none", "open", "rejected", "superseded"}]
        BY DEF TypeOK
    <2> QED BY <2>1, <2>2 DEF TypeOK
<1>2. RowsBegin'
    BY DEF TypeOK, RowsBegin
<1>3. OpeningsCarry'
    BY DEF TypeOK, OpeningsCarry
<1>4. FailedIsNotModerated'
    BY DEF TypeOK, FailedIsNotModerated, RowsBegin
<1> QED BY <1>1, <1>2, <1>3, <1>4 DEF PrsBegin, UrlsCarry, ListedCarry,
        TasksFollowEvents, RequestsFollowPushes, CausesAreRequested,
        PublishedWasMerged, OneReviewPerCommit, Carries

LEMMA OpenPrStep ==
    ASSUME IInv, NEW c \in Openers, NEW p \in Prs, OpenPr(c, p)
    PROVE  Core'
<1> USE DEF IInv, Core, OpenPr
<1>1. TypeOK'
    <2>1. pr' \in [Prs -> {"absent", "open", "closed", "merged"}]
        BY DEF TypeOK
    <2>2. marker' \in [Prs -> 0..ReviewCount]
        BY DEF TypeOK, OpeningsCarry
    <2>3. opening' \in [Openers -> Openings]
        <3>1. opening[c] \in Openings
            BY DEF TypeOK
        <3>2. [opening[c] EXCEPT !.step = "opened", !.pr = p] \in Openings
            BY <3>1, OpeningsClosed
        <3>3. opening' = [opening EXCEPT ![c] = [opening[c] EXCEPT !.step =
                "opened", !.pr = p]]
            BY DEF TypeOK
        <3> QED BY <3>2, <3>3 DEF TypeOK
    <2> QED BY <2>1, <2>2, <2>3 DEF TypeOK
<1>2. PrsBegin'
    BY DEF TypeOK, PrsBegin, OpeningsCarry
<1>3. OpeningsCarry'
    <2>1. opening[c] \in Openings /\ opening[c].review \in Reviews /\ Exists(opening[c].review)
        BY DEF TypeOK, OpeningsCarry
    <2>2. /\ \A e \in Openers \ {c} : opening'[e] = opening[e]
          /\ opening'[c] = [opening[c] EXCEPT !.step = "opened", !.pr = p]
        BY DEF TypeOK
    <2>3. opening'[c].review = opening[c].review /\ opening'[c].pr = p
        <3>1. ASSUME NEW o \in Openings
              PROVE  /\ [o EXCEPT !.step = "opened", !.pr = p].review = o.review
                     /\ [o EXCEPT !.step = "opened", !.pr = p].pr = p
            BY DEF Openings
        <3> QED BY <2>1, <2>2, <3>1
    <2>4. /\ status' = status /\ marker'[p] = opening[c].review
          /\ \A q \in Prs \ {p} : marker'[q] = marker[q]
        BY DEF TypeOK
    <2>5. \A e \in Openers : opening[e].step \notin {"idle", "checked"} => opening[e].pr # p
        BY DEF OpeningsCarry, PrsBegin
    <2>6. ASSUME NEW e \in Openers \ {c}, opening[e].step # "idle"
          PROVE  /\ opening[e].review \in Reviews /\ Exists(opening[e].review)
                 /\ opening[e].step # "checked" =>
                       opening[e].pr \in Prs /\ marker'[opening[e].pr] = opening[e].review
        BY <2>4, <2>5, <2>6 DEF OpeningsCarry
    <2>7. /\ opening'[c].review \in Reviews /\ Exists(opening'[c].review)
          /\ opening'[c].pr \in Prs /\ marker'[opening'[c].pr] = opening'[c].review
        BY <2>1, <2>3, <2>4
    <2>8. ASSUME NEW e \in Openers, opening'[e].step # "idle"
          PROVE  /\ opening'[e].review \in Reviews /\ Exists(opening'[e].review)
                 /\ opening'[e].step # "checked" =>
                       opening'[e].pr \in Prs /\ marker'[opening'[e].pr] = opening'[e].review
        <3>1. CASE e = c
            BY <2>7, <3>1
        <3>2. CASE e # c
            BY <2>2, <2>6, <2>8, <3>2
        <3> QED BY <3>1, <3>2
    <2> HIDE DEF IInv, OpenPr
    <2> QED BY <2>4, <2>8 DEF OpeningsCarry, Exists
<1>4. UrlsCarry'
    BY DEF TypeOK, UrlsCarry, PrsBegin, RowsBegin, Carries
<1>5. ListedCarry'
    BY DEF TypeOK, ListedCarry, PrsBegin, RowsBegin, Carries
<1>6. TasksFollowEvents'
    BY DEF TypeOK, TasksFollowEvents, PrsBegin
<1>7. PublishedWasMerged'
    <2> SUFFICES ASSUME NEW r \in Reviews, status[r] = "published"
                 PROVE  \E q \in Prs : pr'[q] = "merged" /\ Carries(q, r)'
        BY DEF PublishedWasMerged
    <2>1. PICK q \in Prs : pr[q] = "merged" /\ Carries(q, r)
        BY DEF PublishedWasMerged
    <2>2. q # p /\ pr'[q] = "merged" /\ marker'[q] = marker[q]
        BY <2>1 DEF TypeOK
    <2> QED BY <2>1, <2>2 DEF Carries
<1> QED BY <1>1, <1>2, <1>3, <1>4, <1>5, <1>6, <1>7 DEF RowsBegin,
        RequestsFollowPushes, CausesAreRequested, OneReviewPerCommit,
        FailedIsNotModerated

LEMMA MarkPrOpenStep ==
    ASSUME IInv, NEW c \in Openers, MarkPrOpen(c)
    PROVE  Core'
<1> USE DEF IInv, Core, MarkPrOpen, SetStatus, Step
<1>1. TypeOK'
    <2>1. status' \in [Reviews -> Statuses]
        BY DEF TypeOK, OpeningsCarry
    <2>2. opening' \in [Openers -> Openings]
        <3>1. opening[c] \in Openings
            BY DEF TypeOK
        <3>2. [opening[c] EXCEPT !.step = "marked"] \in Openings
            BY <3>1, OpeningsClosed
        <3>3. opening' = [opening EXCEPT ![c] = [opening[c] EXCEPT !.step =
                "marked"]]
            BY DEF TypeOK
        <3> QED BY <3>2, <3>3 DEF TypeOK
    <2> QED BY <2>1, <2>2 DEF TypeOK
<1>2. RowsBegin'
    BY DEF TypeOK, RowsBegin, OpeningsCarry
<1>3. PrsBegin'
    BY DEF TypeOK, PrsBegin, OpeningsCarry
<1>4. OpeningsCarry'
    BY DEF TypeOK, OpeningsCarry
<1>5. PublishedWasMerged'
    BY DEF TypeOK, PublishedWasMerged, PrsBegin, RowsBegin, Carries, OpeningsCarry
<1>6. FailedIsNotModerated'
    BY DEF TypeOK, FailedIsNotModerated, RowsBegin, OpeningsCarry
<1> QED BY <1>1, <1>2, <1>3, <1>4, <1>5, <1>6 DEF UrlsCarry, ListedCarry,
        TasksFollowEvents, RequestsFollowPushes, CausesAreRequested,
        OneReviewPerCommit, Carries

LEMMA LinkPrStep ==
    ASSUME IInv, NEW c \in Openers, LinkPr(c)
    PROVE  Core'
<1> USE DEF IInv, Core, LinkPr, AfterLink, Step
<1>1. TypeOK'
    <2>1. url' \in [Reviews -> 0..PrCount]
        BY DEF TypeOK, OpeningsCarry
    <2>2. opening' \in [Openers -> Openings]
        <3>1. CASE opening[c].kind = "publication"
            <4>1. [opening[c] EXCEPT !.step = "linked"] \in Openings
                BY OpeningsClosed DEF TypeOK
            <4>2. opening' = [opening EXCEPT ![c] = [opening[c] EXCEPT !.step =
                    "linked"]]
                BY <3>1 DEF TypeOK
            <4> QED BY <4>1, <4>2 DEF TypeOK
        <3>2. CASE opening[c].kind # "publication"
            BY <3>2, OpeningsClosed DEF TypeOK
        <3> QED BY <3>1, <3>2
    <2> QED BY <2>1, <2>2 DEF TypeOK
<1>2. RowsBegin'
    BY DEF TypeOK, RowsBegin, OpeningsCarry
<1>3. OpeningsCarry'
    <2>1. opening[c] \in Openings
        BY DEF TypeOK
    <2>2. /\ \A e \in Openers \ {c} : opening'[e] = opening[e]
          /\ \/ opening'[c] = Idle
             \/ opening'[c] = [opening[c] EXCEPT !.step = "linked"]
        BY DEF TypeOK
    <2>3. UNCHANGED <<status, marker>>
        OBVIOUS
    <2> QED BY <2>1, <2>2, <2>3 DEF OpeningsCarry, Openings
<1>4. UrlsCarry'
    <2>1. opening[c].pr \in Prs /\ marker[opening[c].pr] = opening[c].review
        BY DEF OpeningsCarry
    <2>2. \A r \in Reviews :
            url'[r] = url[r] \/ (r = opening[c].review /\ url'[r] = opening[c].pr)
        BY DEF TypeOK
    <2>3. UNCHANGED <<marker, pushed, cause>>
        OBVIOUS
    <2> QED BY <2>1, <2>2, <2>3 DEF UrlsCarry, Carries
<1> QED BY <1>1, <1>2, <1>3, <1>4 DEF PrsBegin, ListedCarry, TasksFollowEvents,
        RequestsFollowPushes, CausesAreRequested, PublishedWasMerged,
        OneReviewPerCommit, FailedIsNotModerated, Carries

LEMMA UpdateFailsStep ==
    ASSUME IInv, NEW c \in Openers, UpdateFails(c)
    PROVE  Core'
<1> USE DEF IInv, Core, UpdateFails, AfterLink, Step
<1>1. \/ opening' = [opening EXCEPT ![c] = Idle]
      \/ \E s \in {"marked", "linked"} :
            opening' = [opening EXCEPT ![c] = [opening[c] EXCEPT !.step = s]]
    BY DEF TypeOK
<1>2. opening[c] \in Openings /\ opening[c].step \in {"opened", "marked"}
    BY DEF TypeOK
<1>3. TypeOK'
    <2>1. opening' \in [Openers -> Openings]
        <3>1. CASE opening' = [opening EXCEPT ![c] = Idle]
            BY <3>1, OpeningsClosed DEF TypeOK
        <3>2. ASSUME NEW s \in {"marked", "linked"},
                     opening' = [opening EXCEPT ![c] = [opening[c] EXCEPT !.step = s]]
              PROVE  opening' \in [Openers -> Openings]
            <4>1. [opening[c] EXCEPT !.step = s] \in Openings
                BY <1>2, OpeningsClosed
            <4> QED BY <3>2, <4>1 DEF TypeOK
        <3> QED BY <1>1, <3>1, <3>2
    <2>2. crashes' \in 0..CrashBound
        BY DEF TypeOK
    <2> QED BY <2>1, <2>2 DEF TypeOK
<1>4. OpeningsCarry'
    <2>1. /\ \A e \in Openers \ {c} : opening'[e] = opening[e]
          /\ \/ opening'[c] = Idle
             \/ \E s \in {"marked", "linked"} :
                    opening'[c] = [opening[c] EXCEPT !.step = s]
        BY <1>1 DEF TypeOK
    <2>2. UNCHANGED <<status, marker>>
        OBVIOUS
    <2> QED BY <1>2, <2>1, <2>2 DEF OpeningsCarry, Openings
<1> QED BY <1>3, <1>4 DEF RowsBegin, PrsBegin, UrlsCarry, ListedCarry,
        TasksFollowEvents, RequestsFollowPushes, CausesAreRequested,
        PublishedWasMerged, OneReviewPerCommit, FailedIsNotModerated, Carries

LEMMA CloseSupersededStep ==
    ASSUME IInv, NEW c \in Openers, CloseSuperseded(c)
    PROVE  Core'
<1> USE DEF IInv, Core, CloseSuperseded
<1>1. TypeOK'
    <2>1. pr' \in [Prs -> {"absent", "open", "closed", "merged"}]
        BY DEF TypeOK
    <2>2. opening' \in [Openers -> Openings]
        BY OpeningsClosed DEF TypeOK
    <2> QED BY <2>1, <2>2 DEF TypeOK
<1>2. PrsBegin'
    BY DEF TypeOK, PrsBegin
<1>3. OpeningsCarry'
    BY DEF TypeOK, OpeningsCarry
<1>4. TasksFollowEvents'
    BY DEF TypeOK, TasksFollowEvents, PrsBegin
<1>5. PublishedWasMerged'
    BY DEF TypeOK, PublishedWasMerged, PrsBegin, RowsBegin, Carries
<1> QED BY <1>1, <1>2, <1>3, <1>4, <1>5 DEF RowsBegin, UrlsCarry, ListedCarry,
        RequestsFollowPushes, CausesAreRequested, OneReviewPerCommit,
        FailedIsNotModerated, Carries

LEMMA RejectStep ==
    ASSUME IInv, NEW r \in Reviews, Reject(r)
    PROVE  Core'
<1> USE DEF IInv, Core, Reject, Decision, Begin
<1>1. TypeOK'
    <2>1. moderation' \in [Reviews -> {"none", "open", "rejected", "superseded"}]
        BY DEF TypeOK
    <2>2. decisions' \in 0..DecisionBound
        BY DEF TypeOK
    <2>3. deciding' \in SUBSET (Reviews \X {"rejected", "withdrawn", "published"})
        BY DEF TypeOK
    <2> QED BY <2>1, <2>2, <2>3 DEF TypeOK
<1>2. RowsBegin'
    BY DEF TypeOK, RowsBegin
<1>3. FailedIsNotModerated'
    BY DEF TypeOK, FailedIsNotModerated, RowsBegin
<1> QED BY <1>1, <1>2, <1>3 DEF PrsBegin, OpeningsCarry, UrlsCarry, ListedCarry,
        TasksFollowEvents, RequestsFollowPushes, CausesAreRequested,
        PublishedWasMerged, OneReviewPerCommit, Carries

LEMMA WithdrawStep ==
    ASSUME IInv, NEW r \in Reviews, Withdraw(r)
    PROVE  Core'
<1> USE DEF IInv, Core, Withdraw, Decide, Decision, SetStatus
<1>1. TypeOK'
    <2>1. status' \in [Reviews -> Statuses]
        BY DEF TypeOK
    <2>2. decisions' \in 0..DecisionBound
        BY DEF TypeOK
    <2> QED BY <2>1, <2>2 DEF TypeOK
<1>2. RowsBegin'
    BY DEF TypeOK, RowsBegin
<1>3. PrsBegin'
    BY DEF TypeOK, PrsBegin
<1>4. OpeningsCarry'
    BY DEF TypeOK, OpeningsCarry
<1>5. PublishedWasMerged'
    BY DEF TypeOK, PublishedWasMerged, PrsBegin, RowsBegin, Carries
<1>6. FailedIsNotModerated'
    BY DEF TypeOK, FailedIsNotModerated, RowsBegin
<1> QED BY <1>1, <1>2, <1>3, <1>4, <1>5, <1>6 DEF UrlsCarry, ListedCarry,
        TasksFollowEvents, RequestsFollowPushes, CausesAreRequested,
        OneReviewPerCommit, Carries

LEMMA CorrectStep ==
    ASSUME IInv, NEW r \in Reviews, Correct(r)
    PROVE  Core'
<1> USE DEF IInv, Core, Correct, Decide, Decision, SetStatus
<1>1. TypeOK'
    <2>1. status' \in [Reviews -> Statuses]
        BY DEF TypeOK
    <2>2. decisions' \in 0..DecisionBound
        BY DEF TypeOK
    <2> QED BY <2>1, <2>2 DEF TypeOK
<1>2. RowsBegin'
    BY DEF TypeOK, RowsBegin
<1>3. PrsBegin'
    BY DEF TypeOK, PrsBegin
<1>4. OpeningsCarry'
    BY DEF TypeOK, OpeningsCarry
<1>5. PublishedWasMerged'
    BY DEF TypeOK, PublishedWasMerged, PrsBegin, RowsBegin, Carries
<1>6. FailedIsNotModerated'
    BY DEF TypeOK, FailedIsNotModerated, RowsBegin
<1> QED BY <1>1, <1>2, <1>3, <1>4, <1>5, <1>6 DEF UrlsCarry, ListedCarry,
        TasksFollowEvents, RequestsFollowPushes, CausesAreRequested,
        OneReviewPerCommit, Carries

LEMMA RequestChangesStep ==
    ASSUME IInv, NEW r \in Reviews, RequestChanges(r)
    PROVE  Core'
<1> USE DEF IInv, Core, RequestChanges, Decision
<1>1. TypeOK'
    <2>1. moderation' \in [Reviews -> {"none", "open", "rejected", "superseded"}]
        BY DEF TypeOK
    <2>2. decisions' \in 0..DecisionBound
        BY DEF TypeOK
    <2> QED BY <2>1, <2>2 DEF TypeOK
<1>2. RowsBegin'
    BY DEF TypeOK, RowsBegin
<1>3. FailedIsNotModerated'
    BY DEF TypeOK, FailedIsNotModerated, RowsBegin
<1> QED BY <1>1, <1>2, <1>3 DEF PrsBegin, OpeningsCarry, UrlsCarry, ListedCarry,
        TasksFollowEvents, RequestsFollowPushes, CausesAreRequested,
        PublishedWasMerged, OneReviewPerCommit, Carries

LEMMA CloseReviewStep ==
    ASSUME IInv, NEW r \in Reviews, CloseReview(r)
    PROVE  Core'
<1> USE DEF IInv, Core, CloseReview, Decision, Begin
<1>1. TypeOK'
    <2>1. pr' \in [Prs -> {"absent", "open", "closed", "merged"}]
        BY DEF TypeOK
    <2>2. decisions' \in 0..DecisionBound
        BY DEF TypeOK
    <2>3. deciding' \in SUBSET (Reviews \X {"rejected", "withdrawn", "published"})
        BY DEF TypeOK
    <2> QED BY <2>1, <2>2, <2>3 DEF TypeOK
<1>2. PrsBegin'
    BY DEF TypeOK, PrsBegin
<1>3. TasksFollowEvents'
    BY DEF TypeOK, TasksFollowEvents, PrsBegin
<1>4. PublishedWasMerged'
    BY DEF TypeOK, PublishedWasMerged, PrsBegin, RowsBegin, Carries
<1> QED BY <1>1, <1>2, <1>3, <1>4 DEF RowsBegin, OpeningsCarry, UrlsCarry,
        ListedCarry, RequestsFollowPushes, CausesAreRequested,
        OneReviewPerCommit, FailedIsNotModerated, Carries

LEMMA ApproveStep ==
    ASSUME IInv, NEW r \in Reviews, Approve(r)
    PROVE  Core'
<1> USE DEF IInv, Core, Approve, Begin
<1>1. TypeOK'
    <2>1. pr' \in [Prs -> {"absent", "open", "closed", "merged"}]
        BY DEF TypeOK
    <2>2. deciding' \in SUBSET (Reviews \X {"rejected", "withdrawn", "published"})
        BY DEF TypeOK
    <2> QED BY <2>1, <2>2 DEF TypeOK
<1>2. PrsBegin'
    BY DEF TypeOK, PrsBegin
<1>3. TasksFollowEvents'
    BY DEF TypeOK, TasksFollowEvents, PrsBegin
<1>4. PublishedWasMerged'
    BY DEF TypeOK, PublishedWasMerged, PrsBegin, RowsBegin, Carries
<1> QED BY <1>1, <1>2, <1>3, <1>4 DEF RowsBegin, OpeningsCarry, UrlsCarry,
        ListedCarry, RequestsFollowPushes, CausesAreRequested,
        OneReviewPerCommit, FailedIsNotModerated, Carries

LEMMA FinishDecisionStep ==
    ASSUME IInv, NEW r \in Reviews, NEW s \in {"rejected", "withdrawn", "published"},
           FinishDecision(r, s)
    PROVE  Core'
<1> USE DEF IInv, Core
<1>0. /\ UNCHANGED <<superseded, url, moderation, run, cause, github, request,
                     opening, seen, tasks, listed, decisions, crashes>>
      /\ <<r, s>> \in deciding /\ deciding' = deciding \ {<<r, s>>}
      /\ SetStatus(r, s)
    BY DEF FinishDecision
<1>1. /\ Exists(r)
      /\ s = "published" => \E p \in Prs : pr[p] = "merged" /\ Carries(p, r)
    BY <1>0 DEF DecisionsFollow
<1>2. /\ status' \in [Reviews -> Statuses]
      /\ \A q \in Reviews : status'[q] = status[q] \/ (q = r /\ status'[q] = s)
    BY <1>0, SetStatusEffect
<1>3. TypeOK'
    BY <1>0, <1>2 DEF TypeOK
<1>4. RowsBegin' /\ FailedIsNotModerated'
    BY <1>0, <1>1, <1>2 DEF RowsBegin, FailedIsNotModerated
<1>5. PrsBegin' /\ OpeningsCarry'
    BY <1>0, <1>2 DEF PrsBegin, OpeningsCarry
<1>6. PublishedWasMerged'
    BY <1>0, <1>1, <1>2 DEF PublishedWasMerged, Carries
<1> QED BY <1>0, <1>3, <1>4, <1>5, <1>6 DEF UrlsCarry, ListedCarry,
        TasksFollowEvents, RequestsFollowPushes, CausesAreRequested,
        OneReviewPerCommit, Carries

LEMMA AbandonDecisionStep ==
    ASSUME IInv, NEW r \in Reviews, NEW s \in {"rejected", "withdrawn", "published"},
           AbandonDecision(r, s)
    PROVE  Core'
<1> USE DEF IInv, Core, AbandonDecision
<1>1. TypeOK'
    <2>1. crashes' \in 0..CrashBound
        BY CountsAssumption DEF TypeOK
    <2>2. deciding' \in SUBSET (Reviews \X {"rejected", "withdrawn", "published"})
        BY DEF TypeOK
    <2> QED BY <2>1, <2>2 DEF TypeOK, rows, github
<1> QED BY <1>1 DEF RowsBegin, PrsBegin, OpeningsCarry, UrlsCarry, ListedCarry,
        TasksFollowEvents, RequestsFollowPushes, CausesAreRequested,
        PublishedWasMerged, OneReviewPerCommit, FailedIsNotModerated, Carries

LEMMA MergeStep ==
    ASSUME IInv, NEW p \in Prs, Merge(p)
    PROVE  Core'
<1> USE DEF IInv, Core, Merge
<1>1. TypeOK'
    BY DEF TypeOK
<1>2. PrsBegin'
    BY DEF TypeOK, PrsBegin
<1>3. TasksFollowEvents'
    BY DEF TypeOK, TasksFollowEvents, PrsBegin
<1>4. PublishedWasMerged'
    BY DEF TypeOK, PublishedWasMerged, PrsBegin, RowsBegin, Carries
<1> QED BY <1>1, <1>2, <1>3, <1>4 DEF RowsBegin, OpeningsCarry, UrlsCarry,
        ListedCarry, RequestsFollowPushes, CausesAreRequested,
        OneReviewPerCommit, FailedIsNotModerated, Carries

LEMMA PushStep ==
    ASSUME IInv, NEW k \in Commits, NEW p \in Prs, Push(k, p)
    PROVE  Core'
<1> USE DEF IInv, Core, Push
<1>1. TypeOK'
    <2>1. pushed' \in [Commits -> 0..PrCount]
        BY DEF TypeOK
    <2> QED BY <2>1 DEF TypeOK
<1>2. PrsBegin'
    BY DEF TypeOK, PrsBegin
<1>3. UrlsCarry'
    BY DEF TypeOK, UrlsCarry, PrsBegin, RowsBegin, Carries
<1>4. ListedCarry'
    BY DEF TypeOK, ListedCarry, PrsBegin, RowsBegin, Carries
<1>5. TasksFollowEvents'
    BY DEF TypeOK, TasksFollowEvents, PrsBegin
<1>6. RequestsFollowPushes'
    BY DEF TypeOK, RequestsFollowPushes
<1>7. PublishedWasMerged'
    BY DEF TypeOK, PublishedWasMerged, PrsBegin, RowsBegin, Carries
<1> QED BY <1>1, <1>2, <1>3, <1>4, <1>5, <1>6, <1>7 DEF RowsBegin,
        OpeningsCarry, CausesAreRequested, OneReviewPerCommit,
        FailedIsNotModerated

LEMMA DeliverStep ==
    ASSUME IInv, NEW d \in Deliveries, Deliver(d)
    PROVE  Core'
<1> USE DEF IInv, Core
<1>0. UNCHANGED <<rows, run, cause, github, request, opening, deciding, listed,
                  decisions, crashes>>
    BY DEF Deliver
<1>1. \/ \E p \in Prs : /\ pr[p] = "merged" /\ marker[p] \in Reviews
                        /\ tasks' = tasks \cup {<<"finalize", marker[p]>>}
      \/ \E k \in Commits : pushed[k] # 0 /\ tasks' = tasks \cup
              {<<"synchronize", k>>}
    <2>1. CASE d[1] \in Merges
        <3>1. PICK p \in Prs : d[1] = <<"merge", p>>
            BY <2>1 DEF Merges
        <3>2. d[1][2] = p /\ pr[p] = "merged"
            BY <3>1 DEF Deliver, Happened
        <3>3. tasks' = tasks \cup {<<"finalize", marker[p]>>}
            BY <2>1, <3>2 DEF Deliver
        <3> QED BY <3>2, <3>3 DEF PrsBegin
    <2>2. CASE d[1] \notin Merges
        <3>1. PICK k \in Commits : d[1] = <<"synchronize", k>>
            BY <2>2 DEF Deliveries, Pushes
        <3>2. pushed[k] # 0
            BY <3>1 DEF Deliver, Happened
        <3>3. tasks' = tasks \cup {<<"synchronize", k>>}
            BY <2>2, <3>1 DEF Deliver
        <3> QED BY <3>2, <3>3
    <2> QED BY <2>1, <2>2
<1>2. TypeOK'
    <2>1. seen' \in SUBSET Deliveries
        BY DEF TypeOK, Deliver
    <2>2. tasks' \in SUBSET ({<<"finalize", r>> : r \in Reviews} \cup
                             {<<"synchronize", k>> : k \in Commits})
        BY <1>1 DEF TypeOK
    <2> QED BY <1>0, <2>1, <2>2 DEF TypeOK
<1>3. TasksFollowEvents'
    BY <1>0, <1>1 DEF TasksFollowEvents
<1> QED BY <1>0, <1>2, <1>3 DEF RowsBegin, PrsBegin, OpeningsCarry, UrlsCarry,
        ListedCarry, RequestsFollowPushes, CausesAreRequested, PublishedWasMerged,
        OneReviewPerCommit, FailedIsNotModerated, Carries

LEMMA RunFinalizerStep ==
    ASSUME IInv, NEW r \in Reviews, RunFinalizer(r)
    PROVE  Core'
<1> USE DEF IInv, Core
<1>0. /\ UNCHANGED <<superseded, url, moderation, run, cause, github, request,
                     opening, deciding, seen, listed, decisions, crashes>>
      /\ <<"finalize", r>> \in tasks /\ tasks' = tasks \ {<<"finalize", r>>}
      /\ SetStatus(r, "published")
    BY DEF RunFinalizer, Finalize
<1>1. PICK p \in Prs : pr[p] = "merged" /\ Carries(p, r) /\ Exists(r)
    BY <1>0 DEF TasksFollowEvents, Carries, PrsBegin
<1>2. /\ status' \in [Reviews -> Statuses]
      /\ \A q \in Reviews : status'[q] = status[q] \/ (q = r /\ status'[q] =
              "published")
    BY <1>0, SetStatusEffect
<1>3. TypeOK'
    BY <1>0, <1>2 DEF TypeOK
<1>4. RowsBegin' /\ FailedIsNotModerated'
    BY <1>0, <1>1, <1>2 DEF RowsBegin, FailedIsNotModerated
<1>5. PrsBegin' /\ OpeningsCarry'
    BY <1>0, <1>2 DEF PrsBegin, OpeningsCarry
<1>6. PublishedWasMerged'
    BY <1>0, <1>1, <1>2 DEF PublishedWasMerged, Carries
<1>7. TasksFollowEvents'
    BY <1>0 DEF TasksFollowEvents
<1> QED BY <1>0, <1>3, <1>4, <1>5, <1>6, <1>7 DEF UrlsCarry, ListedCarry,
        RequestsFollowPushes, CausesAreRequested, OneReviewPerCommit, Carries

LEMMA HandleSynchronizeStep ==
    ASSUME IInv, NEW k \in Commits, HandleSynchronize(k)
    PROVE  Core'
<1> USE DEF IInv, Core, HandleSynchronize
<1>1. TypeOK'
    BY DEF TypeOK, TasksFollowEvents
<1>2. TasksFollowEvents'
    BY DEF TypeOK, TasksFollowEvents, PrsBegin
<1>3. RequestsFollowPushes'
    BY DEF TypeOK, RequestsFollowPushes, TasksFollowEvents
<1>4. CausesAreRequested'
    BY DEF TypeOK, CausesAreRequested, TasksFollowEvents
<1>5. OneReviewPerCommit'
    BY DEF TypeOK, OneReviewPerCommit, CausesAreRequested, RowsBegin,
            TasksFollowEvents
<1> QED BY <1>1, <1>2, <1>3, <1>4, <1>5 DEF RowsBegin, PrsBegin, OpeningsCarry,
        UrlsCarry, ListedCarry, PublishedWasMerged, FailedIsNotModerated,
        Carries

LEMMA StartRereviewStep ==
    ASSUME IInv, NEW k \in Commits, NEW r \in Reviews, StartRereview(k, r)
    PROVE  Core'
<1> USE DEF IInv, Core, StartRereview, InsertReview
<1>1. TypeOK'
    <2>1. request' \in [Commits -> {"none", "queued", "running", "done", "marked", "over"}]
        BY DEF TypeOK
    <2>2. status' \in [Reviews -> Statuses]
        BY DEF TypeOK
    <2>3. superseded' \in [Reviews -> 0..ReviewCount]
        BY DEF TypeOK
    <2>4. moderation' \in [Reviews -> {"none", "open", "rejected", "superseded"}]
        BY DEF TypeOK
    <2>5. run' \in [Reviews -> {"none", "dag", "over"}]
        BY DEF TypeOK
    <2>6. cause' \in [Reviews -> Commits \cup {NoCommit}]
        BY DEF TypeOK
    <2> QED BY <2>1, <2>2, <2>3, <2>4, <2>5, <2>6 DEF TypeOK
<1>2. RowsBegin'
    BY DEF TypeOK, RowsBegin, RequestsFollowPushes, OneReviewPerCommit
<1>3. PrsBegin'
    BY DEF TypeOK, PrsBegin, RequestsFollowPushes, OneReviewPerCommit
<1>4. OpeningsCarry'
    BY DEF TypeOK, OpeningsCarry, RequestsFollowPushes, OneReviewPerCommit
<1>5. UrlsCarry'
    BY DEF TypeOK, UrlsCarry, PrsBegin, RowsBegin, Carries,
            RequestsFollowPushes, OneReviewPerCommit
<1>6. ListedCarry'
    <2>1. \A q \in Reviews \ {r} : cause'[q] = cause[q]
        BY DEF TypeOK
    <2>2. cause[r] = NoCommit
        BY DEF RowsBegin, Exists
    <2>3. UNCHANGED <<marker, pushed, listed>>
        OBVIOUS
    <2> QED BY <2>1, <2>2, <2>3, CommitsAssumption DEF ListedCarry, Carries
<1>7. RequestsFollowPushes'
    BY DEF TypeOK, RequestsFollowPushes, OneReviewPerCommit
<1>8. CausesAreRequested'
    BY DEF TypeOK, CausesAreRequested, RequestsFollowPushes, OneReviewPerCommit
<1>9. PublishedWasMerged'
    BY DEF TypeOK, PublishedWasMerged, PrsBegin, RowsBegin, Carries,
            RequestsFollowPushes, OneReviewPerCommit
<1>10. OneReviewPerCommit'
    BY DEF TypeOK, OneReviewPerCommit, CausesAreRequested, RowsBegin,
            RequestsFollowPushes
<1>11. FailedIsNotModerated'
    BY DEF TypeOK, FailedIsNotModerated, RowsBegin, RequestsFollowPushes,
            OneReviewPerCommit
<1> QED BY <1>1, <1>2, <1>3, <1>4, <1>5, <1>6, <1>7, <1>8, <1>9, <1>10, <1>11
        DEF TasksFollowEvents

LEMMA RereviewFailsStep ==
    ASSUME IInv, NEW k \in Commits, RereviewFails(k)
    PROVE  Core'
<1> USE DEF IInv, Core, RereviewFails
<1>1. TypeOK'
    BY DEF TypeOK
<1>2. RequestsFollowPushes'
    BY DEF TypeOK, RequestsFollowPushes
<1>3. CausesAreRequested'
    BY DEF TypeOK, CausesAreRequested
<1>4. OneReviewPerCommit'
    BY DEF TypeOK, OneReviewPerCommit, CausesAreRequested, RowsBegin
<1> QED BY <1>1, <1>2, <1>3, <1>4 DEF RowsBegin, PrsBegin, OpeningsCarry,
        UrlsCarry, ListedCarry, TasksFollowEvents, PublishedWasMerged,
        FailedIsNotModerated, Carries

LEMMA TakeOverPrStep ==
    ASSUME IInv, NEW k \in Commits, NEW r \in Reviews, TakeOverPr(k, r)
    PROVE  Core'
<1> USE DEF IInv, Core
<1>0. /\ UNCHANGED <<superseded, moderation, run, cause, github, opening, deciding,
                     seen, tasks, listed, decisions, crashes>>
      /\ cause[r] = k
    BY DEF TakeOverPr
<1>1. Exists(r)
    BY <1>0 DEF RowsBegin
<1>2. /\ status' \in [Reviews -> Statuses]
      /\ \A q \in Reviews : status'[q] = status[q] \/ (q = r /\ status'[q] =
              "pr_open")
    <2>1. CASE SetStatus(r, "pr_open")
        BY <2>1, SetStatusEffect
    <2>2. CASE UNCHANGED status
        BY <2>2 DEF TypeOK
    <2> QED BY <2>1, <2>2 DEF TakeOverPr
<1>3. /\ request[k] # "none" /\ \E s \in {"marked", "over"} : request' =
        [request EXCEPT ![k] = s]
      /\ url' = url \/ url' = [url EXCEPT ![r] = pushed[k]]
    BY DEF TakeOverPr
<1>4. TypeOK'
    <2>1. pushed[k] \in 0..PrCount
        BY DEF TypeOK
    <2>2. url' \in [Reviews -> 0..PrCount]
        BY <1>3, <2>1 DEF TypeOK
    <2>3. request' \in [Commits -> {"none", "queued", "running", "done", "marked", "over"}]
        BY <1>3 DEF TypeOK
    <2> QED BY <1>0, <1>2, <2>2, <2>3 DEF TypeOK
<1>u. \A q \in Reviews : url'[q] = url[q] \/ (q = r /\ url'[q] = pushed[k])
    BY <1>3 DEF TypeOK
<1>5. RowsBegin' /\ FailedIsNotModerated'
    <2>1. RowsBegin'
        BY <1>0, <1>1, <1>2, <1>u DEF RowsBegin, Exists
    <2>2. FailedIsNotModerated'
        BY <1>0, <1>2 DEF FailedIsNotModerated
    <2> QED BY <2>1, <2>2
<1>6. PrsBegin' /\ OpeningsCarry'
    BY <1>0, <1>2 DEF PrsBegin, OpeningsCarry
<1>7. UrlsCarry'
    BY <1>0, <1>u DEF UrlsCarry, Carries
<1>8. PublishedWasMerged'
    BY <1>0, <1>2 DEF PublishedWasMerged, Carries
<1>9. RequestsFollowPushes' /\ CausesAreRequested' /\ OneReviewPerCommit'
    BY <1>0, <1>3 DEF RequestsFollowPushes, CausesAreRequested,
            OneReviewPerCommit, TypeOK
<1> QED BY <1>0, <1>4, <1>5, <1>6, <1>7, <1>8, <1>9 DEF ListedCarry,
        TasksFollowEvents,
        Carries

LEMMA ListPrOpenStep ==
    ASSUME IInv, ListPrOpen
    PROVE  Core'
<1> USE DEF IInv, Core, ListPrOpen
<1>1. TypeOK'
    <2>1. listed' \in SUBSET (Reviews \X Prs)
        <3>1. \A r \in Reviews : url[r] # 0 => url[r] \in Prs
            BY DEF TypeOK
        <3> QED BY <3>1 DEF TypeOK
    <2> QED BY <2>1 DEF TypeOK
<1>2. ListedCarry'
    BY DEF TypeOK, ListedCarry, PrsBegin, RowsBegin, Carries, UrlsCarry
<1> QED BY <1>1, <1>2 DEF RowsBegin, PrsBegin, OpeningsCarry, UrlsCarry,
        TasksFollowEvents, RequestsFollowPushes, CausesAreRequested,
        PublishedWasMerged, OneReviewPerCommit, FailedIsNotModerated, Carries

LEMMA ReconcileStep ==
    ASSUME IInv, NEW r \in Reviews, NEW p \in Prs, Reconcile(r, p)
    PROVE  Core'
<1> USE DEF IInv, Core
<1>0. /\ UNCHANGED <<superseded, url, moderation, run, cause, github, request,
                     opening, deciding, seen, tasks, decisions, crashes>>
      /\ <<r, p>> \in listed /\ listed' = listed \ {<<r, p>>}
    BY DEF Reconcile
<1>1. Carries(p, r) /\ Exists(r)
    BY <1>0 DEF ListedCarry, Carries, PrsBegin, RowsBegin, TypeOK
<1>2. /\ status' \in [Reviews -> Statuses]
      /\ \A q \in Reviews : 
            \/ status'[q] = status[q]
            \/ q = r /\ status'[q] = "published" /\ pr[p] = "merged"
    <2>1. CASE pr[p] = "merged"
        <3>1. SetStatus(r, "published")
            BY <2>1 DEF Reconcile, Finalize
        <3> QED BY <2>1, <3>1, SetStatusEffect
    <2>2. CASE pr[p] # "merged"
        <3>1. UNCHANGED status
            BY <2>2 DEF Reconcile
        <3> QED BY <3>1 DEF TypeOK
    <2> QED BY <2>1, <2>2
<1>3. TypeOK'
    BY <1>0, <1>2 DEF TypeOK
<1>4. RowsBegin' /\ FailedIsNotModerated'
    BY <1>0, <1>1, <1>2 DEF RowsBegin, FailedIsNotModerated
<1>5. PrsBegin' /\ OpeningsCarry'
    BY <1>0, <1>2 DEF PrsBegin, OpeningsCarry
<1>6. PublishedWasMerged'
    BY <1>0, <1>1, <1>2 DEF PublishedWasMerged, Carries
<1>7. ListedCarry'
    BY <1>0 DEF ListedCarry, Carries
<1> QED BY <1>0, <1>3, <1>4, <1>5, <1>6, <1>7 DEF UrlsCarry, TasksFollowEvents,
        RequestsFollowPushes, CausesAreRequested, OneReviewPerCommit, Carries

LEMMA SkipListedStep ==
    ASSUME IInv, NEW r \in Reviews, NEW p \in Prs, SkipListed(r, p)
    PROVE  Core'
<1> USE DEF IInv, Core, SkipListed
<1>1. TypeOK'
    BY DEF TypeOK
<1>2. ListedCarry'
    BY DEF ListedCarry, Carries
<1> QED BY <1>1, <1>2 DEF RowsBegin, PrsBegin, OpeningsCarry, UrlsCarry,
        TasksFollowEvents, RequestsFollowPushes, CausesAreRequested,
        PublishedWasMerged, OneReviewPerCommit, FailedIsNotModerated, Carries

LEMMA CrashStep ==
    ASSUME IInv, Crash
    PROVE  Core'
<1> USE DEF IInv, Core, Crash
<1>1. TypeOK'
    BY DEF TypeOK
<1>2. ListedCarry'
    BY DEF TypeOK, ListedCarry, PrsBegin, RowsBegin, Carries
<1>3. TasksFollowEvents'
    BY DEF TypeOK, TasksFollowEvents, PrsBegin
<1>4. RequestsFollowPushes'
    BY DEF TypeOK, RequestsFollowPushes
<1>5. CausesAreRequested'
    BY DEF TypeOK, CausesAreRequested
<1>6. OneReviewPerCommit'
    BY DEF TypeOK, OneReviewPerCommit, CausesAreRequested, RowsBegin
<1> QED BY <1>1, <1>2, <1>3, <1>4, <1>5, <1>6 DEF RowsBegin, PrsBegin,
        OpeningsCarry, UrlsCarry, PublishedWasMerged, FailedIsNotModerated,
        Carries

LEMMA KillOpenerStep ==
    ASSUME IInv, NEW c \in Openers, KillOpener(c)
    PROVE  Core'
<1> USE DEF IInv, Core, KillOpener
<1>1. TypeOK'
    <2>1. opening' \in [Openers -> Openings]
        BY OpeningsClosed DEF TypeOK
    <2>2. crashes' \in 0..CrashBound
        BY DEF TypeOK
    <2> QED BY <2>1, <2>2 DEF TypeOK
<1>2. OpeningsCarry'
    BY DEF TypeOK, OpeningsCarry
<1> QED BY <1>1, <1>2 DEF RowsBegin, PrsBegin, UrlsCarry, ListedCarry,
        TasksFollowEvents, RequestsFollowPushes, CausesAreRequested,
        PublishedWasMerged, OneReviewPerCommit, FailedIsNotModerated, Carries

LEMMA UnchangedStep == IInv /\ UNCHANGED vars => IInv'
<1> SUFFICES ASSUME IInv, UNCHANGED vars PROVE IInv'
    OBVIOUS
<1> USE DEF IInv, Core, vars
<1>1. TypeOK'
    BY DEF TypeOK
<1>2. RowsBegin' /\ PrsBegin' /\ OpeningsCarry' /\ UrlsCarry' /\ ListedCarry'
    BY DEF RowsBegin, PrsBegin, OpeningsCarry, UrlsCarry, ListedCarry, Carries
<1>3. TasksFollowEvents' /\ RequestsFollowPushes' /\ CausesAreRequested'
    BY DEF TasksFollowEvents, RequestsFollowPushes, CausesAreRequested
<1>4. /\ PublishedWasMerged' /\ OneReviewPerCommit' /\ FailedIsNotModerated'
      /\ DecisionsFollow'
    BY DEF PublishedWasMerged, OneReviewPerCommit, FailedIsNotModerated,
           DecisionsFollow, Carries
<1> QED BY <1>1, <1>2, <1>3, <1>4

LEMMA InitInv == Init => IInv
<1> SUFFICES ASSUME Init PROVE IInv
    OBVIOUS
<1> USE DEF Init
<1>1. TypeOK
    <2>1. /\ status \in [Reviews -> Statuses]
          /\ superseded \in [Reviews -> 0..ReviewCount]
          /\ url \in [Reviews -> 0..PrCount]
          /\ marker \in [Prs -> 0..ReviewCount]
          /\ pushed \in [Commits -> 0..PrCount]
        OBVIOUS
    <2>2. opening \in [Openers -> Openings]
        BY OpeningsClosed
    <2>3. decisions \in 0..DecisionBound /\ crashes \in 0..CrashBound
        OBVIOUS
    <2> QED BY <2>1, <2>2, <2>3 DEF TypeOK
<1>2. RowsBegin /\ PrsBegin /\ OpeningsCarry /\ UrlsCarry /\ ListedCarry
    BY DEF RowsBegin, PrsBegin, OpeningsCarry, UrlsCarry, ListedCarry
<1>3. TasksFollowEvents /\ RequestsFollowPushes /\ CausesAreRequested
    BY DEF TasksFollowEvents, RequestsFollowPushes, CausesAreRequested
<1>4. /\ PublishedWasMerged /\ OneReviewPerCommit /\ FailedIsNotModerated
      /\ DecisionsFollow
    BY DEF PublishedWasMerged, OneReviewPerCommit, FailedIsNotModerated,
           DecisionsFollow
<1> QED BY <1>1, <1>2, <1>3, <1>4 DEF IInv, Core

\* What happens to reviews by themselves, by decision, and by webhooks.
LEMMA ReviewStep ==
    ASSUME IInv, NEW r \in Reviews,
           \/ StartReview(r) \/ FailReview(r) \/ CompleteReview(r)
           \/ RunFinalizer(r)
           \/ \E p \in Prs : Reconcile(r, p) \/ SkipListed(r, p)
           \/ \E k \in Commits : StartRereview(k, r) \/ TakeOverPr(k, r)
    PROVE  Core'
    BY StartReviewStep, FailReviewStep, CompleteReviewStep, RunFinalizerStep,
       ReconcileStep, SkipListedStep, StartRereviewStep, TakeOverPrStep

LEMMA DecisionStep ==
    ASSUME IInv, NEW r \in Reviews,
           \/ Reject(r) \/ Withdraw(r) \/ Correct(r) \/ RequestChanges(r)
           \/ Approve(r) \/ CloseReview(r)
           \/ \E s \in {"rejected", "withdrawn", "published"} :
                  FinishDecision(r, s) \/ AbandonDecision(r, s)
    PROVE  Core'
    BY RejectStep, WithdrawStep, CorrectStep, RequestChangesStep, ApproveStep,
       CloseReviewStep, FinishDecisionStep, AbandonDecisionStep

LEMMA OpenerStep ==
    ASSUME IInv, NEW c \in Openers,
           \/ \E r \in Reviews, kind \in {"publication", "revision"} :
                   CheckReview(c, r, kind)
           \/ \E p \in Prs : OpenPr(c, p)
           \/ MarkPrOpen(c) \/ LinkPr(c) \/ UpdateFails(c) \/ CloseSuperseded(c)
           \/ KillOpener(c)
    PROVE  Core'
    BY CheckReviewStep, OpenPrStep, MarkPrOpenStep, LinkPrStep, UpdateFailsStep,
       CloseSupersededStep, KillOpenerStep

LEMMA CoreStep == IInv /\ [Next]_vars => Core'
<1> SUFFICES ASSUME IInv, [Next]_vars PROVE Core'
    OBVIOUS
<1>1. CASE \E p \in Prs : Merge(p)
    BY <1>1, MergeStep
<1>2. CASE \E k \in Commits, p \in Prs : Push(k, p)
    BY <1>2, PushStep
<1>3. CASE \E d \in Deliveries : Deliver(d)
    BY <1>3, DeliverStep
<1>4. CASE \E k \in Commits : HandleSynchronize(k) \/ RereviewFails(k)
    BY <1>4, HandleSynchronizeStep, RereviewFailsStep
<1>5. CASE ListPrOpen \/ Crash
    BY <1>5, ListPrOpenStep, CrashStep
<1>6. CASE UNCHANGED vars
    BY <1>6, UnchangedStep DEF IInv
<1> QED BY <1>1, <1>2, <1>3, <1>4, <1>5, <1>6, ReviewStep, DecisionStep, OpenerStep
        DEF Next

\* No row, moderation row or merge is ever taken back, and what a merged pull
\* request carried it carries on.
Stays ==
    /\ \A r \in Reviews : Exists(r) => Exists(r)'
    /\ \A r \in Reviews : moderation[r] # "none" => moderation'[r] # "none"
    /\ \A p \in Prs, r \in Reviews :
          pr[p] = "merged" /\ Carries(p, r) => pr'[p] = "merged" /\ Carries(p, r)'

\* So what a pending update rests on stays, if no update was added.
LEMMA DecisionsKept ==
    ASSUME DecisionsFollow, Stays, deciding' \subseteq deciding
    PROVE  DecisionsFollow'
BY DEF DecisionsFollow, Stays

LEMMA RowsStay ==
    ASSUME IInv, NEW r \in Reviews,
           \/ StartReview(r) \/ FailReview(r) \/ CompleteReview(r)
           \/ \E k \in Commits : StartRereview(k, r)
    PROVE  Stays /\ UNCHANGED deciding
<1> USE DEF IInv, Core, TypeOK
<1>1. CASE StartReview(r) \/ \E k \in Commits : StartRereview(k, r)
    <2>1. PICK why : InsertReview(r, why)
        BY <1>1 DEF StartReview, StartRereview
    <2>2. UNCHANGED <<github, deciding>>
        BY <1>1 DEF StartReview, StartRereview
    <2>3. \A q \in Reviews \ {r} : cause'[q] = cause[q]
        BY <2>1 DEF InsertReview
    <2>4. cause[r] = NoCommit
        BY <2>1 DEF InsertReview, RowsBegin
    <2>5. \A q \in Reviews : Exists(q) => Exists(q)'
        BY <2>1 DEF InsertReview
    <2>6. \A q \in Reviews : moderation[q] # "none" => moderation'[q] # "none"
        BY <2>1 DEF InsertReview
    <2>7. ASSUME NEW p \in Prs, NEW q \in Reviews, Carries(p, q)
          PROVE  Carries(p, q)'
        <3>1. CASE marker[p] = q
            BY <2>2, <3>1 DEF Carries, github
        <3>2. CASE \E k \in Commits : pushed[k] = p /\ cause[q] = k
            <4>1. q # r
                BY <2>4, <3>2, CommitsAssumption DEF NoCommit
            <4> QED BY <2>2, <2>3, <3>2, <4>1 DEF Carries, github
        <3> QED BY <2>7, <3>1, <3>2 DEF Carries
    <2> QED BY <2>2, <2>5, <2>6, <2>7 DEF Stays, github
<1>2. CASE FailReview(r) \/ CompleteReview(r)
    BY <1>2 DEF FailReview, CompleteReview, Stays, Carries
<1> QED BY <1>1, <1>2

LEMMA DecidedRowsStay ==
    ASSUME IInv, NEW r \in Reviews,
           \/ Withdraw(r) \/ Correct(r) \/ RequestChanges(r)
           \/ \E s \in {"rejected", "withdrawn", "published"} :
                  FinishDecision(r, s) \/ AbandonDecision(r, s)
    PROVE  Stays /\ deciding' \subseteq deciding
<1> USE DEF IInv, Core
<1>1. CASE RequestChanges(r)
    BY <1>1 DEF RequestChanges, Stays, Carries, TypeOK
<1>2. ASSUME NEW s \in {"rejected", "withdrawn", "published"}, AbandonDecision(r, s)
      PROVE  Stays /\ deciding' \subseteq deciding
    BY <1>2 DEF AbandonDecision, Stays, Carries
<1>3. ASSUME NEW s \in Statuses \ {"absent"}, SetStatus(r, s),
             UNCHANGED <<moderation, cause, github>>
      PROVE  Stays
    BY <1>3, SetStatusEffect DEF Stays, Carries
<1>4. CASE Withdraw(r) \/ Correct(r)
    BY <1>3, <1>4 DEF Withdraw, Correct, Decide
<1>5. ASSUME NEW s \in {"rejected", "withdrawn", "published"}, FinishDecision(r, s)
      PROVE  Stays /\ deciding' \subseteq deciding
    BY <1>3, <1>5 DEF FinishDecision
<1> QED BY <1>1, <1>2, <1>4, <1>5

LEMMA PublishedRowsStay ==
    ASSUME IInv, NEW r \in Reviews,
           \/ RunFinalizer(r)
           \/ \E p \in Prs : Reconcile(r, p) \/ SkipListed(r, p)
           \/ \E k \in Commits : TakeOverPr(k, r)
    PROVE  Stays /\ UNCHANGED deciding
<1> USE DEF IInv, Core
<1>1. UNCHANGED <<moderation, cause, github, deciding>>
    BY DEF RunFinalizer, Reconcile, SkipListed, TakeOverPr
<1>2. SetStatus(r, "published") \/ SetStatus(r, "pr_open") \/ UNCHANGED status
    BY DEF RunFinalizer, Reconcile, SkipListed, TakeOverPr, Finalize
<1>3. \A q \in Reviews : Exists(q) => Exists(q)'
    BY <1>2, SetStatusEffect
<1> QED BY <1>1, <1>3 DEF Stays, Carries

LEMMA OpenersStay ==
    ASSUME IInv, NEW c \in Openers,
           \/ \E r \in Reviews, kind \in {"publication", "revision"} :
                   CheckReview(c, r, kind)
           \/ \E p \in Prs : OpenPr(c, p)
           \/ MarkPrOpen(c) \/ LinkPr(c) \/ UpdateFails(c) \/ CloseSuperseded(c)
           \/ KillOpener(c)
    PROVE  Stays /\ UNCHANGED deciding
<1> USE DEF IInv, Core
<1>1. CASE \E r \in Reviews, kind \in {"publication", "revision"} : CheckReview(c, r, kind)
    BY <1>1 DEF CheckReview, Stays, Carries, TypeOK
<1>2. CASE \E p \in Prs : OpenPr(c, p)
    <2>1. PICK p \in Prs : OpenPr(c, p)
        BY <1>2
    <2>2. \A q \in Prs \ {p} : pr'[q] = pr[q] /\ marker'[q] = marker[q]
        BY <2>1 DEF OpenPr, TypeOK
    <2>3. pr[p] # "merged" /\ UNCHANGED <<status, moderation, cause, pushed, deciding>>
        BY <2>1 DEF OpenPr, rows
    <2> QED BY <2>2, <2>3 DEF Stays, Carries, Exists
<1>3. CASE MarkPrOpen(c)
    <2>1. opening[c].review \in Reviews /\ SetStatus(opening[c].review, "pr_open")
        BY <1>3 DEF MarkPrOpen, OpeningsCarry
    <2>2. UNCHANGED <<moderation, cause, github, deciding>>
        BY <1>3 DEF MarkPrOpen
    <2>3. \A q \in Reviews : Exists(q) => Exists(q)'
        BY <2>1, SetStatusEffect
    <2> QED BY <2>2, <2>3 DEF Stays, Carries
<1>4. CASE LinkPr(c) \/ UpdateFails(c) \/ CloseSuperseded(c)
           \/ KillOpener(c)
    BY <1>4 DEF LinkPr, UpdateFails, AfterLink, CloseSuperseded, KillOpener, Stays, Carries, TypeOK
<1> QED BY <1>1, <1>2, <1>3, <1>4

LEMMA OthersStay ==
    ASSUME IInv,
           \/ \E p \in Prs : Merge(p)
           \/ \E k \in Commits, p \in Prs : Push(k, p)
           \/ \E d \in Deliveries : Deliver(d)
           \/ \E k \in Commits : HandleSynchronize(k) \/ RereviewFails(k)
           \/ ListPrOpen \/ Crash \/ UNCHANGED vars
    PROVE  Stays /\ UNCHANGED deciding
<1> USE DEF IInv, Core
<1>1. CASE \E p \in Prs : Merge(p)
    BY <1>1 DEF Merge, Stays, Carries, TypeOK
<1>2. CASE \E k \in Commits, p \in Prs : Push(k, p)
    BY <1>2 DEF Push, Stays, Carries, TypeOK
<1>3. CASE \/ \E d \in Deliveries : Deliver(d)
           \/ \E k \in Commits : HandleSynchronize(k) \/ RereviewFails(k)
           \/ ListPrOpen \/ Crash \/ UNCHANGED vars
    <2>1. UNCHANGED <<status, moderation, cause, github, deciding>>
        BY <1>3 DEF Deliver, HandleSynchronize, RereviewFails, ListPrOpen, Crash, vars
    <2> QED BY <2>1 DEF Stays, Carries
<1> QED BY <1>1, <1>2, <1>3

\* An update is added by a command that has just done what it rests on.
LEMMA DecisionAdded ==
    ASSUME IInv, NEW r \in Reviews, Reject(r) \/ CloseReview(r) \/ Approve(r)
    PROVE  DecisionsFollow'
<1> USE DEF IInv, Core, TypeOK, Begin
<1>1. Stays
    BY DEF Reject, CloseReview, Approve, Stays, Carries
<1>2. Exists(r)'
    BY DEF Reject, CloseReview, Approve, RowsBegin
<1>3. ASSUME NEW s \in {"rejected", "withdrawn", "published"},
             deciding' \subseteq deciding \cup {<<r, s>>},
             s = "rejected" => moderation'[r] # "none",
             s = "published" => \E p \in Prs : pr'[p] = "merged" /\ Carries(p, r)'
      PROVE  DecisionsFollow'
    <2> SUFFICES ASSUME NEW q \in Reviews,
                        NEW t \in {"rejected", "withdrawn", "published"},
                        <<q, t>> \in deciding'
                 PROVE  /\ Exists(q)'
                        /\ t = "rejected" => moderation'[q] # "none"
                        /\ t = "published" =>
                              \E p \in Prs : pr'[p] = "merged" /\ Carries(p, q)'
        BY DEF DecisionsFollow
    <2>1. CASE <<q, t>> \in deciding
        BY <1>1, <2>1 DEF DecisionsFollow, Stays
    <2>2. CASE q = r /\ t = s
        BY <1>2, <1>3, <2>2
    <2> QED BY <1>3, <2>1, <2>2
<1>4. CASE Reject(r)
    BY <1>3, <1>4 DEF Reject
<1>5. CASE CloseReview(r)
    BY <1>3, <1>5 DEF CloseReview
<1>6. CASE Approve(r)
    <2>1. /\ deciding' = deciding \cup {<<r, "published">>}
          /\ url[r] \in Prs /\ pr'[url[r]] = "merged"
          /\ UNCHANGED <<marker, pushed, cause>>
        BY <1>6 DEF Approve
    <2>2. \E p \in Prs : pr'[p] = "merged" /\ Carries(p, r)'
        BY <1>6, <2>1 DEF UrlsCarry, Carries, Approve
    <2> QED BY <1>3, <2>1, <2>2
<1> QED BY <1>4, <1>5, <1>6

LEMMA NextStep == IInv /\ [Next]_vars => IInv'
<1> SUFFICES ASSUME IInv, [Next]_vars PROVE DecisionsFollow'
    BY CoreStep DEF IInv
<1>1. CASE \E r \in Reviews : Reject(r) \/ CloseReview(r) \/ Approve(r)
    BY <1>1, DecisionAdded
<1>2. CASE ~\E r \in Reviews : Reject(r) \/ CloseReview(r) \/ Approve(r)
    <2>1. Stays /\ deciding' \subseteq deciding
        BY <1>2, RowsStay, DecidedRowsStay, PublishedRowsStay, OpenersStay, OthersStay
           DEF Next
    <2> QED BY <2>1, DecisionsKept DEF IInv
<1> QED BY <1>1, <1>2

\* The invariant holds in every state, for all constants.
THEOREM Inductive == Spec => []IInv
    BY InitInv, NextStep, PTL DEF Spec

\* Every variable keeps its type.
THEOREM TypeCorrect == Spec => []TypeOK
<1>1. IInv => TypeOK
    BY DEF IInv, Core
<1> QED BY Inductive, <1>1, PTL

\* A review is published only if a pull request that carries it was merged,
\* whichever webhook, reconciler pass or command published it.
THEOREM PublicationNeedsMerge == Spec => []PublishedWasMerged
<1>1. IInv => PublishedWasMerged
    BY DEF IInv, Core
<1> QED BY Inductive, <1>1, PTL

\* A correction commit is reviewed at most once, whatever is delivered twice.
THEOREM CommitsAreReviewedOnce == Spec => []OneReviewPerCommit
<1>1. IInv => OneReviewPerCommit
    BY DEF IInv, Core
<1> QED BY Inductive, <1>1, PTL

-----------------------------------------------------------------------------
(***************************************************************************)
(* The rows implement PaperReviews.  Runs, commands and webhooks become    *)
(* its steps; what happens on GitHub, in tasks and in lists leaves the     *)
(* rows alone.                                                             *)
(***************************************************************************)

\* A step of the rows of one review.
RowStep(r) ==
    \/ Rows!Insert(r) \/ Rows!Fail(r) \/ Rows!Offer(r)
    \/ Rows!Reopen(r) \/ Rows!Refuse(r) \/ Rows!Reject(r) \/ Rows!Withdraw(r)
    \/ \E s \in Rows!ActiveStatuses \ {"awaiting_moderation"} : Rows!Publish(r, s)
    \/ UNCHANGED <<status, moderation>>

LEMMA InsertMaps ==
    ASSUME IInv, NEW r \in Reviews, NEW why, InsertReview(r, why)
    PROVE  Rows!Insert(r)
<1>1. ~Rows!Exists(r) /\ \A q \in 1..r - 1 : Rows!Exists(q)
    BY DEF InsertReview, Rows!Exists
<1>2. {q \in Reviews : Active(q)} = {q \in Rows!Reviews : Rows!Active(q)}
    BY DEF Active, Rows!Reviews, Rows!Active, Rows!ActiveStatuses
<1>3. status' = [q \in Rows!Reviews |->
                    CASE q = r -> "awaiting_moderation"
                      [] q # r /\ q \in {x \in Rows!Reviews : Rows!Active(x)} -> "withdrawn"
                      [] q # r /\ q \notin {x \in Rows!Reviews : Rows!Active(x)} -> status[q]]
    <2>1. status' = [q \in Reviews |->
                        IF q = r THEN "awaiting_moderation"
                        ELSE IF Active(q) THEN "withdrawn" ELSE status[q]]
        <3>1. r \notin {q \in Reviews : Active(q)}
            BY DEF InsertReview, Active
        <3> QED BY <3>1 DEF InsertReview
    <2> QED BY <2>1, <1>2 DEF Rows!Reviews
<1>4. moderation' = [q \in Rows!Reviews |->
                        IF q \in {x \in Rows!Reviews : Rows!Active(x)} /\ moderation[q] = "open"
                        THEN "superseded" ELSE moderation[q]]
    BY <1>2 DEF InsertReview, Rows!Reviews
<1> QED BY <1>1, <1>3, <1>4 DEF Rows!Insert

\* A status that makes a review active is a publication, or refused.
LEMMA PublishMaps ==
    ASSUME IInv, NEW r \in Reviews, NEW s \in {"pr_open", "published", "corrected"},
           Exists(r), SetStatus(r, s), UNCHANGED moderation
    PROVE  RowStep(r)
<1>1. CASE StatusAllowed(r, s)
    <2>1. status' = [status EXCEPT ![r] = s]
        BY <1>1 DEF SetStatus
    <2>2. Rows!Exists(r) /\ \A q \in Rows!Reviews \ {r} : ~Rows!Active(q)
        BY <1>1 DEF StatusAllowed, Active, Rows!Exists, Rows!Reviews, Rows!Active,
                    Rows!ActiveStatuses
    <2>3. Rows!Publish(r, s)
        BY <2>1, <2>2 DEF Rows!Publish
    <2>4. s \in Rows!ActiveStatuses \ {"awaiting_moderation"}
        BY DEF Rows!ActiveStatuses
    <2> QED BY <2>3, <2>4 DEF RowStep
<1>2. CASE ~StatusAllowed(r, s)
    BY <1>2 DEF SetStatus, RowStep
<1> QED BY <1>1, <1>2

\* A run inserts its row, then fails it or offers it; it is the only one to.
LEMMA RunMaps ==
    ASSUME IInv, NEW r \in Reviews,
           \/ StartReview(r) \/ FailReview(r) \/ CompleteReview(r)
           \/ \E k \in Commits : StartRereview(k, r)
    PROVE  RowStep(r)
<1>1. CASE StartReview(r) \/ \E k \in Commits : StartRereview(k, r)
    BY <1>1, InsertMaps DEF StartReview, StartRereview, RowStep
<1>2. CASE FailReview(r)
    <2>1. Exists(r) /\ moderation[r] = "none"
        BY <1>2 DEF FailReview, Running, IInv, Core, RowsBegin
    <2> QED BY <1>2, <2>1 DEF FailReview, Rows!Fail, Rows!Exists, RowStep
<1>3. CASE CompleteReview(r)
    <2>1. Exists(r) /\ moderation[r] = "none" /\ status[r] # "system_failed"
        BY <1>3 DEF CompleteReview, Running, IInv, Core, RowsBegin
    <2> QED BY <1>3, <2>1 DEF CompleteReview, Rows!Offer, Rows!Exists, RowStep
<1> QED BY <1>1, <1>2, <1>3

\* A decision overwrites whatever was decided before it.
LEMMA DecisionMaps ==
    ASSUME IInv, NEW r \in Reviews,
           \/ Reject(r) \/ Withdraw(r) \/ Correct(r) \/ RequestChanges(r)
           \/ Approve(r) \/ CloseReview(r)
           \/ \E s \in {"rejected", "withdrawn", "published"} :
                  FinishDecision(r, s) \/ AbandonDecision(r, s)
    PROVE  RowStep(r)
<1>1. CASE Reject(r)
    BY <1>1 DEF Reject, Rows!Refuse, RowStep
<1>2. CASE Withdraw(r)
    BY <1>2 DEF Withdraw, Decide, SetStatus, StatusAllowed, Rows!Withdraw,
                Rows!Exists, RowStep
<1>3. CASE Correct(r)
    BY <1>3, PublishMaps DEF Correct, Decide
<1>4. CASE RequestChanges(r)
    BY <1>4 DEF RequestChanges, Rows!Reopen, RowStep
<1>5. ASSUME NEW s \in {"rejected", "withdrawn", "published"}, FinishDecision(r, s)
      PROVE  RowStep(r)
    <2>1. /\ Exists(r) /\ SetStatus(r, s) /\ UNCHANGED moderation
          /\ s = "rejected" => moderation[r] # "none"
        BY <1>5 DEF FinishDecision, IInv, DecisionsFollow
    <2>2. CASE s = "published"
        BY <2>1, <2>2, PublishMaps
    <2>3. CASE s \in {"rejected", "withdrawn"}
        <3>1. status' = [status EXCEPT ![r] = s]
            BY <2>1, <2>3 DEF SetStatus, StatusAllowed
        <3> QED BY <2>1, <2>3, <3>1 DEF Rows!Reject, Rows!Withdraw, Rows!Exists, RowStep
    <2> QED BY <2>2, <2>3
<1>6. ASSUME NEW s \in {"rejected", "withdrawn", "published"},
             AbandonDecision(r, s) \/ Approve(r) \/ CloseReview(r)
      PROVE  RowStep(r)
    BY <1>6 DEF AbandonDecision, Approve, CloseReview, RowStep
<1> QED BY <1>1, <1>2, <1>3, <1>4, <1>5, <1>6

\* Webhooks, the reconciler and re-reviews publish what has a row.
LEMMA MergeMaps ==
    ASSUME IInv, NEW r \in Reviews,
           \/ RunFinalizer(r)
           \/ \E p \in Prs : Reconcile(r, p) \/ SkipListed(r, p)
           \/ \E k \in Commits : TakeOverPr(k, r)
    PROVE  RowStep(r)
<1>1. ASSUME NEW p \in Prs, SkipListed(r, p) PROVE RowStep(r)
    BY <1>1 DEF SkipListed, RowStep
<1>2. CASE RunFinalizer(r)
    <2>1. Exists(r)
        BY <1>2 DEF RunFinalizer, IInv, Core, TasksFollowEvents, PrsBegin
    <2> QED BY <1>2, <2>1, PublishMaps DEF RunFinalizer, Finalize
<1>3. ASSUME NEW p \in Prs, Reconcile(r, p) PROVE RowStep(r)
    <2>1. Exists(r)
        BY <1>3 DEF Reconcile, IInv, Core, ListedCarry, Carries, PrsBegin, RowsBegin, TypeOK
    <2>2. CASE pr[p] = "merged"
        BY <1>3, <2>1, <2>2, PublishMaps DEF Reconcile, Finalize
    <2>3. CASE pr[p] # "merged"
        BY <1>3, <2>3 DEF Reconcile, RowStep
    <2> QED BY <2>2, <2>3
<1>4. ASSUME NEW k \in Commits, TakeOverPr(k, r) PROVE RowStep(r)
    <2>1. Exists(r)
        BY <1>4 DEF TakeOverPr, IInv, Core, RowsBegin
    <2>2. CASE SetStatus(r, "pr_open")
        BY <1>4, <2>1, <2>2, PublishMaps DEF TakeOverPr
    <2>3. CASE UNCHANGED status
        BY <1>4, <2>3 DEF TakeOverPr, RowStep
    <2> QED BY <1>4, <2>2, <2>3 DEF TakeOverPr
<1> QED BY <1>1, <1>2, <1>3, <1>4

\* A process that opens a pull request marks the review it opened it for.
LEMMA OpenerMaps ==
    ASSUME IInv, NEW c \in Openers,
           \/ \E r \in Reviews, kind \in {"publication", "revision"} :
                   CheckReview(c, r, kind)
           \/ \E p \in Prs : OpenPr(c, p)
           \/ MarkPrOpen(c) \/ LinkPr(c) \/ UpdateFails(c) \/ CloseSuperseded(c)
           \/ KillOpener(c)
    PROVE  (\E r \in Reviews : RowStep(r)) \/ UNCHANGED <<status, moderation>>
<1>1. ASSUME NEW r \in Reviews, NEW kind \in {"publication", "revision"},
             CheckReview(c, r, kind)
      PROVE  RowStep(r)
    BY <1>1 DEF CheckReview, Rows!Reopen, RowStep
<1>2. CASE MarkPrOpen(c)
    <2>1. opening[c].review \in Reviews /\ Exists(opening[c].review)
        BY <1>2 DEF MarkPrOpen, IInv, Core, OpeningsCarry
    <2>2. RowStep(opening[c].review)
        BY <1>2, <2>1, PublishMaps DEF MarkPrOpen
    <2> QED BY <2>1, <2>2
<1>3. CASE (\E p \in Prs : OpenPr(c, p)) \/ LinkPr(c) \/ UpdateFails(c) \/ CloseSuperseded(c)
           \/ KillOpener(c)
    BY <1>3 DEF OpenPr, LinkPr, UpdateFails, AfterLink, CloseSuperseded, KillOpener
<1> QED BY <1>1, <1>2, <1>3

LEMMA RowSteps ==
    IInv /\ [Next]_vars => [Rows!RowsNext]_(Rows!rowVars)
<1> SUFFICES ASSUME IInv, [Next]_vars
             PROVE  Rows!RowsNext \/ UNCHANGED <<status, moderation>>
    BY DEF Rows!rowVars
<1>1. (\E r \in Reviews : RowStep(r)) \/ UNCHANGED <<status, moderation>>
    <2>1. CASE \/ \E p \in Prs : Merge(p)
               \/ \E k \in Commits, p \in Prs : Push(k, p)
               \/ \E d \in Deliveries : Deliver(d)
               \/ \E k \in Commits : HandleSynchronize(k) \/ RereviewFails(k)
               \/ ListPrOpen \/ Crash
        BY <2>1 DEF Merge, Push, Deliver, HandleSynchronize, RereviewFails, ListPrOpen, Crash
    <2>2. CASE UNCHANGED vars
        BY <2>2 DEF vars
    <2> QED BY <2>1, <2>2, RunMaps, DecisionMaps, MergeMaps, OpenerMaps DEF Next
<1> QED BY <1>1 DEF RowStep, Rows!RowsNext, Rows!Reviews

\* The rows of reviews take only the steps PaperReviews allows, whatever
\* commands, webhooks, re-reviews and crashes come together.
THEOREM ImplementsRows == Spec => RefinesRows
<1>1. Init => Rows!RowsInit
    BY DEF Init, Rows!RowsInit, Rows!Reviews
<1> QED BY <1>1, Inductive, RowSteps, PTL DEF Spec, RefinesRows, Rows!RowsSpec

-----------------------------------------------------------------------------
(* What PaperReviews promises, of every implementation of it.              *)

\* The invariant that bears OneActiveReview and FailedIsNotModerated.
RowsInv == Rows!RowsTypeOK /\ Rows!OneActiveReview /\ Rows!FailedIsNotModerated
                /\ \A r \in Reviews : ~Rows!Exists(r) => moderation[r] = "none"

LEMMA RowsInductive == Rows!RowsSpec => []RowsInv
<1> USE DEF Rows!Reviews, Rows!Statuses, Rows!ActiveStatuses, Rows!Exists, Rows!Active
<1>1. Rows!RowsInit => RowsInv
    BY DEF Rows!RowsInit, RowsInv, Rows!RowsTypeOK, Rows!OneActiveReview,
           Rows!FailedIsNotModerated
<1>2. ASSUME RowsInv, [Rows!RowsNext]_(Rows!rowVars) PROVE RowsInv'
    <2> USE <1>2 DEF RowsInv, Rows!RowsTypeOK, Rows!OneActiveReview, Rows!FailedIsNotModerated
    <2>1. ASSUME NEW r \in Reviews, Rows!Insert(r) PROVE RowsInv'
        BY <2>1 DEF Rows!Insert
    <2>2. ASSUME NEW r \in Reviews, Rows!Fail(r) \/ Rows!Offer(r) PROVE RowsInv'
        BY <2>2 DEF Rows!Fail, Rows!Offer
    <2>3. ASSUME NEW r \in Reviews,
                 Rows!Reopen(r) \/ Rows!Refuse(r) \/ Rows!Reject(r) \/ Rows!Withdraw(r)
          PROVE  RowsInv'
        BY <2>3 DEF Rows!Reopen, Rows!Refuse, Rows!Reject, Rows!Withdraw
    <2>4. ASSUME NEW r \in Reviews, NEW s \in Rows!ActiveStatuses \ {"awaiting_moderation"},
                 Rows!Publish(r, s)
          PROVE  RowsInv'
        BY <2>4 DEF Rows!Publish
    <2>5. CASE UNCHANGED Rows!rowVars
        BY <2>5 DEF Rows!rowVars
    <2> QED BY <1>2, <2>1, <2>2, <2>3, <2>4, <2>5 DEF Rows!RowsNext
<1> QED BY <1>1, <1>2, PTL DEF Rows!RowsSpec

\* A paper never has two active reviews, and what failed is never offered.
THEOREM RowsAreSound == Spec => [](Rows!OneActiveReview /\ Rows!FailedIsNotModerated)
<1>1. RowsInv => Rows!OneActiveReview /\ Rows!FailedIsNotModerated
    BY DEF RowsInv
<1> QED BY <1>1, ImplementsRows, RowsInductive, PTL DEF RefinesRows

\* No webhook, command or re-review puts an older review of the paper before a
\* moderator as new.
THEOREM ReviewsAwaitOnce == Spec => Rows!AwaitsOnce
<1>1. ASSUME RowsInv, [Rows!RowsNext]_(Rows!rowVars)
      PROVE  [\A r \in Reviews : Rows!Exists(r) /\ status[r] # "awaiting_moderation"
                  => status'[r] # "awaiting_moderation"]_(Rows!rowVars)
    BY <1>1 DEF RowsInv, Rows!RowsTypeOK, Rows!RowsNext, Rows!rowVars, Rows!Reviews,
        Rows!Exists, Rows!Insert, Rows!Fail, Rows!Offer, Rows!Reopen, Rows!Refuse, Rows!Reject,
        Rows!Withdraw, Rows!Publish, Rows!ActiveStatuses, Rows!Statuses
<1> QED BY <1>1, ImplementsRows, RowsInductive, PTL
        DEF RefinesRows, Rows!RowsSpec, Rows!AwaitsOnce, Rows!Reviews
=============================================================================
