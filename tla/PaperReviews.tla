---------------------------- MODULE PaperReviews ----------------------------
(***************************************************************************)
(* What the tables promise about the reviews of one paper, with no agents, *)
(* pull requests, webhooks or crashes in sight: a review is inserted after *)
(* the ones before it and replaces the active one, its run fails it or     *)
(* offers it to a moderator, and decisions and publication change it after *)
(* that, with at most one review of the paper active at a time.            *)
(*                                                                         *)
(* ReviewTeam, which writes one review after another, and ReviewLifecycle, *)
(* which publishes them, are both shown to implement this: so one may take *)
(* the place of the other's view of a review.                              *)
(***************************************************************************)
EXTENDS Naturals

CONSTANT ReviewCount   \* bound on the reviews of the paper

VARIABLES
    status,     \* reviews.status, "absent" before the row is inserted
    moderation  \* its moderation_queue row: "open" is pending, approved or
                \* changes_requested

rowVars == <<status, moderation>>

Reviews == 1..ReviewCount

\* Statuses of the partial unique index reviews_one_active_per_paper.
ActiveStatuses == {"awaiting_moderation", "pr_open", "published", "corrected"}
Statuses == ActiveStatuses \cup {"absent", "withdrawn", "rejected", "system_failed"}

RowsTypeOK ==
    /\ status \in [Reviews -> Statuses]
    /\ moderation \in [Reviews -> {"none", "open", "rejected", "superseded"}]

RowsInit ==
    /\ status = [r \in Reviews |-> "absent"]
    /\ moderation = [r \in Reviews |-> "none"]

Exists(r) == status[r] # "absent"
Active(r) == status[r] \in ActiveStatuses

\* A new review replaces the active one and takes its moderation row away.
Insert(r) ==
    LET replaced == {q \in Reviews : Active(q)}
    IN  /\ ~Exists(r) /\ \A q \in 1..r - 1 : Exists(q)
        /\ status' = [q \in Reviews |->
                         CASE q = r -> "awaiting_moderation"
                           [] q # r /\ q \in replaced -> "withdrawn"
                           [] q # r /\ q \notin replaced -> status[q]]
        /\ moderation' = [q \in Reviews |->
                             IF q \in replaced /\ moderation[q] = "open"
                             THEN "superseded" ELSE moderation[q]]

\* The run that writes a review ends in one of two ways, even if the review
\* was replaced or decided about in the meantime.
Fail(r) ==
    /\ Exists(r) /\ moderation[r] = "none"
    /\ status' = [status EXCEPT ![r] = "system_failed"]
    /\ UNCHANGED moderation

Offer(r) ==
    /\ Exists(r) /\ moderation[r] = "none" /\ status[r] # "system_failed"
    /\ moderation' = [moderation EXCEPT ![r] = "open"]
    /\ UNCHANGED status

\* A moderator takes up a review again, whatever was decided about it.
Reopen(r) ==
    /\ moderation[r] # "none"
    /\ moderation' = [moderation EXCEPT ![r] = "open"]
    /\ UNCHANGED status

\* A rejection takes the moderation row first and the review later, if ever:
\* another decision may come between.
Refuse(r) ==
    /\ moderation[r] # "none"
    /\ moderation' = [moderation EXCEPT ![r] = "rejected"]
    /\ UNCHANGED status

Reject(r) ==
    /\ moderation[r] # "none"
    /\ status' = [status EXCEPT ![r] = "rejected"]
    /\ UNCHANGED moderation

Withdraw(r) ==
    /\ Exists(r)
    /\ status' = [status EXCEPT ![r] = "withdrawn"]
    /\ UNCHANGED moderation

\* Publication makes a review active, also one that was replaced or rejected,
\* if no other is.
Publish(r, s) ==
    /\ Exists(r) /\ \A q \in Reviews \ {r} : ~Active(q)
    /\ status' = [status EXCEPT ![r] = s]
    /\ UNCHANGED moderation

RowsNext ==
    \E r \in Reviews :
        \/ Insert(r) \/ Fail(r) \/ Offer(r)
        \/ Reopen(r) \/ Refuse(r) \/ Reject(r) \/ Withdraw(r)
        \/ \E s \in ActiveStatuses \ {"awaiting_moderation"} : Publish(r, s)

RowsSpec == RowsInit /\ [][RowsNext]_rowVars

-----------------------------------------------------------------------------
(* What every implementation inherits.                                     *)

\* The paper has at most one active review.
OneActiveReview ==
    \A q, r \in Reviews : Active(q) /\ Active(r) => q = r

\* A review whose run failed never had a moderation row.
FailedIsNotModerated ==
    \A r \in Reviews : status[r] = "system_failed" => moderation[r] = "none"

\* A review goes before a moderator as new once: whatever replaced, failed or
\* decided it, it does not come back to awaiting_moderation.
AwaitsOnce ==
    [][\A r \in Reviews :
        Exists(r) /\ status[r] # "awaiting_moderation" => status'[r] # "awaiting_moderation"]_rowVars
=============================================================================
