-------------------------- MODULE ReviewTeamProofs --------------------------
(***************************************************************************)
(* What TLAPS proves of ReviewTeam, for any number of specialists, any     *)
(* quorum, and any number of permits, retries, reviews and faults: what a  *)
(* moderator is offered is complete, no error path forgets a review, and   *)
(* the caches hold what is on record and save what they are there to save. *)
(* The argument follows the phases of a job: each knows which rows of its  *)
(* review are written and which are not.                                   *)
(***************************************************************************)
EXTENDS ReviewTeam, FiniteSetTheorems, TLAPS

\* Phases in which a job writes its review, and the ones that start or end it.
Making == {"panel", "verify", "gate", "meta", "verify_meta", "set_meta", "enqueue"}
Outside == {"idle", "mark", "start", "mark_done", "mark_failed"}

\* Reviews without a row yet are blank.
RowsBegin ==
    /\ review <= count
    /\ \A r \in Reviews : r > count =>
        /\ status[r] = "absent" /\ queue[r] = "none"
        /\ \A a \in Agents : row[r][a] = NoRow

\* The review a job writes is its own, has a row and is offered to nobody.
OwnReview ==
    /\ phase \in Making => review \in Reviews /\ status[review] = "awaiting_moderation"
    /\ phase \in Making \cup {"error"} /\ review # 0 => queue[review] = "none"
    /\ phase = "start" => review = 0
    /\ job = "done" => phase = "idle"

UsableIn(r) == {i \in Roles : row[r][i].verdict \in {"pass", "warn"}}

\* What is written of it so far; the meta-reviewer is called last.
Written ==
    /\ phase # "meta" => task[Meta] \notin Calls
    /\ phase = "panel" => next = 1
    /\ phase = "verify" => next \in Roles /\ \A i \in 1..next - 1 : row[review][i] # NoRow
    /\ phase \in {"panel", "verify", "gate", "meta", "verify_meta"} => row[review][Meta] = NoRow
    /\ phase \in {"gate", "meta", "verify_meta", "set_meta"} =>
          \A i \in Roles : row[review][i] # NoRow
    /\ phase \in {"meta", "verify_meta", "set_meta"} => ~(Cardinality(UsableIn(review)) < Quorum)
    /\ phase = "set_meta" =>
          row[review][Meta] # NoRow /\ row[review][Meta].answer = output[Meta]

\* And in the end.
CompletedInOrder ==
    /\ phase \in {"enqueue", "mark_done"} =>
        review \in Reviews /\ Complete(review) /\ status[review] # "system_failed"

\* Where no review is being written none is left behind.
NoneLeft ==
    faults = 0 => \A r \in Reviews : status[r] = "awaiting_moderation" =>
        \/ queue[r] \in {"pending", "changes_requested"}
        \/ r = review /\ phase \notin Outside

\* The inductive invariant.
IInv ==
    /\ TypeOK
    /\ RowsBegin
    /\ OwnReview
    /\ Written
    /\ CompletedInOrder
    /\ OfferedIsComplete
    /\ NoneLeft

-----------------------------------------------------------------------------

USE CountsAssumption
USE DEF Roles, Meta, Agents, Citation, Reviews, None, Stub, Outputs, Calls, GateFailed, NoRow

LEMMA InsertRowType ==
    ASSUME JobOK, RowsOK, TeamOK, NEW a \in Agents, NEW v \in {"pass", "warn", "fail"},
           InsertRow(a, v)
    PROVE  RowsOK'
<1>1. Facts(a, output[a], review) \in 0..ReviewBound
    BY DEF JobOK, Facts
<1> QED BY <1>1 DEF RowsOK, TeamOK, InsertRow

LEMMA FinishType ==
    ASSUME TeamOK, NEW a \in Agents, NEW out \in Outputs, NEW paid \in BOOLEAN,
           Finish(a, out, paid), UNCHANGED called
    PROVE  TeamOK'
BY DEF TeamOK, Finish

LEMMA CallType ==
    ASSUME TeamOK, NEW a \in Agents, Call(a)
    PROVE  TeamOK'
BY DEF TeamOK, Call

LEMMA NoTeamType ==
    ASSUME NoTeam, TeamOK, UNCHANGED called
    PROVE  TeamOK' /\ next' \in 1..RoleCount + 1
BY DEF NoTeam, TeamOK

LEMMA FaultType ==
    ASSUME FaultsOK, Fault
    PROVE  FaultsOK'
BY DEF FaultsOK, Fault

LEMMA VerdictsType ==
    ASSUME NEW a \in Agents, NEW out \in Outputs
    PROVE  Verdicts(a, out) \subseteq {"pass", "warn", "fail"}
BY DEF Verdicts

LEMMA TypeStep ==
    ASSUME TypeOK, phase = "verify" => next \in Roles, [Next]_vars
    PROVE  TypeOK'
<1>0. JobOK /\ FaultsOK /\ ReviewsOK /\ RowsOK /\ TeamOK /\ CachesOK
    BY DEF TypeOK
<1> USE <1>0 DEF run, team, records, caches
<1>1. ASSUME NEW r \in 0..ReviewBound, StartJob(r)
      PROVE  TypeOK'
    <2>1. JobOK'
        BY <1>1 DEF JobOK, StartJob
    <2>2. FaultsOK'
        BY <1>1 DEF FaultsOK, StartJob
    <2>3. ReviewsOK'
        BY <1>1 DEF ReviewsOK, StartJob
    <2>4. RowsOK'
        BY <1>1 DEF RowsOK, StartJob
    <2>5. TeamOK'
        BY <1>1 DEF TeamOK, StartJob
    <2>6. CachesOK'
        BY <1>1 DEF CachesOK, StartJob
    <2> QED BY <2>1, <2>2, <2>3, <2>4, <2>5, <2>6 DEF TypeOK
<1>2. CASE MarkRunning
    <2>1. JobOK'
        BY <1>2 DEF JobOK, MarkRunning
    <2>2. FaultsOK'
        BY <1>2 DEF FaultsOK, MarkRunning
    <2>3. ReviewsOK'
        BY <1>2 DEF ReviewsOK, MarkRunning
    <2>4. RowsOK'
        BY <1>2 DEF RowsOK, MarkRunning
    <2>5. TeamOK'
        BY <1>2 DEF TeamOK, MarkRunning
    <2>6. CachesOK'
        BY <1>2 DEF CachesOK, MarkRunning
    <2> QED BY <2>1, <2>2, <2>3, <2>4, <2>5, <2>6 DEF TypeOK
<1>3. CASE Extract
    <2>1. JobOK'
        BY <1>3 DEF JobOK, Extract
    <2>2. FaultsOK'
        BY <1>3 DEF FaultsOK, Extract
    <2>3. ReviewsOK'
        BY <1>3 DEF ReviewsOK, Extract
    <2>4. RowsOK'
        BY <1>3 DEF RowsOK, Extract
    <2>5. TeamOK'
        BY <1>3 DEF TeamOK, Extract
    <2>6. CachesOK'
        BY <1>3 DEF CachesOK, Extract
    <2> QED BY <2>1, <2>2, <2>3, <2>4, <2>5, <2>6 DEF TypeOK
<1>4. CASE StartReview
    <2>1. JobOK'
        <3>1. /\ phase' = "panel" /\ next' = 1 /\ UNCHANGED <<job, attempt, asked>>
              /\ review' = count + 1 /\ count' = count + 1 /\ count + 1 \in Reviews
            BY <1>4 DEF StartReview, InsertReview
        <3> QED BY <3>1 DEF JobOK
    <2>2. FaultsOK'
        BY <1>4 DEF FaultsOK, StartReview
    <2>3. ReviewsOK'
        <3>1. status' \in [Reviews -> {"absent", "awaiting_moderation", "withdrawn", "system_failed"}]
            BY <1>4 DEF ReviewsOK, StartReview, InsertReview
        <3>2. queue' \in [Reviews -> {"none", "pending", "changes_requested", "superseded"}]
            BY <1>4 DEF ReviewsOK, StartReview, InsertReview
        <3>3. LatestNotes \subseteq 0..ReviewBound
            BY DEF LatestNotes, Requested
        <3>4. notes' \in [Reviews -> 0..ReviewBound]
            BY <1>4, <3>3 DEF ReviewsOK, StartReview
        <3> QED BY <1>4, <3>1, <3>2, <3>4 DEF ReviewsOK, StartReview
    <2>4. RowsOK'
        BY <1>4 DEF RowsOK, StartReview
    <2>5. TeamOK'
        BY <1>4 DEF TeamOK, StartReview
    <2>6. CachesOK'
        BY <1>4 DEF CachesOK, StartReview
    <2> QED BY <2>1, <2>2, <2>3, <2>4, <2>5, <2>6 DEF TypeOK
<1>5. CASE Collect
    <2>1. JobOK'
        BY <1>5 DEF JobOK, Collect
    <2>2. FaultsOK'
        BY <1>5 DEF FaultsOK, Collect
    <2>3. ReviewsOK'
        BY <1>5 DEF ReviewsOK, Collect
    <2>4. RowsOK'
        BY <1>5 DEF RowsOK, Collect
    <2>5. TeamOK'
        BY <1>5 DEF TeamOK, Collect
    <2>6. CachesOK'
        BY <1>5 DEF CachesOK, Collect
    <2> QED BY <2>1, <2>2, <2>3, <2>4, <2>5, <2>6 DEF TypeOK
<1>6. CASE Verify
    <2>0. PICK v \in Verdicts(next, output[next]) :
            \/ InsertRow(next, v) /\ Store(next, v) /\ next' = next + 1
               /\ phase' = IF next = RoleCount THEN "gate" ELSE "verify"
            \/ v # "fail" /\ phase' = "error" /\ UNCHANGED <<row, next, cache, faults>>
        BY <1>6 DEF Verify
    <2>00. next \in Roles /\ output[next] \in Outputs /\ v \in {"pass", "warn", "fail"}
        BY <1>6, <2>0, VerdictsType DEF TeamOK, Verify
    <2>1. JobOK'
        BY <1>6, <2>0, <2>00 DEF JobOK, Verify
    <2>2. FaultsOK'
        BY <2>0, FaultType DEF FaultsOK, Store
    <2>3. ReviewsOK'
        BY <1>6 DEF ReviewsOK, Verify
    <2>4. RowsOK'
        BY <2>0, <2>00, InsertRowType DEF RowsOK
    <2>5. TeamOK'
        BY <1>6 DEF Verify, TeamOK
    <2>6. CachesOK'
        BY <1>6, <2>0, <2>00 DEF CachesOK, Verify, Store
    <2> QED BY <2>1, <2>2, <2>3, <2>4, <2>5, <2>6 DEF TypeOK
<1>7. CASE GateFails
    <2>1. JobOK'
        BY <1>7 DEF JobOK, GateFails
    <2>2. FaultsOK'
        BY <1>7 DEF FaultsOK, GateFails
    <2>3. ReviewsOK'
        BY <1>7 DEF ReviewsOK, GateFails
    <2>4. RowsOK'
        BY <1>7 DEF RowsOK, GateFails
    <2>5. TeamOK'
        BY <1>7 DEF TeamOK, GateFails
    <2>6. CachesOK'
        BY <1>7 DEF CachesOK, GateFails
    <2> QED BY <2>1, <2>2, <2>3, <2>4, <2>5, <2>6 DEF TypeOK
<1>8. CASE StartMeta
    <2>1. JobOK'
        BY <1>8 DEF JobOK, StartMeta
    <2>2. FaultsOK'
        BY <1>8, FaultType DEF StartMeta, FaultsOK
    <2>3. ReviewsOK'
        BY <1>8 DEF ReviewsOK, StartMeta
    <2>4. RowsOK'
        BY <1>8 DEF RowsOK, StartMeta
    <2>5. TeamOK'
        <3>1. ASSUME NEW e \in Hits PROVE e.output \in Outputs
            BY DEF Hits, CachesOK
        <3> QED BY <1>8, <3>1, FinishType, CallType DEF StartMeta
    <2>6. CachesOK'
        BY <1>8 DEF CachesOK, StartMeta
    <2> QED BY <2>1, <2>2, <2>3, <2>4, <2>5, <2>6 DEF TypeOK
<1>9. CASE VerifyMeta
    <2>0. Bundle \in Bundles /\ output[Meta] \in Outputs
        BY DEF TeamOK, Bundle, Bundles
    <2>1. JobOK'
        BY <1>9 DEF JobOK, VerifyMeta
    <2>2. FaultsOK'
        BY <1>9, FaultType DEF VerifyMeta, FaultsOK
    <2>3. ReviewsOK'
        BY <1>9 DEF ReviewsOK, VerifyMeta
    <2>4. RowsOK'
        BY <1>9, <2>0, InsertRowType, VerdictsType DEF VerifyMeta
    <2>5. TeamOK'
        BY <1>9 DEF TeamOK, VerifyMeta
    <2>6. CachesOK'
        <3>1. [bundle |-> Bundle, output |-> output[Meta]] \in [bundle : Bundles, output : Outputs]
            BY <2>0
        <3> QED BY <1>9, <3>1 DEF CachesOK, VerifyMeta
    <2> QED BY <2>1, <2>2, <2>3, <2>4, <2>5, <2>6 DEF TypeOK
<1>10. CASE SetMeta
    <2>1. JobOK'
        BY <1>10 DEF JobOK, SetMeta
    <2>2. FaultsOK'
        BY <1>10 DEF FaultsOK, SetMeta
    <2>3. ReviewsOK'
        BY <1>10 DEF ReviewsOK, TeamOK, SetMeta
    <2>4. RowsOK'
        BY <1>10 DEF RowsOK, SetMeta
    <2>5. TeamOK'
        BY <1>10 DEF TeamOK, SetMeta
    <2>6. CachesOK'
        BY <1>10 DEF CachesOK, SetMeta
    <2> QED BY <2>1, <2>2, <2>3, <2>4, <2>5, <2>6 DEF TypeOK
<1>11. CASE Enqueue
    <2>1. JobOK'
        BY <1>11, NoTeamType DEF Enqueue, JobOK
    <2>2. FaultsOK'
        BY <1>11, FaultType DEF Enqueue, FaultsOK
    <2>3. ReviewsOK'
        BY <1>11 DEF ReviewsOK, Enqueue
    <2>4. RowsOK'
        BY <1>11 DEF RowsOK, Enqueue
    <2>5. TeamOK'
        BY <1>11, NoTeamType DEF Enqueue
    <2>6. CachesOK'
        BY <1>11 DEF CachesOK, Enqueue
    <2> QED BY <2>1, <2>2, <2>3, <2>4, <2>5, <2>6 DEF TypeOK
<1>12. CASE MarkDone
    <2>1. JobOK'
        BY <1>12 DEF JobOK, MarkDone
    <2>2. FaultsOK'
        BY <1>12 DEF FaultsOK, MarkDone
    <2>3. ReviewsOK'
        BY <1>12 DEF ReviewsOK, MarkDone
    <2>4. RowsOK'
        BY <1>12 DEF RowsOK, MarkDone
    <2>5. TeamOK'
        BY <1>12 DEF TeamOK, MarkDone
    <2>6. CachesOK'
        BY <1>12 DEF CachesOK, MarkDone
    <2> QED BY <2>1, <2>2, <2>3, <2>4, <2>5, <2>6 DEF TypeOK
<1>13. CASE Fail
    <2>1. JobOK'
        BY <1>13, NoTeamType DEF Fail, JobOK
    <2>2. FaultsOK'
        BY <1>13, FaultType DEF Fail, FaultsOK
    <2>3. ReviewsOK'
        BY <1>13 DEF ReviewsOK, Fail
    <2>4. RowsOK'
        BY <1>13 DEF RowsOK, Fail
    <2>5. TeamOK'
        BY <1>13, NoTeamType DEF Fail
    <2>6. CachesOK'
        BY <1>13 DEF CachesOK, Fail
    <2> QED BY <2>1, <2>2, <2>3, <2>4, <2>5, <2>6 DEF TypeOK
<1>14. CASE MarkFailed
    <2>1. JobOK'
        BY <1>14 DEF JobOK, MarkFailed
    <2>2. FaultsOK'
        BY <1>14 DEF FaultsOK, MarkFailed
    <2>3. ReviewsOK'
        BY <1>14 DEF ReviewsOK, MarkFailed
    <2>4. RowsOK'
        BY <1>14 DEF RowsOK, MarkFailed
    <2>5. TeamOK'
        BY <1>14 DEF TeamOK, MarkFailed
    <2>6. CachesOK'
        BY <1>14 DEF CachesOK, MarkFailed
    <2> QED BY <2>1, <2>2, <2>3, <2>4, <2>5, <2>6 DEF TypeOK
<1>15. ASSUME NEW i \in Roles, Take(i)
      PROVE  TypeOK'
    <2>1. JobOK'
        BY <1>15 DEF JobOK, Take
    <2>2. FaultsOK'
        BY <1>15, FaultType DEF Take, FaultsOK
    <2>3. ReviewsOK'
        BY <1>15 DEF ReviewsOK, Take
    <2>4. RowsOK'
        BY <1>15 DEF RowsOK, Take
    <2>5. TeamOK'
        <3>1. cache[i] \in Outputs
            BY DEF CachesOK
        <3> QED BY <1>15, <3>1, FinishType, CallType DEF Take
    <2>6. CachesOK'
        BY <1>15 DEF CachesOK, Take
    <2> QED BY <2>1, <2>2, <2>3, <2>4, <2>5, <2>6 DEF TypeOK
<1>16. ASSUME NEW a \in Agents, CallReturns(a)
      PROVE  TypeOK'
    <2>0. AfterCall(task[a]) \subseteq Calls
        BY DEF AfterCall
    <2>00. UNCHANGED <<called, next>> /\ review \in Outputs
        BY <1>16 DEF CallReturns, JobOK
    <2>1. JobOK'
        BY <1>16 DEF JobOK, CallReturns
    <2>2. FaultsOK'
        BY <1>16 DEF FaultsOK, CallReturns
    <2>3. ReviewsOK'
        BY <1>16 DEF ReviewsOK, CallReturns
    <2>4. RowsOK'
        BY <1>16 DEF RowsOK, CallReturns
    <2>5. TeamOK'
        <3>1. CASE \E out \in {review, Stub} : Finish(a, out, TRUE)
            BY <2>00, <3>1, FinishType
        <3>2. CASE \E stage \in AfterCall(task[a]) :
                    task' = [task EXCEPT ![a] = stage] /\ UNCHANGED <<output, fresh>>
            BY <2>0, <2>00, <3>2 DEF TeamOK
        <3> QED BY <1>16, <3>1, <3>2 DEF CallReturns
    <2>6. CachesOK'
        BY <1>16 DEF CachesOK, CallReturns
    <2> QED BY <2>1, <2>2, <2>3, <2>4, <2>5, <2>6 DEF TypeOK
<1>17. CASE DatabaseError
    <2>1. JobOK'
        BY <1>17 DEF JobOK, DatabaseError
    <2>2. FaultsOK'
        BY <1>17, FaultType DEF DatabaseError
    <2>3. ReviewsOK'
        BY <1>17 DEF ReviewsOK, DatabaseError
    <2>4. RowsOK'
        BY <1>17 DEF RowsOK, DatabaseError
    <2>5. TeamOK'
        BY <1>17 DEF TeamOK, DatabaseError
    <2>6. CachesOK'
        BY <1>17 DEF CachesOK, DatabaseError
    <2> QED BY <2>1, <2>2, <2>3, <2>4, <2>5, <2>6 DEF TypeOK
<1>18. CASE Crash
    <2>1. JobOK'
        BY <1>18, NoTeamType DEF Crash, JobOK
    <2>2. FaultsOK'
        BY <1>18, FaultType DEF Crash, FaultsOK
    <2>3. ReviewsOK'
        BY <1>18 DEF ReviewsOK, Crash
    <2>4. RowsOK'
        BY <1>18 DEF RowsOK, Crash
    <2>5. TeamOK'
        BY <1>18, NoTeamType DEF Crash
    <2>6. CachesOK'
        BY <1>18 DEF CachesOK, Crash
    <2> QED BY <2>1, <2>2, <2>3, <2>4, <2>5, <2>6 DEF TypeOK
<1>19. CASE UNCHANGED vars
    BY <1>19 DEF vars, TypeOK, JobOK, FaultsOK, ReviewsOK, RowsOK, TeamOK, CachesOK
<1> QED BY <1>1, <1>2, <1>3, <1>4, <1>5, <1>6, <1>7, <1>8, <1>9, <1>10, <1>11, <1>12, <1>13, <1>14, <1>15, <1>16, <1>17, <1>18, <1>19 DEF Next, Step

-----------------------------------------------------------------------------

\* Rows that stay leave what they say.
LEMMA CompleteFrame ==
    ASSUME NEW r \in Reviews, row'[r] = row[r], synthesis'[r] = synthesis[r]
    PROVE  Complete(r)' <=> Complete(r)
BY DEF Complete

LEMMA UsableFrame ==
    ASSUME NEW r \in Reviews, row'[r] = row[r]
    PROVE  UsableIn(r)' = UsableIn(r)
BY DEF UsableIn

\* What an action of a job does to the row of its review.
LEMMA InsertRowEffect ==
    ASSUME RowsOK, review \in Reviews, NEW a \in Agents, NEW v \in {"pass", "warn", "fail"},
           InsertRow(a, v)
    PROVE  /\ \A r \in Reviews : r # review => row'[r] = row[r]
           /\ \A b \in Agents : b # a => row'[review][b] = row[review][b]
           /\ row'[review][a] = [answer |-> output[a], facts |-> Facts(a, output[a], review), verdict |-> v]
           /\ row'[review][a] # NoRow
BY DEF RowsOK, InsertRow

LEMMA InvariantStep ==
    ASSUME IInv, [Next]_vars
    PROVE  (RowsBegin /\ OwnReview /\ Written /\ CompletedInOrder
            /\ OfferedIsComplete /\ NoneLeft)'
<1>0. /\ JobOK /\ ReviewsOK /\ RowsOK /\ TeamOK /\ FaultsOK
      /\ RowsBegin /\ OwnReview /\ Written /\ CompletedInOrder
      /\ OfferedIsComplete /\ NoneLeft
    BY DEF IInv, TypeOK
<1> USE DEF run, team, records, caches
<1>1. ASSUME NEW r \in 0..ReviewBound, StartJob(r)
      PROVE  (RowsBegin /\ OwnReview /\ Written /\ CompletedInOrder
              /\ OfferedIsComplete /\ NoneLeft)'
    <2>1. RowsBegin'
        BY <1>0, <1>1 DEF RowsBegin, OwnReview, JobOK, ReviewsOK, RowsOK, StartJob
    <2>2. OwnReview'
        BY <1>0, <1>1 DEF OwnReview, RowsBegin, JobOK, ReviewsOK, Making, StartJob
    <2>3. Written'
        BY <1>0, <1>1, UsableFrame DEF Written, OwnReview, RowsBegin, JobOK, RowsOK, TeamOK, Making, StartJob
    <2>4. CompletedInOrder'
        BY <1>0, <1>1, CompleteFrame DEF CompletedInOrder, Written, OwnReview, Making, ReviewsOK, StartJob
    <2>5. OfferedIsComplete'
        BY <1>0, <1>1, CompleteFrame DEF OfferedIsComplete, CompletedInOrder, OwnReview, RowsBegin, Making, ReviewsOK, JobOK, StartJob
    <2>6. NoneLeft'
        BY <1>0, <1>1 DEF NoneLeft, OwnReview, RowsBegin, FaultsOK, Outside, Making, JobOK, ReviewsOK, StartJob
    <2> QED BY <2>1, <2>2, <2>3, <2>4, <2>5, <2>6
<1>2. CASE MarkRunning
    <2>1. RowsBegin'
        BY <1>0, <1>2 DEF RowsBegin, OwnReview, JobOK, ReviewsOK, RowsOK, MarkRunning
    <2>2. OwnReview'
        BY <1>0, <1>2 DEF OwnReview, RowsBegin, JobOK, ReviewsOK, Making, MarkRunning
    <2>3. Written'
        BY <1>0, <1>2, UsableFrame DEF Written, OwnReview, RowsBegin, JobOK, RowsOK, TeamOK, Making, MarkRunning
    <2>4. CompletedInOrder'
        BY <1>0, <1>2, CompleteFrame DEF CompletedInOrder, Written, OwnReview, Making, ReviewsOK, MarkRunning
    <2>5. OfferedIsComplete'
        BY <1>0, <1>2, CompleteFrame DEF OfferedIsComplete, CompletedInOrder, OwnReview, RowsBegin, Making, ReviewsOK, JobOK, MarkRunning
    <2>6. NoneLeft'
        BY <1>0, <1>2 DEF NoneLeft, OwnReview, RowsBegin, FaultsOK, Outside, Making, JobOK, ReviewsOK, MarkRunning
    <2> QED BY <2>1, <2>2, <2>3, <2>4, <2>5, <2>6
<1>3. CASE Extract
    <2>1. RowsBegin'
        BY <1>0, <1>3 DEF RowsBegin, OwnReview, JobOK, ReviewsOK, RowsOK, Extract
    <2>2. OwnReview'
        BY <1>0, <1>3 DEF OwnReview, RowsBegin, JobOK, ReviewsOK, Making, Extract
    <2>3. Written'
        BY <1>0, <1>3, UsableFrame DEF Written, OwnReview, RowsBegin, JobOK, RowsOK, TeamOK, Making, Extract
    <2>4. CompletedInOrder'
        BY <1>0, <1>3, CompleteFrame DEF CompletedInOrder, Written, OwnReview, Making, ReviewsOK, Extract
    <2>5. OfferedIsComplete'
        BY <1>0, <1>3, CompleteFrame DEF OfferedIsComplete, CompletedInOrder, OwnReview, RowsBegin, Making, ReviewsOK, JobOK, Extract
    <2>6. NoneLeft'
        BY <1>0, <1>3 DEF NoneLeft, OwnReview, RowsBegin, FaultsOK, Outside, Making, JobOK, ReviewsOK, Extract
    <2> QED BY <2>1, <2>2, <2>3, <2>4, <2>5, <2>6
<1>4. CASE StartReview
    <2>0. /\ review' = count + 1 /\ review' \in Reviews /\ count' = count + 1
          /\ phase = "start" /\ phase' = "panel" /\ next' = 1 /\ task'[Meta] = "none"
          /\ UNCHANGED <<job, row, synthesis, faults>>
        BY <1>4 DEF StartReview, InsertReview
    <2>i. InsertReview(count + 1)
        BY <1>4 DEF StartReview
    <2>q. \A q \in Reviews : queue'[q] = queue[q] \/ queue[q] # "none"
        BY <2>i DEF InsertReview
    <2>n. /\ status[review'] = "absent" /\ queue[review'] = "none"
          /\ queue'[review'] = "none"
        <3>1. review' > count
            BY <1>0, <2>0 DEF JobOK
        <3>2. status[review'] = "absent" /\ queue[review'] = "none"
            BY <1>0, <2>0, <3>1 DEF RowsBegin
        <3> QED BY <2>0, <2>q, <3>2
    <2>c. count \in Nat /\ count + 1 \in Nat
        BY <1>0 DEF JobOK
    <2>s. /\ status'[review'] = "awaiting_moderation"
          /\ \A q \in Reviews : q # review' =>
                status'[q] = IF status[q] = "awaiting_moderation" THEN "withdrawn" ELSE status[q]
        <3>1. \A q \in Reviews : q = count + 1 => status'[q] = "awaiting_moderation"
            BY <2>0, <2>i, <2>c, <2>n DEF InsertReview, Replaced
        <3>2. \A q \in Reviews : q # count + 1 =>
                status'[q] = IF status[q] = "awaiting_moderation" THEN "withdrawn" ELSE status[q]
            BY <2>i, <2>c DEF InsertReview, Replaced
        <3> QED BY <2>0, <3>1, <3>2
    <2>1. RowsBegin'
        <3>1. ASSUME NEW q \in Reviews, q > count'
              PROVE  status'[q] = "absent" /\ queue'[q] = "none" /\ \A a \in Agents : row'[q][a] = NoRow
            <4>1. q > count /\ q # review'
                BY <2>0, <2>c, <3>1
            <4>2. status[q] = "absent" /\ queue[q] = "none" /\ \A a \in Agents : row[q][a] = NoRow
                BY <1>0, <4>1 DEF RowsBegin
            <4> QED BY <2>0, <2>s, <2>q, <4>1, <4>2
        <3>2. review' <= count'
            BY <2>0, <2>c
        <3> QED BY <3>1, <3>2 DEF RowsBegin
    <2>2. OwnReview'
        <3>1. job' # "done"
            BY <1>0, <2>0 DEF OwnReview
        <3> QED BY <2>0, <2>n, <2>s, <3>1 DEF OwnReview
    <2>3. Written'
        BY <1>0, <2>0 DEF Written, RowsBegin, JobOK
    <2>4. CompletedInOrder'
        BY <2>0 DEF CompletedInOrder
    <2>5. OfferedIsComplete'
        <3>1. ASSUME NEW q \in Reviews, queue'[q] # "none" \/ (job' = "done" /\ q = review')
              PROVE  Complete(q)' /\ status'[q] # "system_failed"
            <4>1. job' # "done" /\ q # review'
                BY <1>0, <2>0, <2>n, <3>1 DEF OwnReview
            <4>2. queue[q] # "none"
                BY <2>q, <3>1, <4>1
            <4>3. Complete(q) /\ status[q] # "system_failed"
                BY <1>0, <4>2 DEF OfferedIsComplete
            <4>4. Complete(q)'
                BY <2>0, <4>3, CompleteFrame
            <4> QED BY <2>s, <4>1, <4>3, <4>4
        <3> QED BY <3>1 DEF OfferedIsComplete
    <2>6. NoneLeft'
        <3>1. \A q \in Reviews : status'[q] = "awaiting_moderation" => q = review'
            BY <2>s
        <3> QED BY <2>0, <3>1 DEF NoneLeft, Outside
    <2> QED BY <2>1, <2>2, <2>3, <2>4, <2>5, <2>6
<1>5. CASE Collect
    <2>1. RowsBegin'
        BY <1>0, <1>5 DEF RowsBegin, OwnReview, JobOK, ReviewsOK, RowsOK, Collect
    <2>2. OwnReview'
        BY <1>0, <1>5 DEF OwnReview, RowsBegin, JobOK, ReviewsOK, Making, Collect
    <2>3. Written'
        BY <1>0, <1>5, UsableFrame DEF Written, OwnReview, RowsBegin, JobOK, RowsOK, TeamOK, Making, Collect
    <2>4. CompletedInOrder'
        BY <1>0, <1>5, CompleteFrame DEF CompletedInOrder, Written, OwnReview, Making, ReviewsOK, Collect
    <2>5. OfferedIsComplete'
        BY <1>0, <1>5, CompleteFrame DEF OfferedIsComplete, CompletedInOrder, OwnReview, RowsBegin, Making, ReviewsOK, JobOK, Collect
    <2>6. NoneLeft'
        BY <1>0, <1>5 DEF NoneLeft, OwnReview, RowsBegin, FaultsOK, Outside, Making, JobOK, ReviewsOK, Collect
    <2> QED BY <2>1, <2>2, <2>3, <2>4, <2>5, <2>6
<1>6. CASE Verify
    <2>0. PICK v \in Verdicts(next, output[next]) :
            \/ InsertRow(next, v) /\ Store(next, v) /\ next' = next + 1
               /\ phase' = IF next = RoleCount THEN "gate" ELSE "verify"
            \/ v # "fail" /\ phase' = "error" /\ UNCHANGED <<row, next, cache, faults>>
        BY <1>6 DEF Verify
    <2>00. next \in Roles /\ output[next] \in Outputs /\ v \in {"pass", "warn", "fail"}
        BY <1>0, <1>6, <2>0, VerdictsType DEF TeamOK, Written, Verify
    <2>r. /\ \A r \in Reviews : r # review => row'[r] = row[r]
          /\ \A b \in Agents : b # next => row'[review][b] = row[review][b]
          /\ phase' \in {"verify", "gate"} => row'[review][next] # NoRow /\ next' = next + 1
          /\ phase' = "verify" => next # RoleCount
          /\ phase' = "gate" => next = RoleCount
          /\ phase' \in {"verify", "gate", "error"}
        <3>1. CASE InsertRow(next, v) /\ next' = next + 1
                        /\ phase' = IF next = RoleCount THEN "gate" ELSE "verify"
            <4>1. /\ \A r \in Reviews : r # review => row'[r] = row[r]
                  /\ \A b \in Agents : b # next => row'[review][b] = row[review][b]
                  /\ row'[review][next] # NoRow
                <5>1. review \in Reviews
                    BY <1>0, <1>6 DEF OwnReview, Making, Verify
                <5> QED BY <1>0, <2>00, <3>1, <5>1, InsertRowEffect
            <4> QED BY <3>1, <4>1
        <3>2. CASE phase' = "error" /\ UNCHANGED row
            BY <3>2
        <3> QED BY <2>0, <3>1, <3>2
    <2>s. review \in Reviews /\ UNCHANGED <<review, count, status, queue, job, synthesis, task, output>>
        BY <1>0, <1>6 DEF Verify, OwnReview, Making
    <2>1. RowsBegin'
        BY <1>0, <2>r, <2>s DEF RowsBegin, JobOK
    <2>2. OwnReview'
        BY <1>0, <1>6, <2>r, <2>s DEF OwnReview, Making, Verify
    <2>3. Written'
        BY <1>0, <1>6, <2>r, <2>s, <2>00 DEF Written, Verify
    <2>4. CompletedInOrder'
        BY <2>r DEF CompletedInOrder
    <2>5. OfferedIsComplete'
        <3>1. \A r \in Reviews : r # review => (Complete(r)' <=> Complete(r))
            BY <2>r, <2>s, CompleteFrame
        <3> QED BY <1>0, <1>6, <2>s, <3>1 DEF OfferedIsComplete, OwnReview, Making, Verify
    <2>6. NoneLeft'
        BY <1>0, <1>6, <2>0, <2>r, <2>s DEF NoneLeft, Outside, Verify, Store, Fault, FaultsOK
    <2> QED BY <2>1, <2>2, <2>3, <2>4, <2>5, <2>6
<1>7. CASE GateFails
    <2>1. RowsBegin'
        BY <1>0, <1>7 DEF RowsBegin, OwnReview, JobOK, ReviewsOK, RowsOK, GateFails
    <2>2. OwnReview'
        BY <1>0, <1>7 DEF OwnReview, RowsBegin, JobOK, ReviewsOK, Making, GateFails
    <2>3. Written'
        BY <1>0, <1>7, UsableFrame DEF Written, OwnReview, RowsBegin, JobOK, RowsOK, TeamOK, Making, GateFails
    <2>4. CompletedInOrder'
        <3>1. review \in Reviews /\ synthesis'[review] = GateFailed /\ status'[review] # "system_failed"
            BY <1>0, <1>7 DEF OwnReview, Making, GateFails, ReviewsOK
        <3>2. Complete(review)'
            BY <1>0, <1>7, <3>1 DEF Complete, Written, GateFails, Usable
        <3> QED BY <1>7, <3>1, <3>2 DEF CompletedInOrder, GateFails
    <2>5. OfferedIsComplete'
        BY <1>0, <1>7, CompleteFrame DEF OfferedIsComplete, CompletedInOrder, OwnReview, RowsBegin, Making, ReviewsOK, JobOK, GateFails
    <2>6. NoneLeft'
        BY <1>0, <1>7 DEF NoneLeft, OwnReview, RowsBegin, FaultsOK, Outside, Making, JobOK, ReviewsOK, GateFails
    <2> QED BY <2>1, <2>2, <2>3, <2>4, <2>5, <2>6
<1>8. CASE StartMeta
    <2>1. RowsBegin'
        BY <1>0, <1>8 DEF RowsBegin, OwnReview, JobOK, ReviewsOK, RowsOK, StartMeta, Fault, Call, Finish
    <2>2. OwnReview'
        BY <1>0, <1>8 DEF OwnReview, RowsBegin, JobOK, ReviewsOK, Making, StartMeta, Fault, Call, Finish
    <2>3. Written'
        <3>0. IsFiniteSet(Roles) /\ Usable \in SUBSET Roles
            BY FS_Interval DEF Usable
        <3>1. Cardinality(Usable) \in Nat /\ UsableIn(review) = Usable
            BY <3>0, FS_Subset, FS_CardinalityType DEF Usable, UsableIn
        <3>2. ~(Cardinality(UsableIn(review)) < Quorum)
            BY <1>8, <3>1 DEF StartMeta
        <3>3. UNCHANGED <<review, row, next>> /\ UsableIn(review)' = UsableIn(review)
            BY <1>0, <1>8, UsableFrame DEF StartMeta, OwnReview, Making
        <3>4. \/ phase' = "meta"
              \/ phase' = "verify_meta" /\ task'[Meta] \notin Calls
            BY <1>0, <1>8 DEF StartMeta, Finish, TeamOK
        <3> QED BY <1>0, <1>8, <3>2, <3>3, <3>4 DEF Written, StartMeta
    <2>4. CompletedInOrder'
        BY <1>0, <1>8, CompleteFrame DEF CompletedInOrder, Written, OwnReview, Making, ReviewsOK, StartMeta, Fault, Call, Finish
    <2>5. OfferedIsComplete'
        BY <1>0, <1>8, CompleteFrame DEF OfferedIsComplete, CompletedInOrder, OwnReview, RowsBegin, Making, ReviewsOK, JobOK, StartMeta, Fault, Call, Finish
    <2>6. NoneLeft'
        BY <1>0, <1>8 DEF NoneLeft, OwnReview, RowsBegin, FaultsOK, Outside, Making, JobOK, ReviewsOK, StartMeta, Fault, Call, Finish
    <2> QED BY <2>1, <2>2, <2>3, <2>4, <2>5, <2>6
<1>9. CASE VerifyMeta
    <2>r. /\ \A r \in Reviews : r # review => row'[r] = row[r]
          /\ \A i \in Roles : row'[review][i] = row[review][i]
          /\ row'[review][Meta] # NoRow /\ row'[review][Meta].answer = output[Meta]
        <3>1. review \in Reviews
            BY <1>0, <1>9 DEF OwnReview, Making, VerifyMeta
        <3>2. PICK v \in {"pass", "warn", "fail"} : InsertRow(Meta, v)
            BY <1>0, <1>9, VerdictsType DEF VerifyMeta, TeamOK
        <3>3. \A i \in Roles : i # Meta
            OBVIOUS
        <3>4. /\ \A r \in Reviews : r # review => row'[r] = row[r]
              /\ \A b \in Agents : b # Meta => row'[review][b] = row[review][b]
              /\ row'[review][Meta] = [answer |-> output[Meta], facts |-> Facts(Meta, output[Meta], review), verdict |-> v]
              /\ row'[review][Meta] # NoRow
            BY <1>0, <3>1, <3>2, InsertRowEffect
        <3> QED BY <3>3, <3>4
    <2>s. /\ review \in Reviews /\ phase' = "set_meta"
          /\ UNCHANGED <<review, count, status, queue, job, synthesis, task, output>>
        BY <1>0, <1>9 DEF VerifyMeta, OwnReview, Making
    <2>1. RowsBegin'
        BY <1>0, <2>r, <2>s DEF RowsBegin, JobOK
    <2>2. OwnReview'
        BY <1>0, <1>9, <2>s DEF OwnReview, Making, VerifyMeta
    <2>3. Written'
        <3>1. UsableIn(review)' = UsableIn(review)
            BY <2>r, <2>s DEF UsableIn
        <3> QED BY <1>0, <1>9, <2>r, <2>s, <3>1 DEF Written, VerifyMeta
    <2>4. CompletedInOrder'
        BY <2>s DEF CompletedInOrder
    <2>5. OfferedIsComplete'
        <3>1. \A r \in Reviews : r # review => (Complete(r)' <=> Complete(r))
            BY <2>r, <2>s, CompleteFrame
        <3> QED BY <1>0, <1>9, <2>s, <3>1 DEF OfferedIsComplete, OwnReview, Making, VerifyMeta
    <2>6. NoneLeft'
        BY <1>0, <1>9 DEF NoneLeft, OwnReview, RowsBegin, FaultsOK, Outside, Making, JobOK, ReviewsOK, VerifyMeta, Fault
    <2> QED BY <2>1, <2>2, <2>3, <2>4, <2>5, <2>6
<1>10. CASE SetMeta
    <2>1. RowsBegin'
        BY <1>0, <1>10 DEF RowsBegin, OwnReview, JobOK, ReviewsOK, RowsOK, SetMeta
    <2>2. OwnReview'
        BY <1>0, <1>10 DEF OwnReview, RowsBegin, JobOK, ReviewsOK, Making, SetMeta
    <2>3. Written'
        BY <1>0, <1>10, UsableFrame DEF Written, OwnReview, RowsBegin, JobOK, RowsOK, TeamOK, Making, SetMeta
    <2>4. CompletedInOrder'
        <3>1. review \in Reviews /\ synthesis'[review] = output[Meta] /\ status'[review] # "system_failed"
            BY <1>0, <1>10 DEF OwnReview, Making, SetMeta, ReviewsOK
        <3>2. Complete(review)'
            BY <1>0, <1>10, <3>1 DEF Complete, Written, SetMeta, UsableIn
        <3> QED BY <1>10, <3>1, <3>2 DEF CompletedInOrder, SetMeta
    <2>5. OfferedIsComplete'
        BY <1>0, <1>10, CompleteFrame DEF OfferedIsComplete, CompletedInOrder, OwnReview, RowsBegin, Making, ReviewsOK, JobOK, SetMeta
    <2>6. NoneLeft'
        BY <1>0, <1>10 DEF NoneLeft, OwnReview, RowsBegin, FaultsOK, Outside, Making, JobOK, ReviewsOK, SetMeta
    <2> QED BY <2>1, <2>2, <2>3, <2>4, <2>5, <2>6
<1>11. CASE Enqueue
    <2>1. RowsBegin'
        BY <1>0, <1>11 DEF RowsBegin, OwnReview, JobOK, ReviewsOK, RowsOK, Enqueue, Fault, NoTeam
    <2>2. OwnReview'
        BY <1>0, <1>11 DEF OwnReview, RowsBegin, JobOK, ReviewsOK, Making, Enqueue, Fault, NoTeam
    <2>3. Written'
        BY <1>0, <1>11, UsableFrame DEF Written, OwnReview, RowsBegin, JobOK, RowsOK, TeamOK, Making, Enqueue, Fault, NoTeam
    <2>4. CompletedInOrder'
        BY <1>0, <1>11, CompleteFrame DEF CompletedInOrder, Written, OwnReview, Making, ReviewsOK, Enqueue, Fault, NoTeam
    <2>5. OfferedIsComplete'
        BY <1>0, <1>11, CompleteFrame DEF OfferedIsComplete, CompletedInOrder, OwnReview, RowsBegin, Making, ReviewsOK, JobOK, Enqueue, Fault, NoTeam
    <2>6. NoneLeft'
        BY <1>0, <1>11 DEF NoneLeft, OwnReview, RowsBegin, FaultsOK, Outside, Making, JobOK, ReviewsOK, Enqueue, Fault, NoTeam
    <2> QED BY <2>1, <2>2, <2>3, <2>4, <2>5, <2>6
<1>12. CASE MarkDone
    <2>1. RowsBegin'
        BY <1>0, <1>12 DEF RowsBegin, OwnReview, JobOK, ReviewsOK, RowsOK, MarkDone
    <2>2. OwnReview'
        BY <1>0, <1>12 DEF OwnReview, RowsBegin, JobOK, ReviewsOK, Making, MarkDone
    <2>3. Written'
        BY <1>0, <1>12, UsableFrame DEF Written, OwnReview, RowsBegin, JobOK, RowsOK, TeamOK, Making, MarkDone
    <2>4. CompletedInOrder'
        BY <1>0, <1>12, CompleteFrame DEF CompletedInOrder, Written, OwnReview, Making, ReviewsOK, MarkDone
    <2>5. OfferedIsComplete'
        BY <1>0, <1>12, CompleteFrame DEF OfferedIsComplete, CompletedInOrder, OwnReview, RowsBegin, Making, ReviewsOK, JobOK, MarkDone
    <2>6. NoneLeft'
        BY <1>0, <1>12 DEF NoneLeft, OwnReview, RowsBegin, FaultsOK, Outside, Making, JobOK, ReviewsOK, MarkDone
    <2> QED BY <2>1, <2>2, <2>3, <2>4, <2>5, <2>6
<1>13. CASE Fail
    <2>1. RowsBegin'
        <3>1. /\ UNCHANGED <<review, count, row, queue>>
              /\ \A r \in Reviews : r # review => status'[r] = status[r]
            BY <1>0, <1>13 DEF Fail, ReviewsOK
        <3>2. \A r \in Reviews : r > count => r # review
            BY <1>0 DEF RowsBegin, JobOK
        <3> QED BY <1>0, <3>1, <3>2 DEF RowsBegin
    <2>2. OwnReview'
        BY <1>0, <1>13 DEF OwnReview, RowsBegin, JobOK, ReviewsOK, Making, Fail, Fault, NoTeam
    <2>3. Written'
        BY <1>0, <1>13, UsableFrame DEF Written, OwnReview, RowsBegin, JobOK, RowsOK, TeamOK, Making, Fail, Fault, NoTeam
    <2>4. CompletedInOrder'
        BY <1>0, <1>13, CompleteFrame DEF CompletedInOrder, Written, OwnReview, Making, ReviewsOK, Fail, Fault, NoTeam
    <2>5. OfferedIsComplete'
        BY <1>0, <1>13, CompleteFrame DEF OfferedIsComplete, CompletedInOrder, OwnReview, RowsBegin, Making, ReviewsOK, JobOK, Fail, Fault, NoTeam
    <2>6. NoneLeft'
        BY <1>0, <1>13 DEF NoneLeft, OwnReview, RowsBegin, FaultsOK, Outside, Making, JobOK, ReviewsOK, Fail, Fault, NoTeam
    <2> QED BY <2>1, <2>2, <2>3, <2>4, <2>5, <2>6
<1>14. CASE MarkFailed
    <2>1. RowsBegin'
        BY <1>0, <1>14 DEF RowsBegin, OwnReview, JobOK, ReviewsOK, RowsOK, MarkFailed
    <2>2. OwnReview'
        BY <1>0, <1>14 DEF OwnReview, RowsBegin, JobOK, ReviewsOK, Making, MarkFailed
    <2>3. Written'
        BY <1>0, <1>14, UsableFrame DEF Written, OwnReview, RowsBegin, JobOK, RowsOK, TeamOK, Making, MarkFailed
    <2>4. CompletedInOrder'
        BY <1>0, <1>14, CompleteFrame DEF CompletedInOrder, Written, OwnReview, Making, ReviewsOK, MarkFailed
    <2>5. OfferedIsComplete'
        BY <1>0, <1>14, CompleteFrame DEF OfferedIsComplete, CompletedInOrder, OwnReview, RowsBegin, Making, ReviewsOK, JobOK, MarkFailed
    <2>6. NoneLeft'
        BY <1>0, <1>14 DEF NoneLeft, OwnReview, RowsBegin, FaultsOK, Outside, Making, JobOK, ReviewsOK, MarkFailed
    <2> QED BY <2>1, <2>2, <2>3, <2>4, <2>5, <2>6
<1>15. ASSUME NEW i \in Roles, Take(i)
      PROVE  (RowsBegin /\ OwnReview /\ Written /\ CompletedInOrder
              /\ OfferedIsComplete /\ NoneLeft)'
    <2>1. RowsBegin'
        BY <1>0, <1>15 DEF RowsBegin, OwnReview, JobOK, ReviewsOK, RowsOK, Take, Fault, Call, Finish
    <2>2. OwnReview'
        BY <1>0, <1>15 DEF OwnReview, RowsBegin, JobOK, ReviewsOK, Making, Take, Fault, Call, Finish
    <2>3. Written'
        BY <1>0, <1>15, UsableFrame DEF Written, OwnReview, RowsBegin, JobOK, RowsOK, TeamOK, Making, Take, Fault, Call, Finish
    <2>4. CompletedInOrder'
        BY <1>0, <1>15, CompleteFrame DEF CompletedInOrder, Written, OwnReview, Making, ReviewsOK, Take, Fault, Call, Finish
    <2>5. OfferedIsComplete'
        BY <1>0, <1>15, CompleteFrame DEF OfferedIsComplete, CompletedInOrder, OwnReview, RowsBegin, Making, ReviewsOK, JobOK, Take, Fault, Call, Finish
    <2>6. NoneLeft'
        BY <1>0, <1>15 DEF NoneLeft, OwnReview, RowsBegin, FaultsOK, Outside, Making, JobOK, ReviewsOK, Take, Fault, Call, Finish
    <2> QED BY <2>1, <2>2, <2>3, <2>4, <2>5, <2>6
<1>16. ASSUME NEW a \in Agents, CallReturns(a)
      PROVE  (RowsBegin /\ OwnReview /\ Written /\ CompletedInOrder
              /\ OfferedIsComplete /\ NoneLeft)'
    <2>p. \/ phase' = phase /\ (a = Meta => phase = "meta" /\ task'[a] # "done")
          \/ a = Meta /\ phase = "meta" /\ phase' = "verify_meta" /\ task'[a] = "done"
        BY <1>0, <1>16 DEF CallReturns, Written
    <2>q. UNCHANGED <<run, count, records, next>> /\ (a # Meta => task'[Meta] = task[Meta])
        BY <1>0, <1>16 DEF CallReturns, Finish, TeamOK
    <2>t. phase = "set_meta" => output'[Meta] = output[Meta]
        BY <1>0, <1>16 DEF CallReturns, Finish, TeamOK, Written
    <2>1. RowsBegin'
        BY <1>0, <1>16 DEF RowsBegin, OwnReview, JobOK, ReviewsOK, RowsOK, CallReturns, Finish
    <2>2. OwnReview'
        BY <1>0, <2>p, <2>q DEF OwnReview, Making
    <2>3. Written'
        <3>1. review \in Reviews => UsableIn(review)' = UsableIn(review)
            BY <2>q, UsableFrame
        <3> QED BY <1>0, <2>p, <2>q, <2>t, <3>1 DEF Written, OwnReview, Making
    <2>4. CompletedInOrder'
        BY <1>0, <1>16, CompleteFrame DEF CompletedInOrder, Written, OwnReview, Making, ReviewsOK, CallReturns, Finish
    <2>5. OfferedIsComplete'
        BY <1>0, <1>16, CompleteFrame DEF OfferedIsComplete, CompletedInOrder, OwnReview, RowsBegin, Making, ReviewsOK, JobOK, CallReturns, Finish
    <2>6. NoneLeft'
        BY <1>0, <1>16 DEF NoneLeft, OwnReview, RowsBegin, FaultsOK, Outside, Making, JobOK, ReviewsOK, CallReturns, Finish
    <2> QED BY <2>1, <2>2, <2>3, <2>4, <2>5, <2>6
<1>17. CASE DatabaseError
    <2>1. RowsBegin'
        BY <1>0, <1>17 DEF RowsBegin, OwnReview, JobOK, ReviewsOK, RowsOK, DatabaseError, Fault
    <2>2. OwnReview'
        BY <1>0, <1>17 DEF OwnReview, RowsBegin, JobOK, ReviewsOK, Making, DatabaseError, Fault
    <2>3. Written'
        BY <1>0, <1>17, UsableFrame DEF Written, OwnReview, RowsBegin, JobOK, RowsOK, TeamOK, Making, DatabaseError, Fault
    <2>4. CompletedInOrder'
        BY <1>0, <1>17, CompleteFrame DEF CompletedInOrder, Written, OwnReview, Making, ReviewsOK, DatabaseError, Fault
    <2>5. OfferedIsComplete'
        BY <1>0, <1>17, CompleteFrame DEF OfferedIsComplete, CompletedInOrder, OwnReview, RowsBegin, Making, ReviewsOK, JobOK, DatabaseError, Fault
    <2>6. NoneLeft'
        BY <1>0, <1>17 DEF NoneLeft, OwnReview, RowsBegin, FaultsOK, Outside, Making, JobOK, ReviewsOK, DatabaseError, Fault
    <2> QED BY <2>1, <2>2, <2>3, <2>4, <2>5, <2>6
<1>18. CASE Crash
    <2>1. RowsBegin'
        BY <1>0, <1>18 DEF RowsBegin, OwnReview, JobOK, ReviewsOK, RowsOK, Crash, Fault, NoTeam
    <2>2. OwnReview'
        BY <1>0, <1>18 DEF OwnReview, RowsBegin, JobOK, ReviewsOK, Making, Crash, Fault, NoTeam
    <2>3. Written'
        BY <1>0, <1>18, UsableFrame DEF Written, OwnReview, RowsBegin, JobOK, RowsOK, TeamOK, Making, Crash, Fault, NoTeam
    <2>4. CompletedInOrder'
        BY <1>0, <1>18, CompleteFrame DEF CompletedInOrder, Written, OwnReview, Making, ReviewsOK, Crash, Fault, NoTeam
    <2>5. OfferedIsComplete'
        BY <1>0, <1>18, CompleteFrame DEF OfferedIsComplete, CompletedInOrder, OwnReview, RowsBegin, Making, ReviewsOK, JobOK, Crash, Fault, NoTeam
    <2>6. NoneLeft'
        BY <1>0, <1>18 DEF NoneLeft, OwnReview, RowsBegin, FaultsOK, Outside, Making, JobOK, ReviewsOK, Crash, Fault, NoTeam
    <2> QED BY <2>1, <2>2, <2>3, <2>4, <2>5, <2>6
<1>19. CASE UNCHANGED vars
    <2>1. \A r \in Reviews : (Complete(r)' <=> Complete(r)) /\ UsableIn(r)' = UsableIn(r)
        BY <1>19, CompleteFrame, UsableFrame DEF vars
    <2> QED BY <1>0, <1>19, <2>1 DEF vars, RowsBegin, OwnReview, Written, CompletedInOrder,
                OfferedIsComplete, NoneLeft, Making, Outside
<1> QED BY <1>1, <1>2, <1>3, <1>4, <1>5, <1>6, <1>7, <1>8, <1>9, <1>10, <1>11, <1>12, <1>13, <1>14, <1>15, <1>16, <1>17, <1>18, <1>19 DEF Next, Step

\* The strengthened invariant holds in every state.
THEOREM Inductive == Spec => []IInv
<1>1. Init => IInv
    <2>1. Init => TypeOK
        BY DEF Init, TypeOK, JobOK, ReviewsOK, RowsOK, TeamOK, CachesOK, FaultsOK
    <2>2. Init => RowsBegin /\ OwnReview /\ Written /\ CompletedInOrder
                  /\ OfferedIsComplete /\ NoneLeft
        BY DEF Init, RowsBegin, OwnReview, Written, CompletedInOrder, OfferedIsComplete,
               NoneLeft, Making, Outside
    <2> QED BY <2>1, <2>2 DEF IInv
<1>2. IInv /\ [Next]_vars => IInv'
    <2> SUFFICES ASSUME IInv, [Next]_vars PROVE IInv'
        OBVIOUS
    <2>1. TypeOK'
        BY TypeStep DEF IInv, Written
    <2> QED BY <2>1, InvariantStep DEF IInv
<1> QED BY <1>1, <1>2, PTL DEF Spec

\* Every variable keeps its type; a job never exceeds its retries.
THEOREM TypeCorrect == Spec => []TypeOK
<1>1. IInv => TypeOK
    BY DEF IInv
<1> QED BY <1>1, Inductive, PTL

\* What a moderator is shown, or a job reports as done, is verified role by role
\* and has a synthesis exactly if the quorum is met.
THEOREM OfferedReviewsAreComplete == Spec => []OfferedIsComplete
<1>1. IInv => OfferedIsComplete
    BY DEF IInv
<1> QED BY <1>1, Inductive, PTL

\* Without crashes and errors of the database, a review that awaits a moderator
\* is in the queue or being made.
THEOREM ReviewsAreNotStranded == Spec => []NoReviewIsStranded
<1>1. IInv => NoReviewIsStranded
    BY DEF IInv, NoneLeft, NoReviewIsStranded, Outside
<1> QED BY <1>1, Inductive, PTL
-----------------------------------------------------------------------------
(***************************************************************************)
(* The caches.  A second invariant relates them, and what the agents of a  *)
(* job hold, to the rows that stand.                                       *)
(***************************************************************************)
\* A job writes the latest review, and no agent was called for a later one.
Numbered ==
    /\ phase \in Making => review = count
    /\ \A r \in Reviews : r > count => called[r] = {}
    /\ phase \in {"panel", "verify", "gate"} => Meta \notin called[review]

\* Rows are written in order, and hold what the agents returned.
RowsFollowOutputs ==
    /\ phase \in {"panel", "verify"} => \A i \in Roles : i >= next => row[review][i] = NoRow
    /\ phase \in {"verify", "gate", "meta", "verify_meta", "set_meta"} =>
          \A i \in Roles : task[i] = "done" /\ (i < next => row[review][i].answer = output[i])
    /\ phase \in {"gate", "meta", "verify_meta", "set_meta"} => next = RoleCount + 1
    /\ phase = "verify_meta" => task[Meta] = "done"
    /\ \A a \in Agents : task[a] = "done" => output[a] # None

\* A row that was written has an answer, and no facts but those of its review.
RowsHaveOutputs ==
    \A r \in Reviews, a \in Agents : row[r][a] # NoRow =>
        row[r][a].answer # None /\ row[r][a].facts = Facts(a, row[r][a].answer, r)

\* The synthesis in hand, or in the cache, is about the outputs that stand in
\* the rows of the review that paid for it.
MetaIsOfRows ==
    /\ \A e \in metaCache : e.output \in Reviews =>
          \A i \in Roles : row[e.output][i] # NoRow /\ row[e.output][i].answer = e.bundle[i]
    /\ phase \in {"verify_meta", "set_meta"} /\ output[Meta] \in Reviews /\ output[Meta] # review =>
          \A i \in Roles : row[output[Meta]][i] # NoRow /\ row[output[Meta]][i].answer = output[i]

\* Both reviews of a recorded synthesis have their rows.
SynthesisIsWritten ==
    \A r \in Reviews : synthesis[r] \in Reviews =>
        \A i \in Roles : row[r][i] # NoRow /\ row[synthesis[r]][i] # NoRow

\* And they were made of the same answers.
SameAnswers ==
    \A r \in Reviews : synthesis[r] \in Reviews =>
        \A i \in Roles : row[r][i].answer = row[synthesis[r]][i].answer

\* What was taken from the cache is still there.
HitsRemain ==
    /\ \A i \in Roles : task[i] = "done" /\ ~fresh[i] => cache[i] # None
    /\ phase = "verify_meta" /\ ~fresh[Meta] => Hits # {}

\* Without faults, what passed is in the cache.
PassedIsCached ==
    faults = 0 => \A q \in Reviews :
        /\ \A i \in Roles : row[q][i].verdict = "pass" => cache[i] # None
        /\ row[q][Meta].verdict = "pass" =>
              \E e \in metaCache : \A i \in Roles : e.bundle[i] = row[q][i].answer

\* A synthesis that has a row has all rows of its specialists.
MetaIsLast ==
    \A r \in Reviews : row[r][Meta] # NoRow => \A i \in Roles : row[r][i] # NoRow

\* The inductive invariant of the caches.
JInv ==
    /\ Numbered
    /\ RowsFollowOutputs
    /\ RowsHaveOutputs
    /\ MetaIsOfRows
    /\ SynthesisIsWritten
    /\ HitsRemain
    /\ PassedIsCached
    /\ MetaIsLast
    /\ SameAnswers
    /\ CacheIsOnRecord
    /\ PassedIsNotPaidAgain

\* Actions between reviews, and the ends of attempts, touch none of it.
LEMMA QuietStep ==
    ASSUME TypeOK, JInv, UNCHANGED <<count, row, synthesis, called, cache, metaCache>>,
           faults' = 0 => faults = 0, phase' \notin Making,
           UNCHANGED <<task, output, fresh>> \/ NoTeam
    PROVE  JInv'
<1>1. Numbered' /\ RowsHaveOutputs' /\ SynthesisIsWritten' /\ PassedIsCached' /\ MetaIsLast'
    BY DEF JInv, Numbered, Making, RowsHaveOutputs, SynthesisIsWritten, PassedIsCached, MetaIsLast
<1>2. RowsFollowOutputs' /\ HitsRemain'
    BY DEF JInv, RowsFollowOutputs, HitsRemain, Making, NoTeam
<1>3. MetaIsOfRows'
    BY DEF JInv, MetaIsOfRows, Making
<1>4. SameAnswers' /\ CacheIsOnRecord' /\ PassedIsNotPaidAgain'
    BY DEF JInv, SameAnswers, CacheIsOnRecord, PassedIsNotPaidAgain
<1> QED BY <1>1, <1>2, <1>3, <1>4 DEF JInv

\* A new review has no rows, and nobody was called for it.
LEMMA StartReviewCaches ==
    ASSUME IInv, JInv, StartReview
    PROVE  JInv'
<1>1. /\ review' = count + 1 /\ review' \in Reviews /\ count' = count + 1
      /\ phase' = "panel" /\ next' = 1
      /\ task' = [a \in Agents |-> IF a \in Roles THEN "waiting" ELSE "none"]
      /\ output' = [a \in Agents |-> None]
      /\ UNCHANGED <<row, synthesis, called, cache, metaCache, faults>>
    BY DEF StartReview, InsertReview, caches
<1>2. count \in Nat /\ review' > count
    BY <1>1 DEF IInv, TypeOK, JobOK
<1>3. Numbered'
    BY <1>1, <1>2 DEF JInv, Numbered
<1>4. RowsFollowOutputs'
    BY <1>1, <1>2 DEF RowsFollowOutputs, IInv, RowsBegin
<1>5. HitsRemain' /\ MetaIsOfRows'
    BY <1>1 DEF JInv, HitsRemain, MetaIsOfRows
<1>6. RowsHaveOutputs' /\ SynthesisIsWritten' /\ PassedIsCached' /\ MetaIsLast'
    BY <1>1 DEF JInv, RowsHaveOutputs, SynthesisIsWritten, PassedIsCached, MetaIsLast
<1>7. SameAnswers' /\ CacheIsOnRecord' /\ PassedIsNotPaidAgain'
    BY <1>1 DEF JInv, SameAnswers, CacheIsOnRecord, PassedIsNotPaidAgain
<1> QED BY <1>3, <1>4, <1>5, <1>6, <1>7 DEF JInv

\* A specialist that is called has passed in no earlier review.
LEMMA TakeCaches ==
    ASSUME IInv, JInv, NEW i \in Roles, Take(i)
    PROVE  JInv'
<1>1. /\ phase = "panel" /\ task[i] = "waiting"
      /\ UNCHANGED <<phase, review, count, row, synthesis, next, cache, metaCache>>
      /\ review = count /\ review \in Reviews
    BY DEF Take, run, records, caches, JInv, Numbered, IInv, OwnReview, Making
<1>2. \/ cache[i] # None /\ Finish(i, cache[i], FALSE) /\ UNCHANGED <<called, faults>>
      \/ cache[i] = None /\ Call(i) /\ UNCHANGED faults
      \/ Call(i) /\ faults' # 0
    <2>1. Fault => faults' # 0
        BY DEF Fault, IInv, TypeOK, FaultsOK
    <2> QED BY <2>1, Zenon DEF Take
<1>3. \A a \in Agents : a # i => /\ task'[a] = task[a] /\ output'[a] = output[a]
                                 /\ fresh'[a] = fresh[a]
    BY <1>2 DEF Finish, Call, IInv, TypeOK, TeamOK
<1>4. \/ /\ cache[i] # None /\ task'[i] = "done" /\ output'[i] = cache[i]
         /\ UNCHANGED <<called, faults>>
      \/ /\ task'[i] = "first" /\ UNCHANGED <<output, fresh>>
         /\ called' = [called EXCEPT ![review] = @ \cup {i}]
         /\ (cache[i] = None /\ UNCHANGED faults) \/ faults' # 0
    BY <1>2 DEF Finish, Call, IInv, TypeOK, TeamOK
<1>5. /\ \A r \in Reviews : r # review => called'[r] = called[r]
      /\ called'[review] \subseteq called[review] \cup {i}
    BY <1>1, <1>4 DEF IInv, TypeOK, TeamOK
<1>6. faults' = 0 => faults = 0
    BY <1>4 DEF IInv, TypeOK, FaultsOK, Take, Fault
<1>7. Numbered'
    BY <1>1, <1>5 DEF JInv, Numbered, IInv, TypeOK, JobOK
<1>8. RowsFollowOutputs' /\ HitsRemain' /\ MetaIsOfRows'
    BY <1>1, <1>3, <1>4 DEF JInv, RowsFollowOutputs, HitsRemain, MetaIsOfRows
<1>9. RowsHaveOutputs' /\ SynthesisIsWritten' /\ PassedIsCached' /\ MetaIsLast'
    BY <1>1, <1>6 DEF JInv, RowsHaveOutputs, SynthesisIsWritten, PassedIsCached, MetaIsLast
<1>10. SameAnswers' /\ CacheIsOnRecord'
    BY <1>1 DEF JInv, SameAnswers, CacheIsOnRecord
<1>11. PassedIsNotPaidAgain'
    <2> SUFFICES ASSUME faults' = 0, NEW q \in Reviews, NEW r \in Reviews, q < r
                 PROVE  /\ \A k \in Roles : row[q][k].verdict = "pass" => k \notin called'[r]
                        /\ Meta \in called'[r] => Meta \in called[r]
        BY <1>1, <1>6 DEF JInv, PassedIsNotPaidAgain
    <2>1. Meta \in called'[r] => Meta \in called[r]
        BY <1>5
    <2>2. ASSUME NEW k \in Roles, row[q][k].verdict = "pass", k \in called'[r], k \notin called[r]
          PROVE  FALSE
        <3>1. k = i /\ cache[i] = None
            BY <1>4, <1>5, <2>2
        <3> QED BY <1>6, <2>2, <3>1 DEF JInv, PassedIsCached
    <2>3. \A k \in Roles : row[q][k].verdict = "pass" => k \notin called[r]
        BY <1>6 DEF JInv, PassedIsNotPaidAgain
    <2> QED BY <2>1, <2>2, <2>3
<1> QED BY <1>7, <1>8, <1>9, <1>10, <1>11 DEF JInv

LEMMA CallReturnsCaches ==
    ASSUME IInv, JInv, NEW a \in Agents, CallReturns(a)
    PROVE  JInv'
<1>1. /\ task[a] \in Calls
      /\ UNCHANGED <<review, count, row, synthesis, called, next, cache, metaCache, faults>>
    BY DEF CallReturns, run, records, caches
<1>2. \/ /\ task'[a] = "done" /\ output'[a] \in {review, Stub} /\ fresh'[a]
      \/ task'[a] # "done" /\ UNCHANGED <<output, fresh>>
    BY DEF CallReturns, Finish, AfterCall, IInv, TypeOK, TeamOK
<1>3. \A b \in Agents : b # a => /\ task'[b] = task[b] /\ output'[b] = output[b]
                                 /\ fresh'[b] = fresh[b]
    BY DEF CallReturns, Finish, IInv, TypeOK, TeamOK
<1>4. \/ phase' = phase /\ phase \notin {"verify", "gate", "verify_meta", "set_meta"}
      \/ phase' = phase /\ a # Meta
      \/ a = Meta /\ phase = "meta" /\ phase' = "verify_meta" /\ task'[a] = "done"
    BY <1>1 DEF CallReturns, IInv, Written
<1>5. phase \in {"verify", "gate", "meta", "verify_meta", "set_meta"} => a = Meta
    BY <1>1 DEF JInv, RowsFollowOutputs
<1>6. Numbered'
    BY <1>1, <1>4 DEF JInv, Numbered, Making
<1>7. RowsFollowOutputs'
    <2>1. review # None
        BY DEF IInv, TypeOK, JobOK
    <2> QED BY <2>1, <1>1, <1>2, <1>3, <1>4, <1>5 DEF JInv, RowsFollowOutputs
<1>8. HitsRemain'
    BY <1>1, <1>2, <1>3, <1>4, <1>5 DEF JInv, HitsRemain
<1>9. MetaIsOfRows'
    BY <1>1, <1>2, <1>3, <1>4, <1>5 DEF JInv, MetaIsOfRows
<1>10. RowsHaveOutputs' /\ SynthesisIsWritten' /\ PassedIsCached' /\ MetaIsLast'
    BY <1>1 DEF JInv, RowsHaveOutputs, SynthesisIsWritten, PassedIsCached, MetaIsLast
<1>11. SameAnswers' /\ CacheIsOnRecord' /\ PassedIsNotPaidAgain'
    BY <1>1 DEF JInv, SameAnswers, CacheIsOnRecord, PassedIsNotPaidAgain
<1> QED BY <1>6, <1>7, <1>8, <1>9, <1>10, <1>11 DEF JInv

LEMMA CollectCaches ==
    ASSUME IInv, JInv, Collect
    PROVE  JInv'
<1>1. /\ phase = "panel" /\ phase' = "verify" /\ next = 1 /\ \A i \in Roles : task[i] = "done"
      /\ UNCHANGED <<review, count, row, synthesis, called, task, output, fresh, next,
                     cache, metaCache, faults>>
    BY DEF Collect, run, records, caches, team, IInv, Written
<1>2. Numbered' /\ RowsFollowOutputs' /\ HitsRemain' /\ MetaIsOfRows'
    BY <1>1 DEF JInv, Numbered, RowsFollowOutputs, HitsRemain, MetaIsOfRows, Making
<1>3. RowsHaveOutputs' /\ SynthesisIsWritten' /\ PassedIsCached' /\ MetaIsLast'
    BY <1>1 DEF JInv, RowsHaveOutputs, SynthesisIsWritten, PassedIsCached, MetaIsLast
<1>4. SameAnswers' /\ CacheIsOnRecord' /\ PassedIsNotPaidAgain'
    BY <1>1 DEF JInv, SameAnswers, CacheIsOnRecord, PassedIsNotPaidAgain
<1> QED BY <1>2, <1>3, <1>4 DEF JInv

\* Rows that were written stay as they are.
LEMMA RowsRemain ==
    ASSUME RowsOK, review \in Reviews, NEW a \in Agents, NEW v \in {"pass", "warn", "fail"},
           InsertRow(a, v), row[review][a] = NoRow
    PROVE  \A r \in Reviews, b \in Agents : row[r][b] # NoRow => row'[r][b] = row[r][b]
BY InsertRowEffect

\* Only citation's stub may pass, on the word of live checks.
LEMMA StubsFail ==
    ASSUME NEW i \in Roles, "pass" \in Verdicts(i, Stub)
    PROVE  i = Citation /\ LiveChecks
BY DEF Verdicts

\* What a synthesis is about was written with it, and stays.
LEMMA RecordedSynthesis ==
    ASSUME JInv, UNCHANGED synthesis,
           \A r \in Reviews, b \in Agents : row[r][b] # NoRow => row'[r][b] = row[r][b]
    PROVE  SameAnswers'
<1> SUFFICES ASSUME NEW r \in Reviews, synthesis[r] \in Reviews, NEW i \in Roles
             PROVE  row'[r][i].answer = row'[synthesis[r]][i].answer
    BY DEF SameAnswers
<1>1. row[r][i].answer = row[synthesis[r]][i].answer
    BY DEF JInv, SameAnswers
<1>2. row'[r][i] = row[r][i] /\ row'[synthesis[r]][i] = row[synthesis[r]][i]
    BY DEF JInv, SynthesisIsWritten
<1> QED BY <1>1, <1>2

LEMMA VerifyCaches ==
    ASSUME IInv, JInv, Verify
    PROVE  JInv'
<1>1. /\ phase = "verify" /\ next \in Roles /\ review \in Reviews /\ review = count
      /\ UNCHANGED <<review, count, synthesis, called, task, output, fresh, metaCache>>
      /\ row[review][Meta] = NoRow /\ RowsOK
    BY DEF Verify, run, JInv, Numbered, IInv, Written, OwnReview, Making, TypeOK
<1>2. PICK v \in {"pass", "warn", "fail"} :
        /\ v \in Verdicts(next, output[next])
        /\ \/ InsertRow(next, v) /\ Store(next, v) /\ next' = next + 1
              /\ phase' = IF next = RoleCount THEN "gate" ELSE "verify"
           \/ phase' = "error" /\ UNCHANGED <<row, next, cache, faults>>
    <2>1. output[next] \in Outputs
        BY <1>1 DEF IInv, TypeOK, TeamOK
    <2> QED BY <1>1, <2>1, VerdictsType DEF Verify
<1>3. CASE phase' = "error" /\ UNCHANGED <<row, next, cache, faults>>
    BY <1>1, <1>3, QuietStep DEF IInv, Making
<1>4. CASE /\ InsertRow(next, v) /\ Store(next, v) /\ next' = next + 1
           /\ phase' = IF next = RoleCount THEN "gate" ELSE "verify"
    <2>1. /\ \A r \in Reviews : r # review => row'[r] = row[r]
          /\ \A b \in Agents : b # next => row'[review][b] = row[review][b]
          /\ row'[review][next] = [answer |-> output[next], facts |-> Facts(next, output[next], review), verdict |-> v]
          /\ row'[review][next] # NoRow
        BY <1>1, <1>4, InsertRowEffect
    <2>2. row[review][next] = NoRow
        BY <1>1 DEF JInv, RowsFollowOutputs
    <2>3. \A r \in Reviews, b \in Agents : row[r][b] # NoRow => row'[r][b] = row[r][b]
        BY <1>1, <1>4, <2>2, RowsRemain
    <2>4. \A i \in Roles : task[i] = "done" /\ output[i] # None
        BY <1>1 DEF JInv, RowsFollowOutputs
    <2>5. /\ \A i \in Roles : i # next => cache'[i] = cache[i]
          /\ cache'[next] = cache[next] \/ (cache'[next] = output[next] /\ v = "pass")
          /\ v = "pass" /\ fresh[next] => cache'[next] = output[next] \/ faults' # 0
          /\ faults' = 0 => faults = 0
        BY <1>1, <1>4 DEF Store, Cacheable, Fault, IInv, TypeOK, CachesOK, FaultsOK
    <2>6. Numbered'
        BY <1>1, <1>4 DEF JInv, Numbered
    <2>7. RowsFollowOutputs'
        <3>1. next \in Nat /\ next' = next + 1 /\ phase' \in {"verify", "gate"}
              /\ (phase' = "gate" => next' = RoleCount + 1)
            BY <1>1, <1>4
        <3>2. \A i \in Roles : i >= next' => row'[review][i] = NoRow
            BY <1>1, <2>1, <3>1 DEF JInv, RowsFollowOutputs
        <3>3. \A i \in Roles : i < next' => row'[review][i].answer = output[i]
            BY <1>1, <2>1, <3>1 DEF JInv, RowsFollowOutputs
        <3> QED BY <1>1, <2>4, <3>1, <3>2, <3>3 DEF JInv, RowsFollowOutputs
    <2>8. RowsHaveOutputs'
        BY <1>1, <2>1, <2>4 DEF JInv, RowsHaveOutputs
    <2>9. MetaIsOfRows' /\ SynthesisIsWritten'
        BY <1>1, <1>4, <2>3 DEF JInv, MetaIsOfRows, SynthesisIsWritten
    <2>10. HitsRemain'
        BY <1>1, <1>4, <2>4, <2>5 DEF JInv, HitsRemain
    <2>11. PassedIsCached'
        <3> SUFFICES ASSUME faults' = 0, NEW q \in Reviews
                     PROVE  /\ \A i \in Roles : row'[q][i].verdict = "pass" => cache'[i] # None
                            /\ row'[q][Meta].verdict = "pass" =>
                                 \E e \in metaCache : \A i \in Roles : e.bundle[i] = row'[q][i].answer
            BY <1>1 DEF PassedIsCached
        <3>1. ASSUME NEW i \in Roles, row'[q][i].verdict = "pass"
              PROVE  cache'[i] # None
            <4>1. CASE q = review /\ i = next
                BY <2>1, <2>4, <2>5, <3>1, <4>1 DEF JInv, HitsRemain
            <4>2. CASE ~(q = review /\ i = next)
                <5>1. row'[q][i] = row[q][i]
                    BY <2>1, <4>2
                <5>2. cache[i] # None
                    BY <2>5, <3>1, <5>1 DEF JInv, PassedIsCached
                <5> QED BY <2>4, <2>5, <5>2
            <4> QED BY <4>1, <4>2
        <3>2. ASSUME row'[q][Meta].verdict = "pass"
              PROVE  \E e \in metaCache : \A i \in Roles : e.bundle[i] = row'[q][i].answer
            <4>1. row'[q][Meta] = row[q][Meta] /\ Meta # next
                BY <1>1, <2>1
            <4>2. q # review
                BY <1>1, <3>2, <4>1
            <4> QED BY <2>1, <2>5, <3>2, <4>1, <4>2 DEF JInv, PassedIsCached
        <3> QED BY <3>1, <3>2
    <2>12. MetaIsLast'
        BY <1>1, <2>1, <2>3 DEF JInv, MetaIsLast
    <2>13. SameAnswers'
        BY <1>1, <2>3, RecordedSynthesis
    <2>14. CacheIsOnRecord'
        <3>1. ASSUME NEW i \in Roles, cache'[i] # None
              PROVE  /\ \E r \in Reviews : row'[r][i].answer = cache'[i] /\ row'[r][i].verdict = "pass"
                     /\ cache'[i] = Stub => i = Citation /\ LiveChecks
            <4>1. CASE cache'[i] = cache[i]
                BY <2>3, <3>1, <4>1 DEF JInv, CacheIsOnRecord
            <4>2. CASE cache'[i] # cache[i]
                BY <1>1, <1>2, <2>1, <2>5, <4>2, StubsFail
            <4> QED BY <4>1, <4>2
        <3>2. ASSUME NEW e \in metaCache
              PROVE  \E r \in Reviews :
                        /\ row'[r][Meta].answer = e.output /\ row'[r][Meta].verdict = "pass"
                        /\ \A i \in Roles : row'[r][i].answer = e.bundle[i]
            <4>1. PICK r \in Reviews :
                    /\ row[r][Meta].answer = e.output /\ row[r][Meta].verdict = "pass"
                    /\ \A i \in Roles : row[r][i].answer = e.bundle[i]
                BY DEF JInv, CacheIsOnRecord
            <4>2. row[r][Meta] # NoRow
                BY <4>1
            <4> QED BY <2>3, <4>1, <4>2 DEF JInv, MetaIsLast
        <3> QED BY <1>1, <3>1, <3>2 DEF CacheIsOnRecord
    <2>15. PassedIsNotPaidAgain'
        <3> SUFFICES ASSUME faults' = 0, NEW q \in Reviews, NEW r \in Reviews, q < r
                     PROVE  /\ \A i \in Roles : row'[q][i].verdict = "pass" => i \notin called[r]
                            /\ (/\ row'[q][Meta].verdict = "pass"
                                /\ \A i \in Roles : /\ row'[r][i].answer \in Reviews
                                                    /\ row'[q][i].answer = row'[r][i].answer)
                               => Meta \notin called[r]
            BY <1>1 DEF PassedIsNotPaidAgain
        <3>1. CASE r > count
            BY <3>1 DEF JInv, Numbered
        <3>2. CASE r <= count
            <4>1. row'[q] = row[q]
                BY <1>1, <2>1, <3>2
            <4>2. r = review => Meta \notin called[r]
                BY <1>1 DEF JInv, Numbered
            <4> QED BY <2>1, <2>5, <4>1, <4>2 DEF JInv, PassedIsNotPaidAgain
        <3> QED BY <1>1, <3>1, <3>2 DEF IInv, TypeOK, JobOK
    <2> QED BY <2>6, <2>7, <2>8, <2>9, <2>10, <2>11, <2>12, <2>13, <2>14, <2>15 DEF JInv
<1> QED BY <1>2, <1>3, <1>4

LEMMA GateFailsCaches ==
    ASSUME IInv, JInv, GateFails
    PROVE  JInv'
<1>1. /\ phase' = "enqueue"
      /\ UNCHANGED <<review, count, row, called, task, output, fresh, next, cache, metaCache, faults>>
      /\ synthesis' = [synthesis EXCEPT ![review] = GateFailed] /\ review = count
    BY DEF GateFails, run, caches, team, JInv, Numbered, Making
<1>2. \A r \in Reviews : synthesis'[r] \in Reviews => synthesis'[r] = synthesis[r]
    BY <1>1 DEF IInv, TypeOK, ReviewsOK
<1>3. Numbered' /\ RowsFollowOutputs' /\ HitsRemain' /\ MetaIsOfRows'
    BY <1>1 DEF JInv, Numbered, RowsFollowOutputs, HitsRemain, MetaIsOfRows
<1>4. RowsHaveOutputs' /\ SynthesisIsWritten' /\ PassedIsCached' /\ MetaIsLast'
    BY <1>1, <1>2 DEF JInv, RowsHaveOutputs, SynthesisIsWritten, PassedIsCached, MetaIsLast
<1>5. SameAnswers' /\ CacheIsOnRecord' /\ PassedIsNotPaidAgain'
    BY <1>1, <1>2 DEF JInv, SameAnswers, CacheIsOnRecord, PassedIsNotPaidAgain
<1> QED BY <1>3, <1>4, <1>5 DEF JInv

\* What the cache offers is a synthesis of the outputs in hand.
LEMMA HitsAreOfOutputs ==
    ASSUME JInv, NEW e \in Hits
    PROVE  /\ e.output # None
           /\ e.output \in Reviews =>
                \A i \in Roles : /\ row[e.output][i] # NoRow
                                 /\ row[e.output][i].answer = output[i]
<1>1. e \in metaCache /\ \A i \in Roles : e.bundle[i] = output[i]
    BY DEF Hits, Bundle
<1>2. PICK r \in Reviews : row[r][Meta].answer = e.output /\ row[r][Meta].verdict = "pass"
    BY <1>1 DEF JInv, CacheIsOnRecord
<1>3. e.output # None
    BY <1>2 DEF JInv, RowsHaveOutputs
<1> QED BY <1>1, <1>3 DEF JInv, MetaIsOfRows

LEMMA StartMetaCaches ==
    ASSUME IInv, JInv, StartMeta
    PROVE  JInv'
<1>1. /\ phase = "gate" /\ review = count /\ review \in Reviews /\ next = RoleCount + 1
      /\ UNCHANGED <<review, count, row, synthesis, next, cache, metaCache>>
      /\ \A i \in Roles : task[i] = "done" /\ output[i] # None
                          /\ row[review][i].answer = output[i]
    BY DEF StartMeta, run, records, caches, JInv, Numbered, RowsFollowOutputs, IInv, OwnReview, Making
<1>2. \/ /\ phase' = "verify_meta" /\ \E e \in Hits : Finish(Meta, e.output, FALSE)
         /\ UNCHANGED <<called, faults>>
      \/ phase' = "meta" /\ Call(Meta) /\ UNCHANGED faults /\ (Hits # {} => QuotesErrors)
      \/ phase' = "meta" /\ Call(Meta) /\ faults' # 0
    <2>1. Fault => faults' # 0
        BY DEF Fault, IInv, TypeOK, FaultsOK
    <2> QED BY <2>1, Zenon DEF StartMeta
<1>3. /\ \A i \in Roles : /\ task'[i] = task[i] /\ output'[i] = output[i]
                          /\ fresh'[i] = fresh[i]
      /\ Bundle' = Bundle /\ Hits' = Hits
    <2>1. \A i \in Roles : i # Meta /\ i \in Agents
        OBVIOUS
    <2>2. \A i \in Roles : task'[i] = task[i] /\ output'[i] = output[i] /\ fresh'[i] = fresh[i]
        BY <1>2, <2>1 DEF Finish, Call, IInv, TypeOK, TeamOK
    <2> QED BY <1>1, <2>2 DEF Bundle, Hits
<1>4. CASE /\ phase' = "verify_meta" /\ \E e \in Hits : Finish(Meta, e.output, FALSE)
           /\ UNCHANGED <<called, faults>>
    <2>1. PICK e \in Hits : Finish(Meta, e.output, FALSE)
        BY <1>4
    <2>2. task'[Meta] = "done" /\ output'[Meta] = e.output
        BY <2>1 DEF Finish, IInv, TypeOK, TeamOK
    <2>3. Numbered'
        BY <1>1, <1>4 DEF JInv, Numbered
    <2>4. RowsFollowOutputs'
        BY <1>1, <1>3, <1>4, <2>2, HitsAreOfOutputs DEF JInv, RowsFollowOutputs
    <2>5. HitsRemain'
        BY <1>1, <1>3, <1>4 DEF JInv, HitsRemain
    <2>6. MetaIsOfRows'
        <3>1. \A i \in Roles : output'[i] = output[i]
            BY <1>3
        <3> QED BY <1>1, <2>2, <3>1, HitsAreOfOutputs DEF JInv, MetaIsOfRows
    <2>7. RowsHaveOutputs' /\ SynthesisIsWritten' /\ PassedIsCached' /\ MetaIsLast'
        BY <1>1, <1>4 DEF JInv, RowsHaveOutputs, SynthesisIsWritten, PassedIsCached, MetaIsLast
    <2>8. SameAnswers' /\ CacheIsOnRecord' /\ PassedIsNotPaidAgain'
        BY <1>1, <1>4 DEF JInv, SameAnswers, CacheIsOnRecord, PassedIsNotPaidAgain
    <2> QED BY <2>3, <2>4, <2>5, <2>6, <2>7, <2>8 DEF JInv
<1>5. CASE /\ phase' = "meta" /\ Call(Meta)
           /\ (UNCHANGED faults /\ (Hits # {} => QuotesErrors)) \/ faults' # 0
    <2>1. /\ task'[Meta] = "first" /\ UNCHANGED <<output, fresh>>
          /\ \A r \in Reviews : r # review => called'[r] = called[r]
          /\ called'[review] = called[review] \cup {Meta}
        BY <1>1, <1>5 DEF Call, IInv, TypeOK, TeamOK
    <2>2. Numbered'
        BY <1>1, <1>5, <2>1 DEF JInv, Numbered, IInv, TypeOK, JobOK
    <2>3. RowsFollowOutputs' /\ HitsRemain' /\ MetaIsOfRows'
        BY <1>1, <1>3, <1>5, <2>1 DEF JInv, RowsFollowOutputs, HitsRemain, MetaIsOfRows
    <2>4. RowsHaveOutputs' /\ SynthesisIsWritten' /\ PassedIsCached' /\ MetaIsLast'
        BY <1>1, <1>5 DEF JInv, RowsHaveOutputs, SynthesisIsWritten, PassedIsCached, MetaIsLast
    <2>5. SameAnswers' /\ CacheIsOnRecord'
        <3>1. SameAnswers'
            BY <1>1, RecordedSynthesis
        <3>2. CacheIsOnRecord'
            BY <1>1 DEF JInv, CacheIsOnRecord
        <3> QED BY <3>1, <3>2
    <2>6. PassedIsNotPaidAgain'
        <3> SUFFICES ASSUME faults' = 0, NEW q \in Reviews, NEW r \in Reviews, q < r
                     PROVE  /\ \A i \in Roles : row[q][i].verdict = "pass" => i \notin called'[r]
                            /\ (/\ row[q][Meta].verdict = "pass"
                                /\ \A i \in Roles : /\ row[r][i].answer \in Reviews
                                                    /\ row[q][i].answer = row[r][i].answer)
                               => Meta \notin called'[r]
            BY <1>1 DEF PassedIsNotPaidAgain
        <3>1. UNCHANGED faults /\ (Hits # {} => QuotesErrors)
            BY <1>5
        <3>2. CASE r # review
            BY <2>1, <3>1, <3>2 DEF JInv, PassedIsNotPaidAgain
        <3>3. CASE r = review
            <4>1. \A i \in Roles : row[q][i].verdict = "pass" => i \notin called'[r]
                BY <2>1, <3>1, <3>3 DEF JInv, PassedIsNotPaidAgain
            <4>2. ASSUME row[q][Meta].verdict = "pass",
                         \A i \in Roles : /\ row[r][i].answer \in Reviews
                                          /\ row[q][i].answer = row[r][i].answer
                  PROVE  FALSE
                <5>1. PICK e \in metaCache : \A i \in Roles : e.bundle[i] = row[q][i].answer
                    BY <3>1, <4>2 DEF JInv, PassedIsCached
                <5>2. e.bundle \in Bundles /\ \A i \in Roles : e.bundle[i] = output[i]
                    BY <1>1, <3>3, <4>2, <5>1 DEF IInv, TypeOK, CachesOK
                <5>3. e \in Hits
                    BY <5>2 DEF Hits, Bundle, Bundles
                <5>4. ~QuotesErrors
                    BY <1>1, <3>3, <4>2 DEF QuotesErrors
                <5> QED BY <3>1, <5>3, <5>4
            <4> QED BY <4>1, <4>2
        <3> QED BY <3>2, <3>3
    <2> QED BY <2>2, <2>3, <2>4, <2>5, <2>6 DEF JInv
<1> QED BY <1>2, <1>4, <1>5

LEMMA VerifyMetaCaches ==
    ASSUME IInv, JInv, VerifyMeta
    PROVE  JInv'
<1>1. /\ phase = "verify_meta" /\ phase' = "set_meta" /\ next = RoleCount + 1
      /\ review = count /\ review \in Reviews
      /\ UNCHANGED <<review, count, synthesis, called, task, output, fresh, next, cache>>
      /\ row[review][Meta] = NoRow /\ RowsOK
      /\ output[Meta] # None /\ output[Meta] \in Outputs
    BY DEF VerifyMeta, run, team, JInv, Numbered, RowsFollowOutputs, IInv, OwnReview, Written,
           Making, TypeOK, TeamOK
<1>2. \A i \in Roles : /\ i # Meta /\ row[review][i] # NoRow
                       /\ row[review][i].answer = output[i]
    BY <1>1 DEF JInv, RowsFollowOutputs, IInv, Written
<1> DEFINE Entry == [bundle |-> Bundle, output |-> output[Meta]]
<1>3. PICK v \in {"pass", "warn", "fail"} :
        /\ InsertRow(Meta, v)
        /\ \/ ~(fresh[Meta] /\ v = "pass") /\ UNCHANGED <<metaCache, faults>>
           \/ /\ v = "pass" /\ Entry \in metaCache' /\ UNCHANGED faults
              /\ \A e \in metaCache' : e \in metaCache \/ e = Entry
              /\ \A e \in metaCache : e \in metaCache' \/ e.bundle = Bundle
           \/ v = "pass" /\ UNCHANGED metaCache /\ faults' # 0
    <2>1. Fault => faults' # 0
        BY DEF Fault, IInv, TypeOK, FaultsOK
    <2>2. PICK v \in Verdicts(Meta, output[Meta]) :
            /\ InsertRow(Meta, v)
            /\ \/ ~Cacheable(Meta, v) /\ UNCHANGED <<metaCache, faults>>
               \/ /\ Cacheable(Meta, v)
                  /\ \E old \in {Hits} \cup (IF QuotesErrors THEN {{}} ELSE {}) :
                        metaCache' = (metaCache \ old) \cup {Entry}
                  /\ UNCHANGED faults
               \/ Cacheable(Meta, v) /\ Fault /\ UNCHANGED metaCache
        BY DEF VerifyMeta
    <2>3. v \in {"pass", "warn", "fail"} /\ (Cacheable(Meta, v) <=> fresh[Meta] /\ v = "pass")
        BY <1>1, <2>2, VerdictsType DEF Cacheable
    <2>4. ASSUME \E old \in {Hits} \cup (IF QuotesErrors THEN {{}} ELSE {}) :
                    metaCache' = (metaCache \ old) \cup {Entry}
          PROVE  /\ Entry \in metaCache'
                 /\ \A e \in metaCache' : e \in metaCache \/ e = Entry
                 /\ \A e \in metaCache : e \in metaCache' \/ e.bundle = Bundle
        BY <2>4 DEF Hits
    <2> QED BY <2>1, <2>2, <2>3, <2>4
<1>4. /\ \A r \in Reviews : r # review => row'[r] = row[r]
      /\ \A i \in Roles : row'[review][i] = row[review][i]
      /\ row'[review][Meta] = [answer |-> output[Meta], facts |-> Facts(Meta, output[Meta], review), verdict |-> v]
    <2>1. InsertRow(Meta, v) /\ Meta \in Agents
        BY <1>3
    <2>2. \A b \in Agents : b # Meta => row'[review][b] = row[review][b]
        BY <1>1, <2>1, InsertRowEffect
    <2>3. \A i \in Roles : i \in Agents /\ i # Meta
        OBVIOUS
    <2> QED BY <1>1, <2>1, <2>2, <2>3, InsertRowEffect
<1>5. \A r \in Reviews, b \in Agents : row[r][b] # NoRow => row'[r][b] = row[r][b]
    BY <1>1, <1>3, RowsRemain
<1>6. /\ faults' = 0 => faults = 0
      /\ \A e \in metaCache' : e \in metaCache \/ (e = Entry /\ v = "pass")
    BY <1>3 DEF IInv, TypeOK, FaultsOK, VerifyMeta, Fault
<1>7. /\ \A i \in Roles : Entry.bundle[i] = output[i]
      /\ Entry.output = output[Meta]
    BY DEF Bundle
<1>8. output[Meta] \in Reviews =>
        \A i \in Roles : /\ row[output[Meta]][i] # NoRow
                         /\ row[output[Meta]][i].answer = output[i]
    BY <1>1, <1>2 DEF JInv, MetaIsOfRows
<1>9. Numbered' /\ HitsRemain'
    BY <1>1 DEF JInv, Numbered, Making, HitsRemain
<1>10. RowsFollowOutputs'
    BY <1>1, <1>4 DEF JInv, RowsFollowOutputs
<1>11. RowsHaveOutputs' /\ MetaIsLast'
    BY <1>1, <1>2, <1>4 DEF JInv, RowsHaveOutputs, MetaIsLast
<1>12. MetaIsOfRows'
    <2>1. ASSUME NEW e \in metaCache', e.output \in Reviews, NEW i \in Roles
          PROVE  row'[e.output][i] # NoRow /\ row'[e.output][i].answer = e.bundle[i]
        BY <1>5, <1>6, <1>7, <1>8, <2>1 DEF JInv, MetaIsOfRows
    <2> QED BY <1>1, <1>5, <1>8, <2>1 DEF MetaIsOfRows
<1>13. SynthesisIsWritten' /\ SameAnswers'
    <2>1. SynthesisIsWritten'
        BY <1>1, <1>5 DEF JInv, SynthesisIsWritten
    <2> QED BY <1>1, <1>5, <2>1, RecordedSynthesis
<1>14. PassedIsCached'
    <2> SUFFICES ASSUME faults' = 0, NEW q \in Reviews
                 PROVE  /\ \A i \in Roles : row'[q][i].verdict = "pass" => cache[i] # None
                        /\ row'[q][Meta].verdict = "pass" =>
                             \E e \in metaCache' : \A i \in Roles : e.bundle[i] = row'[q][i].answer
        BY <1>1 DEF PassedIsCached
    <2>1. \A i \in Roles : row'[q][i] = row[q][i]
        BY <1>4
    <2>2. ASSUME row'[q][Meta].verdict = "pass"
          PROVE  \E e \in metaCache' : \A i \in Roles : e.bundle[i] = row[q][i].answer
        <3>1. CASE q = review /\ fresh[Meta]
            <4>1. v = "pass"
                BY <1>4, <2>2, <3>1
            <4>2. faults' = 0 /\ Entry \in metaCache'
                BY <1>3, <3>1, <4>1
            <4> QED BY <1>2, <1>7, <3>1, <4>2
        <3>2. CASE ~(q = review /\ fresh[Meta])
            <4>1. PICK e \in metaCache : \A i \in Roles : e.bundle[i] = row[q][i].answer
                <5>1. CASE q # review
                    BY <1>4, <1>6, <2>2, <5>1 DEF JInv, PassedIsCached
                <5>2. CASE q = review
                    <6>1. PICK e \in Hits : TRUE
                        BY <1>1, <3>2, <5>2 DEF JInv, HitsRemain
                    <6> QED BY <1>2, <5>2, <6>1 DEF Hits, Bundle
                <5> QED BY <5>1, <5>2
            <4>2. CASE e \in metaCache'
                BY <4>1, <4>2
            <4>3. CASE e \notin metaCache'
                <5>1. e.bundle = Bundle /\ Entry \in metaCache'
                    BY <1>3, <4>3
                <5> QED BY <1>7, <4>1, <5>1
            <4> QED BY <4>2, <4>3
        <3> QED BY <3>1, <3>2
    <2> QED BY <1>6, <2>1, <2>2 DEF JInv, PassedIsCached
<1>15. CacheIsOnRecord'
    <2>1. ASSUME NEW i \in Roles, cache[i] # None
          PROVE  /\ \E r \in Reviews : row'[r][i].answer = cache[i] /\ row'[r][i].verdict = "pass"
                 /\ cache[i] = Stub => i = Citation /\ LiveChecks
        BY <1>4, <2>1 DEF JInv, CacheIsOnRecord
    <2>2. ASSUME NEW e \in metaCache'
          PROVE  \E r \in Reviews : /\ row'[r][Meta].answer = e.output /\ row'[r][Meta].verdict = "pass"
                                    /\ \A i \in Roles : row'[r][i].answer = e.bundle[i]
        <3>1. CASE e \in metaCache
            <4>1. PICK r \in Reviews :
                    /\ row[r][Meta].answer = e.output /\ row[r][Meta].verdict = "pass"
                    /\ \A i \in Roles : row[r][i].answer = e.bundle[i]
                BY <3>1 DEF JInv, CacheIsOnRecord
            <4>2. row[r][Meta] # NoRow
                BY <4>1
            <4> QED BY <1>4, <1>5, <4>1, <4>2
        <3>2. CASE e = Entry /\ v = "pass"
            BY <1>1, <1>2, <1>4, <1>7, <3>2
        <3> QED BY <1>6, <3>1, <3>2
    <2> QED BY <1>1, <2>1, <2>2 DEF CacheIsOnRecord
<1>16. PassedIsNotPaidAgain'
    <2> SUFFICES ASSUME faults' = 0, NEW q \in Reviews, NEW r \in Reviews, q < r
                 PROVE  /\ \A i \in Roles : row'[q][i].verdict = "pass" => i \notin called[r]
                        /\ (/\ row'[q][Meta].verdict = "pass"
                            /\ \A i \in Roles : /\ row'[r][i].answer \in Reviews
                                                /\ row'[q][i].answer = row'[r][i].answer)
                           => Meta \notin called[r]
        BY <1>1 DEF PassedIsNotPaidAgain
    <2>1. CASE r > count
        BY <2>1 DEF JInv, Numbered
    <2>2. CASE r <= count
        <3>1. row'[q] = row[q]
            BY <1>1, <1>4, <2>2
        <3> QED BY <1>4, <1>6, <3>1 DEF JInv, PassedIsNotPaidAgain
    <2> QED BY <2>1, <2>2 DEF IInv, TypeOK, JobOK
<1> QED BY <1>9, <1>10, <1>11, <1>12, <1>13, <1>14, <1>15, <1>16 DEF JInv

\* The synthesis that is recorded is of the rows, whoever paid for it.
LEMMA SetMetaCaches ==
    ASSUME IInv, JInv, SetMeta
    PROVE  JInv'
<1>1. /\ phase = "set_meta" /\ phase' = "enqueue" /\ review = count /\ review \in Reviews
      /\ UNCHANGED <<review, count, row, called, task, output, fresh, next, cache, metaCache, faults>>
      /\ synthesis' = [synthesis EXCEPT ![review] = output[Meta]] /\ next = RoleCount + 1
    BY DEF SetMeta, run, team, caches, JInv, Numbered, RowsFollowOutputs, IInv, OwnReview, Making
<1>2. \A i \in Roles : row[review][i] # NoRow /\ row[review][i].answer = output[i]
    BY <1>1 DEF JInv, RowsFollowOutputs, IInv, Written
<1>3. /\ \A r \in Reviews : r # review => synthesis'[r] = synthesis[r]
      /\ synthesis'[review] = output[Meta]
    BY <1>1 DEF IInv, TypeOK, ReviewsOK
<1>4. output[Meta] \in Reviews =>
        \A i \in Roles : /\ row[output[Meta]][i] # NoRow
                         /\ row[output[Meta]][i].answer = output[i]
    BY <1>1, <1>2 DEF JInv, MetaIsOfRows
<1>5. Numbered' /\ RowsFollowOutputs' /\ HitsRemain' /\ MetaIsOfRows'
    BY <1>1 DEF JInv, Numbered, RowsFollowOutputs, HitsRemain, MetaIsOfRows
<1>6. RowsHaveOutputs' /\ PassedIsCached' /\ MetaIsLast' /\ CacheIsOnRecord' /\ PassedIsNotPaidAgain'
    BY <1>1 DEF JInv, RowsHaveOutputs, PassedIsCached, MetaIsLast, CacheIsOnRecord, PassedIsNotPaidAgain
<1>7. SynthesisIsWritten' /\ SameAnswers'
    <2>1. SynthesisIsWritten'
        BY <1>1, <1>2, <1>3, <1>4 DEF JInv, SynthesisIsWritten
    <2>2. ASSUME NEW r \in Reviews, synthesis'[r] \in Reviews, NEW i \in Roles
          PROVE  row[r][i].answer = row[synthesis'[r]][i].answer
        <3>1. CASE r = review
            BY <1>2, <1>3, <1>4, <2>2, <3>1
        <3>2. CASE r # review
            BY <1>3, <2>2, <3>2 DEF JInv, SameAnswers
        <3> QED BY <3>1, <3>2
    <2> QED BY <1>1, <2>1, <2>2 DEF SameAnswers
<1> QED BY <1>5, <1>6, <1>7 DEF JInv

LEMMA CacheStep ==
    ASSUME IInv, JInv, [Next]_vars
    PROVE  JInv'
<1>0. TypeOK /\ (Fault => faults' # 0)
    BY DEF IInv, TypeOK, FaultsOK, Fault
<1> USE DEF run, team, records, caches
<1>1. ASSUME NEW r \in 0..ReviewBound, StartJob(r) PROVE JInv'
    BY <1>0, <1>1, QuietStep DEF StartJob, Making
<1>2. CASE MarkRunning
    BY <1>0, <1>2, QuietStep DEF MarkRunning, Making
<1>3. CASE Extract
    BY <1>0, <1>3, QuietStep DEF Extract, Making
<1>4. CASE Enqueue
    BY <1>0, <1>4, QuietStep DEF Enqueue, Making
<1>5. CASE MarkDone
    BY <1>0, <1>5, QuietStep DEF MarkDone, Making
<1>6. CASE Fail
    BY <1>0, <1>6, QuietStep DEF Fail, Making
<1>7. CASE MarkFailed
    BY <1>0, <1>7, QuietStep DEF MarkFailed, Making
<1>8. CASE DatabaseError
    <2>1. phase' \in {"idle", "error"}
        BY <1>8 DEF DatabaseError
    <2> QED BY <1>0, <1>8, <2>1, QuietStep DEF DatabaseError, Making
<1>9. CASE Crash
    BY <1>0, <1>9, QuietStep DEF Crash, Making
<1>10. CASE UNCHANGED vars
    <2>1. Numbered' /\ RowsFollowOutputs' /\ RowsHaveOutputs' /\ MetaIsOfRows' /\ SynthesisIsWritten'
        BY <1>10 DEF vars, JInv, Numbered, RowsFollowOutputs, RowsHaveOutputs, MetaIsOfRows,
                     SynthesisIsWritten
    <2>2. HitsRemain' /\ PassedIsCached' /\ MetaIsLast'
        <3>1. Hits' = Hits
            BY <1>10 DEF vars, Hits, Bundle
        <3>2. HitsRemain'
            BY <1>10, <3>1 DEF vars, JInv, HitsRemain
        <3>3. PassedIsCached' /\ MetaIsLast'
            BY <1>10 DEF vars, JInv, PassedIsCached, MetaIsLast
        <3> QED BY <3>2, <3>3
    <2>3. SameAnswers' /\ CacheIsOnRecord' /\ PassedIsNotPaidAgain'
        BY <1>10 DEF vars, JInv, SameAnswers, CacheIsOnRecord, PassedIsNotPaidAgain
    <2> QED BY <2>1, <2>2, <2>3 DEF JInv
<1> QED BY <1>1, <1>2, <1>3, <1>4, <1>5, <1>6, <1>7, <1>8, <1>9, <1>10, StartReviewCaches,
           TakeCaches, CallReturnsCaches, CollectCaches, VerifyCaches, GateFailsCaches,
           StartMetaCaches, VerifyMetaCaches, SetMetaCaches DEF Next, Step

\* What relates the caches to the rows holds in every state.
THEOREM CachesInductive == Spec => []JInv
<1>1. Init => JInv
    BY DEF Init, JInv, Numbered, RowsFollowOutputs, RowsHaveOutputs, MetaIsOfRows,
           SynthesisIsWritten, HitsRemain, PassedIsCached, MetaIsLast, SameAnswers,
           CacheIsOnRecord, PassedIsNotPaidAgain, Making
<1>2. IInv /\ JInv /\ [Next]_vars => JInv'
    BY CacheStep
<1> QED BY <1>1, <1>2, Inductive, PTL DEF Spec

\* A synthesis on record was made of the answers that became the rows beside it,
\* whichever review paid for it; only the facts in the rows may differ.
THEOREM SynthesesAreOfTheirRows == Spec => []SynthesisIsOfItsRows
<1>1. IInv /\ JInv => SynthesisIsOfItsRows
    <2> SUFFICES ASSUME IInv, JInv, NEW r \in Reviews, synthesis[r] \in Reviews,
                        NEW i \in Roles
                 PROVE  \E out \in Outputs \ {None} : \A q \in {r, synthesis[r]} :
                            row[q][i].answer = out /\ row[q][i].facts = Facts(i, out, q)
        BY DEF SynthesisIsOfItsRows
    <2>1. row[r][i].answer = row[synthesis[r]][i].answer
        BY DEF JInv, SameAnswers
    <2>2. row[r][i] # NoRow /\ row[synthesis[r]][i] # NoRow
        BY DEF JInv, SynthesisIsWritten
    <2>3. row[r][i].answer \in Outputs /\ i \in Agents
        BY DEF IInv, TypeOK, RowsOK
    <2>4. \A q \in {r, synthesis[r]} :
              /\ row[q][i].answer = row[r][i].answer /\ row[q][i].answer # None
              /\ row[q][i].facts = Facts(i, row[q][i].answer, q)
        <3>1. \A q \in Reviews : row[q][i] # NoRow =>
                /\ row[q][i].answer # None
                /\ row[q][i].facts = Facts(i, row[q][i].answer, q)
            BY <2>3 DEF JInv, RowsHaveOutputs
        <3> QED BY <2>1, <2>2, <3>1
    <2>5. row[r][i].answer \in Outputs \ {None}
        BY <2>3, <2>4
    <2> QED BY <2>1, <2>4, <2>5
<1> QED BY <1>1, Inductive, CachesInductive, PTL

\* What a cache offers passed verification in some review that shows it.
THEOREM CachesAreOnRecord == Spec => []CacheIsOnRecord
<1>1. JInv => CacheIsOnRecord
    BY DEF JInv
<1> QED BY <1>1, CachesInductive, PTL

\* Without faults, no agent is paid again for what passed in an earlier review.
THEOREM NothingIsPaidTwice == Spec => []PassedIsNotPaidAgain
<1>1. JInv => PassedIsNotPaidAgain
    BY DEF JInv
<1> QED BY <1>1, CachesInductive, PTL

-----------------------------------------------------------------------------
(***************************************************************************)
(* The rows implement PaperReviews.  A job that starts, inserts a review,  *)
(* gives it up or offers it takes a step of it, every other step leaves    *)
(* the rows of reviews alone.                                              *)
(***************************************************************************)

\* Every review that was counted has a row.
CountedExist == \A r \in Reviews : r <= count => status[r] # "absent"

LEMMA CountedExistStep ==
    ASSUME IInv, CountedExist, [Next]_vars
    PROVE  CountedExist'
<1> USE DEF CountedExist, records, run
<1>1. CASE StartReview
    <2>1. /\ count' = count + 1
          /\ \A q \in Reviews : q # count + 1 => status'[q] \in {"withdrawn", status[q]}
          /\ count + 1 \in Reviews
        BY <1>1 DEF StartReview, InsertReview
    <2>2. status'[count + 1] # "absent"
        BY <1>1, <2>1 DEF StartReview, InsertReview, Replaced, IInv, RowsBegin
    <2>3. count \in Nat
        BY DEF IInv, TypeOK, JobOK
    <2> QED BY <2>1, <2>2, <2>3
<1>2. CASE Fail
    <2>1. count' = count /\ \A q \in Reviews : status'[q] \in {"system_failed", status[q]}
        BY <1>2 DEF Fail, IInv, TypeOK, ReviewsOK
    <2> QED BY <2>1
<1>3. CASE ~StartReview /\ ~Fail
    <2>1. UNCHANGED <<count, status>>
        BY <1>3 DEF Next, Step, vars, StartJob, MarkRunning, Extract, Collect, Verify,
           GateFails, StartMeta, VerifyMeta, SetMeta, Enqueue, MarkDone, MarkFailed, Take,
           CallReturns, DatabaseError, Crash
    <2> QED BY <2>1
<1> QED BY <1>1, <1>2, <1>3

LEMMA CountedExistAlways == Spec => []CountedExist
<1>1. Init => CountedExist
    BY DEF Init, CountedExist
<1> QED BY <1>1, Inductive, CountedExistStep, PTL DEF Spec

\* The new review replaces the only one that can be active.
LEMMA InsertMaps ==
    ASSUME IInv, CountedExist, StartReview
    PROVE  Rows!Insert(count + 1)
<1> USE DEF IInv, TypeOK, JobOK, ReviewsOK
<1> DEFINE r == count + 1
<1>1. r \in Reviews /\ count \in Nat
    BY DEF StartReview, InsertReview
<1>2. ~Rows!Exists(r) /\ \A q \in 1..r - 1 : Rows!Exists(q)
    BY <1>1 DEF RowsBegin, CountedExist, Rows!Exists
<1>3. Replaced = {q \in Rows!Reviews : Rows!Active(q)} /\ r \notin Replaced
    BY <1>1, <1>2 DEF Replaced, Rows!Reviews, Rows!Active, Rows!ActiveStatuses, Rows!Exists
<1>4. status' = [q \in Rows!Reviews |->
                    CASE q = r -> "awaiting_moderation"
                      [] q # r /\ q \in {x \in Rows!Reviews : Rows!Active(x)} -> "withdrawn"
                      [] q # r /\ q \notin {x \in Rows!Reviews : Rows!Active(x)} -> status[q]]
    <2>1. status' = [q \in Reviews |->
                        IF q = r THEN "awaiting_moderation"
                        ELSE IF q \in Replaced THEN "withdrawn" ELSE status[q]]
        BY <1>3 DEF StartReview, InsertReview
    <2> QED BY <2>1, <1>3 DEF Rows!Reviews
<1>5. Moderation' = [q \in Rows!Reviews |->
                        IF q \in {x \in Rows!Reviews : Rows!Active(x)} /\ Moderation[q] = "open"
                        THEN "superseded" ELSE Moderation[q]]
    <2>1. queue' = [q \in Reviews |-> IF q \in Replaced /\ queue[q] # "none"
                                      THEN "superseded" ELSE queue[q]]
        BY DEF StartReview, InsertReview
    <2> QED BY <2>1, <1>3 DEF Moderation, Rows!Reviews
<1> QED BY <1>2, <1>4, <1>5 DEF Rows!Insert

\* The other steps of the rows are of one review and of one table.
LEMMA RowSteps ==
    ASSUME IInv, CountedExist, [Next]_vars
    PROVE  [Rows!RowsNext]_(Rows!rowVars)
<1> USE DEF Rows!rowVars, Rows!Reviews, Rows!Exists
<1>1. CASE StartReview
    <2>1. count + 1 \in Reviews
        BY <1>1 DEF StartReview, InsertReview
    <2> QED BY <1>1, <2>1, InsertMaps DEF Rows!RowsNext
<1>2. ASSUME NEW r \in 0..ReviewBound, StartJob(r)
      PROVE  [Rows!RowsNext]_(Rows!rowVars)
    <2>1. queue' = [q \in Reviews |-> IF q = r THEN "changes_requested" ELSE queue[q]]
            /\ UNCHANGED status
        BY <1>2 DEF StartJob, records
    <2>2. CASE r = 0
        <3>1. queue' = queue
            BY <2>1, <2>2 DEF IInv, TypeOK, ReviewsOK
        <3> QED BY <2>1, <3>1 DEF Moderation
    <2>3. CASE r # 0
        <3>1. r \in Reviews /\ Moderation[r] # "none"
            BY <1>2, <2>3 DEF StartJob, Moderation
        <3>2. Moderation' = [Moderation EXCEPT ![r] = "open"]
            BY <2>1, <3>1 DEF Moderation
        <3> QED BY <2>1, <3>1, <3>2 DEF Rows!Reopen, Rows!RowsNext
    <2> QED BY <2>2, <2>3
<1>3. CASE Fail
    <2>1. UNCHANGED queue /\ UNCHANGED Moderation
        BY <1>3 DEF Fail, Moderation
    <2>2. CASE UNCHANGED status
        BY <2>1, <2>2
    <2>3. CASE status' = [q \in Reviews |-> IF q = review THEN "system_failed" ELSE status[q]]
        <3>1. CASE review = 0
            BY <2>1, <2>3, <3>1 DEF IInv, TypeOK, ReviewsOK
        <3>2. CASE review # 0
            <4>1. review \in Reviews /\ status[review] # "absent" /\ Moderation[review] = "none"
                BY <1>3, <3>2 DEF Fail, IInv, TypeOK, JobOK, RowsBegin, OwnReview, CountedExist,
                   Moderation
            <4>2. status' = [status EXCEPT ![review] = "system_failed"]
                BY <2>3 DEF IInv, TypeOK, ReviewsOK
            <4> QED BY <2>1, <4>1, <4>2 DEF Rows!Fail, Rows!RowsNext
        <3> QED BY <3>1, <3>2
    <2> QED BY <1>3, <2>2, <2>3 DEF Fail
<1>4. CASE Enqueue
    <2>1. /\ review \in Reviews /\ status[review] = "awaiting_moderation"
          /\ Moderation[review] = "none"
        BY <1>4 DEF Enqueue, IInv, OwnReview, Making, Moderation
    <2>2. CASE queue' = [queue EXCEPT ![review] = "pending"]
        <3>1. Moderation' = [Moderation EXCEPT ![review] = "open"]
            BY <2>1, <2>2 DEF Moderation, IInv, TypeOK, ReviewsOK
        <3> QED BY <1>4, <2>1, <3>1 DEF Enqueue, Rows!Offer, Rows!RowsNext
    <2>3. CASE UNCHANGED queue
        BY <1>4, <2>3 DEF Enqueue, Moderation
    <2> QED BY <1>4, <2>2, <2>3 DEF Enqueue
<1>5. CASE \/ MarkRunning \/ Extract \/ Collect \/ Verify \/ GateFails \/ StartMeta
           \/ VerifyMeta \/ SetMeta \/ MarkDone \/ MarkFailed \/ DatabaseError \/ Crash
           \/ \E i \in Roles : Take(i)
           \/ \E a \in Agents : CallReturns(a)
           \/ UNCHANGED vars
    <2>1. UNCHANGED <<status, queue>>
        BY <1>5 DEF vars, records, MarkRunning, Extract, Collect, Verify, GateFails, StartMeta,
           VerifyMeta, SetMeta, MarkDone, MarkFailed, DatabaseError, Crash, Take, CallReturns
    <2> QED BY <2>1 DEF Moderation
<1> QED BY <1>1, <1>2, <1>3, <1>4, <1>5 DEF Next, Step

\* The rows of reviews take only the steps PaperReviews allows, whatever fails,
\* is retried, crashes or is asked for again.
THEOREM ImplementsRows == Spec => RefinesRows
<1>1. Init => Rows!RowsInit
    BY DEF Init, Rows!RowsInit, Rows!Reviews, Moderation
<1> QED BY <1>1, Inductive, CountedExistAlways, RowSteps, PTL
        DEF Spec, RefinesRows, Rows!RowsSpec

-----------------------------------------------------------------------------
(***************************************************************************)
(* Jobs end.  Attempts, phases, roles to verify and the calls of an agent  *)
(* are each taken in an order that has an end, and every step of a job     *)
(* goes on in one of them and back in none that comes before it.           *)
(***************************************************************************)

PhaseRank(p) ==
    CASE p = "mark" -> 1 [] p = "start" -> 2 [] p = "panel" -> 3 [] p = "verify" -> 4
      [] p = "gate" -> 5 [] p = "meta" -> 6 [] p = "verify_meta" -> 7 [] p = "set_meta" -> 8
      [] p = "enqueue" -> 9 [] p = "mark_done" -> 10 [] p = "error" -> 11
      [] p = "mark_failed" -> 12 [] p = "idle" -> 13

TaskRank(t) ==
    CASE t = "none" -> 0 [] t = "waiting" -> 1 [] t = "first" -> 2 [] t = "corrective" -> 3
      [] t = "fallback" -> 4 [] t = "fallback_corrective" -> 5 [] t = "done" -> 6

\* The job goes on to its next attempt, to a later phase of this one, to the next
\* role to verify, or with one of its agents.
Advances ==
    \/ attempt' = attempt + 1
    \/ attempt' = attempt /\ PhaseRank(phase') > PhaseRank(phase)
    \/ UNCHANGED <<attempt, phase>> /\ next' = next + 1
    \/ /\ UNCHANGED <<attempt, phase, next>>
       /\ \E a \in Agents : /\ TaskRank(task'[a]) > TaskRank(task[a])
                           /\ \A b \in Agents \ {a} : task'[b] = task[b]

\* No step of a job, with errors and crashes or without, leads back.
JobsAdvance == [][Step \/ DatabaseError \/ Crash => Advances]_vars

\* A call that returns is over or leads to a later one.
LEMMA CallAdvances ==
    ASSUME IInv, NEW a \in Agents, CallReturns(a)
    PROVE  Advances
<1> USE DEF IInv, TypeOK, TeamOK
<1>1. /\ task[a] \in Calls /\ UNCHANGED <<attempt, next>>
      /\ \E t \in {"done"} \cup AfterCall(task[a]) : task' = [task EXCEPT ![a] = t]
      /\ phase' = IF a = Meta /\ task'[a] = "done" THEN "verify_meta" ELSE phase
    BY DEF CallReturns, Finish, run
<1>2. PICK t \in {"done"} \cup AfterCall(task[a]) : task' = [task EXCEPT ![a] = t]
    BY <1>1
<1>3. task'[a] = t /\ \A b \in Agents \ {a} : task'[b] = task[b]
    BY <1>2
<1>4. TaskRank(t) > TaskRank(task[a])
    BY <1>1, <1>2 DEF AfterCall, TaskRank
<1>5. CASE a = Meta /\ t = "done"
    <2>1. phase = "meta"
        BY <1>1, <1>5 DEF Written
    <2>2. phase' = "verify_meta"
        BY <1>1, <1>3, <1>5
    <2> QED BY <1>1, <2>1, <2>2 DEF Advances, PhaseRank
<1>6. CASE ~(a = Meta /\ t = "done")
    BY <1>1, <1>3, <1>4, <1>6 DEF Advances
<1> QED BY <1>5, <1>6

\* A job goes through its attempts in order and through each attempt once: what
\* JobsEnd needs besides fairness and a step to take.
THEOREM EveryStepAdvances == Spec => JobsAdvance
<1>1. ASSUME IInv, Step PROVE Advances
    <2>1. CASE \/ MarkRunning \/ Extract \/ StartReview \/ Collect \/ GateFails \/ StartMeta
               \/ VerifyMeta \/ SetMeta \/ Enqueue \/ MarkDone \/ MarkFailed
        <3>1. UNCHANGED attempt
            BY <2>1 DEF MarkRunning, Extract, StartReview, Collect, GateFails, StartMeta, VerifyMeta,
               SetMeta, Enqueue, MarkDone, MarkFailed, run
        <3>2. \/ phase = "mark" /\ phase' = "start"
              \/ phase = "start" /\ phase' \in {"error", "panel"}
              \/ phase = "panel" /\ phase' = "verify"
              \/ phase = "gate" /\ phase' \in {"enqueue", "verify_meta", "meta"}
              \/ phase = "verify_meta" /\ phase' = "set_meta"
              \/ phase = "set_meta" /\ phase' = "enqueue"
              \/ phase = "enqueue" /\ phase' = "mark_done"
              \/ phase \in {"mark_done", "mark_failed"} /\ phase' = "idle"
            BY <2>1 DEF MarkRunning, Extract, StartReview, Collect, GateFails, StartMeta, VerifyMeta,
               SetMeta, Enqueue, MarkDone, MarkFailed
        <3> QED BY <3>1, <3>2 DEF Advances, PhaseRank
    <2>2. CASE Verify
        <3>1. /\ phase = "verify" /\ UNCHANGED attempt
              /\ \/ next' = next + 1 /\ phase' \in {"gate", "verify"}
                 \/ phase' = "error"
            BY <2>2 DEF Verify, run
        <3> QED BY <3>1 DEF Advances, PhaseRank
    <2>3. CASE Fail
        <3>1. \/ attempt' = attempt + 1
              \/ UNCHANGED attempt /\ phase = "error" /\ phase' = "mark_failed"
            BY <2>3 DEF Fail
        <3> QED BY <3>1 DEF Advances, PhaseRank
    <2>4. ASSUME NEW i \in Roles, Take(i) PROVE Advances
        <3>1. /\ UNCHANGED <<attempt, phase, next>> /\ task[i] = "waiting"
              /\ \E t \in {"first", "done"} : task' = [task EXCEPT ![i] = t]
            BY <2>4 DEF Take, Finish, Call, run
        <3>2. task'[i] \in {"first", "done"} /\ \A b \in Agents \ {i} : task'[b] = task[b]
            BY <1>1, <3>1 DEF IInv, TypeOK, TeamOK
        <3>3. TaskRank(task'[i]) > TaskRank(task[i])
            BY <3>1, <3>2 DEF TaskRank
        <3> QED BY <3>1, <3>2, <3>3 DEF Advances
    <2>5. ASSUME NEW a \in Agents, CallReturns(a) PROVE Advances
        BY <1>1, <2>5, CallAdvances
    <2> QED BY <1>1, <2>1, <2>2, <2>3, <2>4, <2>5 DEF Step
<1>2. ASSUME IInv, DatabaseError \/ Crash PROVE Advances
    <2>1. UNCHANGED attempt
        BY <1>2 DEF DatabaseError, Crash, run
    <2>2. CASE Crash
        <3>1. phase \in Making \cup Outside \cup {"error"} /\ phase # "idle" /\ phase' = "idle"
            BY <1>2, <2>2 DEF Crash, IInv, TypeOK, JobOK, Making, Outside
        <3> QED BY <2>1, <3>1 DEF Advances, PhaseRank, Making, Outside
    <2>3. CASE DatabaseError
        <3>1. \/ phase \in {"mark", "mark_done", "mark_failed"} /\ phase' = "idle"
              \/ phase \in {"start", "panel", "verify", "gate", "verify_meta", "set_meta"}
                   /\ phase' = "error"
            BY <2>3 DEF DatabaseError
        <3> QED BY <2>1, <3>1 DEF Advances, PhaseRank
    <2> QED BY <1>2, <2>2, <2>3
<1>3. IInv /\ [Next]_vars => [Step \/ DatabaseError \/ Crash => Advances]_vars
    BY <1>1, <1>2
<1> QED BY <1>3, Inductive, PTL DEF Spec, JobsAdvance
=============================================================================
