--------------------------- MODULE ReviewBatchProofs ---------------------------
(***************************************************************************)
(* What TLAPS proves of ReviewBatch, for any number of runners, items and  *)
(* faults: papers are reviewed once, and what the batch is called agrees   *)
(* with its items although no transaction spans the counts and the update. *)
(* A verdict stays true between them because nothing is pending when it is *)
(* taken, and nothing becomes pending again once the batch was created.    *)
(***************************************************************************)
EXTENDS ReviewBatch, NaturalsInduction, WellFoundedInduction, TLAPS

\* A runner with items is working on one of them, and they were claimed.
TodoIsClaimed ==
    \A r \in Runners :
        /\ pc[r] = "idle" <=> todo[r] = {}
        /\ \A i \in todo[r] : item[i] \notin {"absent", "queued"}

\* An item stays running until its runner says how it ended; only an error of
\* the database makes the runner say so twice.
UntouchedIsRunning ==
    \A r \in Runners : \A i \in todo[r] :
        \/ i # Current(r)
        \/ pc[r] \in {"review", "open_pr", "mark_succeeded"}
        \/ pc[r] = "mark_failed" /\ faults = 0
        => item[i] = "running"

\* A batch that was not run before it was complete is settled by runners who
\* found nothing pending.
ClaimsFollowCreation ==
    ~early =>
        /\ creating => batch = "active" /\ \A r \in Runners : pc[r] = "idle"
        /\ (batch # "active" \/ \E r \in Runners : pc[r] \in {"count_failed", "label"})
               => \A i \in Items : item[i] \notin Pending

\* A verdict holds until it is written.
VerdictsHold ==
    \A r \in Runners : pc[r] = "label" =>
        /\ verdict[r] = "failed" => Failures # {}
        /\ verdict[r] = "done" /\ ~early /\ faults = 0 => Failures = {}

\* The inductive invariant.
IInv ==
    /\ TypeOK
    /\ ReviewedOnce
    /\ TodoIsClaimed
    /\ UntouchedIsRunning
    /\ ClaimsFollowCreation
    /\ VerdictsHold
    /\ LabelMatchesItems

-----------------------------------------------------------------------------

\* A nonempty set of positions has a first one.
LEMMA MinIsMember ==
    ASSUME NEW S, S \subseteq Nat, S # {}
    PROVE  Min(S) \in S
<1>1. PICK R : /\ IsWellFoundedOn(R, Nat)
               /\ \A x, y \in Nat : y < x => <<y, x>> \in R
    BY NatLessThanWellFounded DEF OpToRel
<1>2. PICK x \in S : \A y \in S : ~ (<<y, x>> \in R)
    BY <1>1, WFMin
<1>3. ASSUME NEW y \in S PROVE x =< y
    <2>1. x \in Nat /\ y \in Nat
        OBVIOUS
    <2>2. ~ (y < x)
        BY <1>1, <1>2, <2>1
    <2> QED BY <2>1, <2>2
<1> QED BY <1>3 DEF Min

\* A runner that is not idle works on an item it has claimed.
LEMMA CurrentIsClaimed ==
    ASSUME TypeOK, TodoIsClaimed, NEW r \in Runners, pc[r] # "idle"
    PROVE  Current(r) \in todo[r] /\ Current(r) \in Items
<1>1. todo[r] \subseteq Items /\ todo[r] # {}
    BY DEF TypeOK, TodoIsClaimed
<1>2. Items \subseteq Nat
    BY BatchAssumption DEF Items
<1> QED BY <1>1, <1>2, MinIsMember DEF Current

USE DEF Items, Pending, Settled, Refreshing, Stages, Failures, Goto

LEMMA InitInv == Init => IInv
<1> SUFFICES ASSUME Init PROVE IInv
    OBVIOUS
<1> USE DEF Init
<1>1. TypeOK
    <2>1. item \in [Items -> {"absent"} \cup Pending \cup Settled]
        OBVIOUS
    <2>2. attempts \in [Items -> 0..1]
        OBVIOUS
    <2>3. faults \in 0..FaultBound
        BY BatchAssumption
    <2>4. /\ batch \in {"active", "done", "failed"}
          /\ creating \in BOOLEAN /\ early \in BOOLEAN
          /\ pc \in [Runners -> Stages]
          /\ todo \in [Runners -> SUBSET Items]
          /\ hasUrl \in [Runners -> BOOLEAN]
          /\ erred \in [Runners -> BOOLEAN]
          /\ verdict \in [Runners -> {"done", "failed"}]
        BY Zenon
    <2> QED BY <2>1, <2>2, <2>3, <2>4 DEF TypeOK
<1>2. ReviewedOnce
    BY DEF ReviewedOnce
<1>3. TodoIsClaimed
    BY DEF TodoIsClaimed
<1>4. UntouchedIsRunning
    BY DEF UntouchedIsRunning
<1>5. ClaimsFollowCreation
    BY DEF ClaimsFollowCreation
<1>6. VerdictsHold
    BY DEF VerdictsHold
<1>7. LabelMatchesItems
    BY DEF LabelMatchesItems
<1> QED BY <1>1, <1>2, <1>3, <1>4, <1>5, <1>6, <1>7 DEF IInv

LEMMA InsertItemStep ==
    ASSUME IInv, NEW i \in Items, InsertItem(i)
    PROVE  IInv'
<1> USE BatchAssumption DEF IInv, InsertItem
<1>1. TypeOK'
    BY DEF TypeOK
<1>2. ReviewedOnce'
    BY DEF TypeOK, TodoIsClaimed, ReviewedOnce
<1>3. TodoIsClaimed'
    BY DEF TypeOK, TodoIsClaimed
<1>4. UntouchedIsRunning'
    BY DEF TypeOK, TodoIsClaimed, ReviewedOnce, UntouchedIsRunning, Current
<1>5. ClaimsFollowCreation'
    BY DEF TypeOK, TodoIsClaimed, ClaimsFollowCreation, UntouchedIsRunning
<1>6. VerdictsHold'
    BY DEF TypeOK, VerdictsHold, ClaimsFollowCreation, UntouchedIsRunning, TodoIsClaimed
<1>7. LabelMatchesItems'
    BY DEF TypeOK, LabelMatchesItems, VerdictsHold, ClaimsFollowCreation, UntouchedIsRunning
<1> QED BY <1>1, <1>2, <1>3, <1>4, <1>5, <1>6, <1>7 DEF IInv

LEMMA EndCreateStep ==
    ASSUME IInv, EndCreate
    PROVE  IInv'
<1> USE BatchAssumption DEF IInv, EndCreate
<1>1. TypeOK'
    <2>1. faults' \in 0..FaultBound
        BY DEF TypeOK
    <2>2. creating' \in BOOLEAN
        BY Zenon
    <2> QED BY <2>1, <2>2 DEF TypeOK
<1>2. ReviewedOnce'
    BY DEF TypeOK, TodoIsClaimed, ReviewedOnce
<1>3. TodoIsClaimed'
    BY DEF TypeOK, TodoIsClaimed
<1>4. UntouchedIsRunning'
    BY DEF TypeOK, TodoIsClaimed, ReviewedOnce, UntouchedIsRunning, Current
<1>5. ClaimsFollowCreation'
    BY DEF TypeOK, TodoIsClaimed, ClaimsFollowCreation, UntouchedIsRunning
<1>6. VerdictsHold'
    BY DEF TypeOK, VerdictsHold, ClaimsFollowCreation, UntouchedIsRunning, TodoIsClaimed
<1>7. LabelMatchesItems'
    BY DEF TypeOK, LabelMatchesItems, VerdictsHold, ClaimsFollowCreation, UntouchedIsRunning
<1> QED BY <1>1, <1>2, <1>3, <1>4, <1>5, <1>6, <1>7 DEF IInv

LEMMA ClaimStep ==
    ASSUME IInv, NEW r \in Runners, NEW today \in Items, NEW limit \in 1..ItemCount, Claim(r, today, limit)
    PROVE  IInv'
<1> USE BatchAssumption DEF IInv, Claim, Due
<1>1. TypeOK'
    BY DEF TypeOK, ReviewedOnce
<1>2. ReviewedOnce'
    BY DEF TypeOK, TodoIsClaimed, ReviewedOnce
<1>3. TodoIsClaimed'
    BY DEF TypeOK, TodoIsClaimed
<1>4. UntouchedIsRunning'
    BY DEF TypeOK, TodoIsClaimed, ReviewedOnce, UntouchedIsRunning, Current
<1>5. ClaimsFollowCreation'
    BY DEF TypeOK, TodoIsClaimed, ClaimsFollowCreation, UntouchedIsRunning
<1>6. VerdictsHold'
    BY DEF TypeOK, VerdictsHold, ClaimsFollowCreation, UntouchedIsRunning, TodoIsClaimed
<1>7. LabelMatchesItems'
    BY DEF TypeOK, LabelMatchesItems, VerdictsHold, ClaimsFollowCreation, UntouchedIsRunning
<1> QED BY <1>1, <1>2, <1>3, <1>4, <1>5, <1>6, <1>7 DEF IInv

LEMMA ReviewStep ==
    ASSUME IInv, NEW r \in Runners, Review(r)
    PROVE  IInv'
<1> USE BatchAssumption DEF IInv, Review, Errs
<1>0. Current(r) \in todo[r] /\ Current(r) \in Items
    BY CurrentIsClaimed
<1>1. TypeOK'
    BY <1>0 DEF TypeOK
<1>2. ReviewedOnce'
    BY <1>0 DEF TypeOK, TodoIsClaimed, ReviewedOnce
<1>3. TodoIsClaimed'
    BY <1>0 DEF TypeOK, TodoIsClaimed
<1>4. UntouchedIsRunning'
    BY <1>0 DEF TypeOK, TodoIsClaimed, ReviewedOnce, UntouchedIsRunning, Current
<1>5. ClaimsFollowCreation'
    BY <1>0 DEF TypeOK, TodoIsClaimed, ClaimsFollowCreation, UntouchedIsRunning
<1>6. VerdictsHold'
    BY <1>0 DEF TypeOK, VerdictsHold, ClaimsFollowCreation, UntouchedIsRunning, TodoIsClaimed
<1>7. LabelMatchesItems'
    BY <1>0 DEF TypeOK, LabelMatchesItems, VerdictsHold, ClaimsFollowCreation, UntouchedIsRunning
<1> QED BY <1>1, <1>2, <1>3, <1>4, <1>5, <1>6, <1>7 DEF IInv

LEMMA OpenPrStep ==
    ASSUME IInv, NEW r \in Runners, OpenPr(r)
    PROVE  IInv'
<1> USE BatchAssumption DEF IInv, OpenPr, Errs
<1>0. Current(r) \in todo[r] /\ Current(r) \in Items
    BY CurrentIsClaimed
<1>1. TypeOK'
    BY <1>0 DEF TypeOK
<1>2. ReviewedOnce'
    BY <1>0 DEF TypeOK, TodoIsClaimed, ReviewedOnce
<1>3. TodoIsClaimed'
    BY <1>0 DEF TypeOK, TodoIsClaimed
<1>4. UntouchedIsRunning'
    BY <1>0 DEF TypeOK, TodoIsClaimed, ReviewedOnce, UntouchedIsRunning, Current
<1>5. ClaimsFollowCreation'
    BY <1>0 DEF TypeOK, TodoIsClaimed, ClaimsFollowCreation, UntouchedIsRunning
<1>6. VerdictsHold'
    BY <1>0 DEF TypeOK, VerdictsHold, ClaimsFollowCreation, UntouchedIsRunning, TodoIsClaimed
<1>7. LabelMatchesItems'
    BY <1>0 DEF TypeOK, LabelMatchesItems, VerdictsHold, ClaimsFollowCreation, UntouchedIsRunning
<1> QED BY <1>1, <1>2, <1>3, <1>4, <1>5, <1>6, <1>7 DEF IInv

LEMMA MarkSucceededStep ==
    ASSUME IInv, NEW r \in Runners, MarkSucceeded(r)
    PROVE  IInv'
<1> USE BatchAssumption DEF IInv, MarkSucceeded, SetItem
<1>0. Current(r) \in todo[r] /\ Current(r) \in Items
    BY CurrentIsClaimed
<1>1. TypeOK'
    BY <1>0 DEF TypeOK
<1>2. ReviewedOnce'
    BY <1>0 DEF TypeOK, TodoIsClaimed, ReviewedOnce
<1>3. TodoIsClaimed'
    BY <1>0 DEF TypeOK, TodoIsClaimed
<1>4. UntouchedIsRunning'
    BY <1>0 DEF TypeOK, TodoIsClaimed, ReviewedOnce, UntouchedIsRunning, Current
<1>5. ClaimsFollowCreation'
    BY <1>0 DEF TypeOK, TodoIsClaimed, ClaimsFollowCreation, UntouchedIsRunning
<1>6. VerdictsHold'
    BY <1>0 DEF TypeOK, VerdictsHold, ClaimsFollowCreation, UntouchedIsRunning, TodoIsClaimed
<1>7. LabelMatchesItems'
    BY <1>0 DEF TypeOK, LabelMatchesItems, VerdictsHold, ClaimsFollowCreation, UntouchedIsRunning
<1> QED BY <1>1, <1>2, <1>3, <1>4, <1>5, <1>6, <1>7 DEF IInv

LEMMA MarkFailedStep ==
    ASSUME IInv, NEW r \in Runners, MarkFailed(r)
    PROVE  IInv'
<1> USE BatchAssumption DEF IInv, MarkFailed, SetItem
<1>0. Current(r) \in todo[r] /\ Current(r) \in Items
    BY CurrentIsClaimed
<1>1. TypeOK'
    BY <1>0 DEF TypeOK
<1>2. ReviewedOnce'
    BY <1>0 DEF TypeOK, TodoIsClaimed, ReviewedOnce
<1>3. TodoIsClaimed'
    BY <1>0 DEF TypeOK, TodoIsClaimed
<1>4. UntouchedIsRunning'
    BY <1>0 DEF TypeOK, TodoIsClaimed, ReviewedOnce, UntouchedIsRunning, Current
<1>5. ClaimsFollowCreation'
    BY <1>0 DEF TypeOK, TodoIsClaimed, ClaimsFollowCreation, UntouchedIsRunning
<1>6. VerdictsHold'
    BY <1>0 DEF TypeOK, VerdictsHold, ClaimsFollowCreation, UntouchedIsRunning, TodoIsClaimed
<1>7. LabelMatchesItems'
    BY <1>0 DEF TypeOK, LabelMatchesItems, VerdictsHold, ClaimsFollowCreation, UntouchedIsRunning
<1> QED BY <1>1, <1>2, <1>3, <1>4, <1>5, <1>6, <1>7 DEF IInv

LEMMA CountPendingStep ==
    ASSUME IInv, NEW r \in Runners, CountPending(r)
    PROVE  IInv'
<1> USE BatchAssumption DEF IInv, CountPending, NextItem
<1>0. Current(r) \in todo[r] /\ Current(r) \in Items
    BY CurrentIsClaimed
<1>1. TypeOK'
    <2>1. pc' \in [Runners -> Stages] /\ todo' \in [Runners -> SUBSET Items]
        <3>1. pc \in [Runners -> Stages] /\ todo \in [Runners -> SUBSET Items]
            BY DEF TypeOK
        <3>2. pc' \in [Runners -> Stages]
            BY <3>1
        <3> QED BY <3>1, <3>2
    <2>2. erred' \in [Runners -> BOOLEAN]
        BY Zenon DEF TypeOK
    <2> QED BY <2>1, <2>2 DEF TypeOK
<1>2. ReviewedOnce'
    BY <1>0 DEF TypeOK, TodoIsClaimed, ReviewedOnce
<1>3. TodoIsClaimed'
    BY <1>0 DEF TypeOK, TodoIsClaimed
<1>4. UntouchedIsRunning'
    BY <1>0 DEF TypeOK, TodoIsClaimed, ReviewedOnce, UntouchedIsRunning, Current
<1>5. ClaimsFollowCreation'
    BY <1>0 DEF TypeOK, TodoIsClaimed, ClaimsFollowCreation, UntouchedIsRunning
<1>6. VerdictsHold'
    BY <1>0 DEF TypeOK, VerdictsHold, ClaimsFollowCreation, UntouchedIsRunning, TodoIsClaimed
<1>7. LabelMatchesItems'
    BY <1>0 DEF TypeOK, LabelMatchesItems, VerdictsHold, ClaimsFollowCreation, UntouchedIsRunning
<1> QED BY <1>1, <1>2, <1>3, <1>4, <1>5, <1>6, <1>7 DEF IInv

LEMMA CountFailedStep ==
    ASSUME IInv, NEW r \in Runners, CountFailed(r)
    PROVE  IInv'
<1> USE BatchAssumption DEF IInv, CountFailed
<1>0. Current(r) \in todo[r] /\ Current(r) \in Items
    BY CurrentIsClaimed
<1>1. TypeOK'
    BY <1>0 DEF TypeOK
<1>2. ReviewedOnce'
    BY <1>0 DEF TypeOK, TodoIsClaimed, ReviewedOnce
<1>3. TodoIsClaimed'
    BY <1>0 DEF TypeOK, TodoIsClaimed
<1>4. UntouchedIsRunning'
    BY <1>0 DEF TypeOK, TodoIsClaimed, ReviewedOnce, UntouchedIsRunning, Current
<1>5. ClaimsFollowCreation'
    BY <1>0 DEF TypeOK, TodoIsClaimed, ClaimsFollowCreation, UntouchedIsRunning
<1>6. VerdictsHold'
    <2> SUFFICES ASSUME NEW s \in Runners, pc'[s] = "label"
                 PROVE  /\ verdict'[s] = "failed" => Failures # {}
                        /\ verdict'[s] = "done" /\ ~early /\ faults = 0 => Failures = {}
        BY DEF VerdictsHold
    <2>1. CASE s = r
        BY <2>1 DEF TypeOK
    <2>2. CASE s # r
        <3>1. pc[s] = "label" /\ verdict'[s] = verdict[s]
            BY <2>2 DEF TypeOK
        <3> QED BY <3>1 DEF VerdictsHold
    <2> QED BY <2>1, <2>2
<1>7. LabelMatchesItems'
    BY <1>0 DEF TypeOK, LabelMatchesItems, VerdictsHold, ClaimsFollowCreation, UntouchedIsRunning
<1> QED BY <1>1, <1>2, <1>3, <1>4, <1>5, <1>6, <1>7 DEF IInv

LEMMA LabelStep ==
    ASSUME IInv, NEW r \in Runners, Label(r)
    PROVE  IInv'
<1> USE BatchAssumption DEF IInv, Label, NextItem
<1>0. Current(r) \in todo[r] /\ Current(r) \in Items
    BY CurrentIsClaimed
<1>1. TypeOK'
    BY <1>0 DEF TypeOK
<1>2. ReviewedOnce'
    BY <1>0 DEF TypeOK, TodoIsClaimed, ReviewedOnce
<1>3. TodoIsClaimed'
    BY <1>0 DEF TypeOK, TodoIsClaimed
<1>4. UntouchedIsRunning'
    BY <1>0 DEF TypeOK, TodoIsClaimed, ReviewedOnce, UntouchedIsRunning, Current
<1>5. ClaimsFollowCreation'
    BY <1>0 DEF TypeOK, TodoIsClaimed, ClaimsFollowCreation, UntouchedIsRunning
<1>6. VerdictsHold'
    BY <1>0 DEF TypeOK, VerdictsHold, ClaimsFollowCreation, UntouchedIsRunning, TodoIsClaimed
<1>7. LabelMatchesItems'
    BY <1>0 DEF TypeOK, LabelMatchesItems, VerdictsHold, ClaimsFollowCreation, UntouchedIsRunning
<1> QED BY <1>1, <1>2, <1>3, <1>4, <1>5, <1>6, <1>7 DEF IInv

LEMMA DatabaseErrorStep ==
    ASSUME IInv, NEW r \in Runners, DatabaseError(r)
    PROVE  IInv'
<1> USE BatchAssumption DEF IInv, DatabaseError, NextItem, Errs
<1>0. Current(r) \in todo[r] /\ Current(r) \in Items
    BY CurrentIsClaimed
<1>1. TypeOK'
    <2>1. pc' \in [Runners -> Stages] /\ todo' \in [Runners -> SUBSET Items]
        <3>1. CASE erred[r]
            BY <1>0, <3>1 DEF TypeOK
        <3>2. CASE ~erred[r]
            BY <1>0, <3>2 DEF TypeOK
        <3> QED BY <3>1, <3>2
    <2>2. erred' \in [Runners -> BOOLEAN]
        BY Zenon DEF TypeOK
    <2>3. faults' \in 0..FaultBound
        BY DEF TypeOK
    <2> QED BY <2>1, <2>2, <2>3 DEF TypeOK
<1>2. ReviewedOnce'
    BY <1>0 DEF TypeOK, TodoIsClaimed, ReviewedOnce
<1>3. TodoIsClaimed'
    BY <1>0 DEF TypeOK, TodoIsClaimed
<1>4. UntouchedIsRunning'
    BY <1>0 DEF TypeOK, TodoIsClaimed, ReviewedOnce, UntouchedIsRunning, Current
<1>5. ClaimsFollowCreation'
    BY <1>0 DEF TypeOK, TodoIsClaimed, ClaimsFollowCreation, UntouchedIsRunning
<1>6. VerdictsHold'
    BY <1>0 DEF TypeOK, VerdictsHold, ClaimsFollowCreation, UntouchedIsRunning, TodoIsClaimed
<1>7. LabelMatchesItems'
    BY <1>0 DEF TypeOK, LabelMatchesItems, VerdictsHold, ClaimsFollowCreation, UntouchedIsRunning
<1> QED BY <1>1, <1>2, <1>3, <1>4, <1>5, <1>6, <1>7 DEF IInv

LEMMA CrashStep ==
    ASSUME IInv, NEW r \in Runners, Crash(r)
    PROVE  IInv'
<1> USE BatchAssumption DEF IInv, Crash
<1>1. TypeOK'
    BY DEF TypeOK
<1>2. ReviewedOnce'
    BY DEF TypeOK, TodoIsClaimed, ReviewedOnce
<1>3. TodoIsClaimed'
    BY DEF TypeOK, TodoIsClaimed
<1>4. UntouchedIsRunning'
    BY DEF TypeOK, TodoIsClaimed, ReviewedOnce, UntouchedIsRunning, Current
<1>5. ClaimsFollowCreation'
    BY DEF TypeOK, TodoIsClaimed, ClaimsFollowCreation, UntouchedIsRunning
<1>6. VerdictsHold'
    BY DEF TypeOK, VerdictsHold, ClaimsFollowCreation, UntouchedIsRunning, TodoIsClaimed
<1>7. LabelMatchesItems'
    BY DEF TypeOK, LabelMatchesItems, VerdictsHold, ClaimsFollowCreation, UntouchedIsRunning
<1> QED BY <1>1, <1>2, <1>3, <1>4, <1>5, <1>6, <1>7 DEF IInv

LEMMA Step == IInv /\ [Next]_vars => IInv'
<1> SUFFICES ASSUME IInv, [Next]_vars PROVE IInv'
    OBVIOUS
<1>1. CASE \E i \in Items : InsertItem(i)
    BY <1>1, InsertItemStep
<1>2. CASE EndCreate
    BY <1>2, EndCreateStep
<1>3. ASSUME NEW r \in Runners, NEW today \in Items, NEW limit \in 1..ItemCount,
             Claim(r, today, limit)
      PROVE  IInv'
    BY <1>3, ClaimStep
<1>4. ASSUME NEW r \in Runners, RunnerStep(r) PROVE IInv'
    BY <1>4, ReviewStep, OpenPrStep, MarkSucceededStep, MarkFailedStep,
       CountPendingStep, CountFailedStep, LabelStep DEF RunnerStep
<1>5. ASSUME NEW r \in Runners, DatabaseError(r) \/ Crash(r) PROVE IInv'
    BY <1>5, DatabaseErrorStep, CrashStep
<1>6. CASE UNCHANGED vars
    BY <1>6 DEF vars, IInv, TypeOK, ReviewedOnce, TodoIsClaimed, UntouchedIsRunning,
                Current, ClaimsFollowCreation, VerdictsHold, LabelMatchesItems
<1> QED BY <1>1, <1>2, <1>3, <1>4, <1>5, <1>6 DEF Next

\* The invariant holds in every state, for all constants.
THEOREM Inductive == Spec => []IInv
    BY InitInv, Step, PTL DEF Spec

\* Every variable keeps its type; no item is attempted more than once.
THEOREM TypeCorrect == Spec => []TypeOK
<1>1. IInv => TypeOK
    BY DEF IInv
<1> QED BY Inductive, <1>1, PTL

\* No paper is reviewed twice and no two runners share one, whatever runs
\* overlap, crash or are started again.
THEOREM PapersAreReviewedOnce == Spec => []ReviewedOnce
<1>1. IInv => ReviewedOnce
    BY DEF IInv
<1> QED BY Inductive, <1>1, PTL

\* A batch called done or failed has no work left, unless it was run while it
\* was created.
THEOREM SettledIsSettled == Spec => []SettledBatchHasNoWork
<1>1. IInv => SettledBatchHasNoWork
    BY DEF IInv, ClaimsFollowCreation, SettledBatchHasNoWork
<1> QED BY Inductive, <1>1, PTL

\* What a batch is called agrees with what its items became.
THEOREM LabelsAreRight == Spec => []LabelMatchesItems
<1>1. IInv => LabelMatchesItems
    BY DEF IInv
<1> QED BY Inductive, <1>1, PTL
-----------------------------------------------------------------------------

\* Without faults, a batch with nothing left to do is labelled, or some runner
\* is about to look for what is pending and will find nothing: of runners who
\* finish the last items together, not all see the other's.
FinishedBatchIsLabelled ==
    /\ faults = 0
    /\ \E i \in Items : item[i] \in Settled
    /\ \A i \in Items : item[i] \notin Pending
    => batch # "active" \/ \E r \in Runners : pc[r] \in Refreshing

LEMMA FinishedStep ==
    ASSUME IInv, FinishedBatchIsLabelled, [Next]_vars
    PROVE  FinishedBatchIsLabelled'
<1> SUFFICES ASSUME faults' = 0, \E i \in Items : item'[i] \in Settled,
                    \A i \in Items : item'[i] \notin Pending,
                    batch' = "active"
             PROVE  \E r \in Runners : pc'[r] \in Refreshing
    BY DEF FinishedBatchIsLabelled
<1>0. TypeOK /\ TypeOK'
    BY Step DEF IInv
<1>1. ASSUME NEW r \in Runners, RunnerStep(r) PROVE pc'[r] \in Refreshing \/ Review(r) \/ OpenPr(r)
    <2>1. CASE MarkSucceeded(r) \/ MarkFailed(r)
        BY <1>0, <2>1 DEF MarkSucceeded, MarkFailed, SetItem, TypeOK
    <2>2. CASE CountPending(r)
        BY <1>0, <2>2 DEF CountPending, TypeOK
    <2>3. CASE CountFailed(r)
        BY <1>0, <2>3 DEF CountFailed, TypeOK
    <2>4. ~Label(r)
        BY <1>0 DEF Label, TypeOK
    <2> QED BY <1>1, <2>1, <2>2, <2>3, <2>4 DEF RunnerStep
<1>2. ASSUME NEW r \in Runners, Review(r) \/ OpenPr(r)
      PROVE  /\ UNCHANGED <<item, batch, faults>> /\ pc[r] \notin Refreshing
             /\ \A s \in Runners \ {r} : pc'[s] = pc[s]
    BY <1>0, <1>2 DEF Review, OpenPr, Errs, TypeOK
<1>3. ASSUME NEW r \in Runners, Review(r) \/ OpenPr(r) PROVE \E s \in Runners : pc'[s] \in Refreshing
    BY <1>2, <1>3 DEF FinishedBatchIsLabelled
<1>4. ~\E i \in Items : InsertItem(i)
    BY <1>0 DEF InsertItem, TypeOK
<1>5. ASSUME NEW r \in Runners, NEW today \in Items, NEW limit \in 1..ItemCount, Claim(r, today, limit)
      PROVE  FALSE
    BY <1>0, <1>5 DEF Claim, Due, TypeOK
<1>6. ASSUME NEW r \in Runners PROVE ~(DatabaseError(r) \/ Crash(r))
    BY <1>0, BatchAssumption DEF DatabaseError, Crash, TypeOK
<1>7. CASE EndCreate \/ UNCHANGED vars
    <2>1. UNCHANGED <<item, batch, pc, faults>>
        BY <1>0, <1>7, BatchAssumption DEF EndCreate, vars, TypeOK
    <2> QED BY <2>1 DEF FinishedBatchIsLabelled
<1> QED BY <1>1, <1>3, <1>4, <1>5, <1>6, <1>7 DEF Next

\* Whichever runners finish last, and in whatever order they count: no batch
\* is left without its label, unless something failed.
THEOREM NoLabelIsLost == Spec => []FinishedBatchIsLabelled
<1>1. Init => FinishedBatchIsLabelled
    BY DEF Init, FinishedBatchIsLabelled
<1> QED BY <1>1, FinishedStep, Inductive, PTL DEF Spec

-----------------------------------------------------------------------------
(* A batch gets on                                                         *)

ItemRank(state) ==
    CASE state = "absent"  -> 0
      [] state = "queued"  -> 1
      [] state = "running" -> 2
      [] OTHER             -> 3

StageRank(stage) ==
    CASE stage = "idle"                             -> 0
      [] stage = "review"                           -> 1
      [] stage = "open_pr"                          -> 2
      [] stage \in {"mark_succeeded", "mark_failed"} -> 3
      [] stage = "count_pending"                    -> 4
      [] stage = "count_failed"                     -> 5
      [] OTHER                                      -> 6

Rests(r) == pc'[r] = pc[r] /\ todo'[r] = todo[r] /\ erred'[r] = erred[r]

\* A runner has fewer items left, or gets to the error or a later stage of one.
GetsOn(r) ==
    \/ todo'[r] \subseteq todo[r] /\ todo'[r] # todo[r]
    \/ todo'[r] = todo[r] /\ ~erred[r] /\ erred'[r]
    \/ todo'[r] = todo[r] /\ erred'[r] = erred[r] /\ StageRank(pc[r]) < StageRank(pc'[r])

ItemsStand == (creating' => creating) /\ \A i \in Items : ItemRank(item[i]) <= ItemRank(item'[i])
ItemsAdvance ==
    \/ creating /\ ~creating'
    \/ \E i \in Items : ItemRank(item[i]) < ItemRank(item'[i])
RunnersAdvance ==
    /\ \A r \in Runners : Rests(r) \/ GetsOn(r)
    /\ \E r \in Runners : GetsOn(r)

\* No item falls back, and every step that takes none further is one of a
\* runner that gets on while the others keep their places.
Advances == ItemsStand /\ (ItemsAdvance \/ RunnersAdvance)
BatchAdvances == [][Advances]_vars

LEMMA ItemRanks == \A s : ItemRank(s) \in 0..3
BY DEF ItemRank

\* Only the one runner moves.
LEMMA OthersRest ==
    ASSUME TypeOK, NEW r \in Runners, RunnerStep(r) \/ DatabaseError(r) \/ Crash(r)
    PROVE  \A s \in Runners \ {r} : Rests(s)
BY DEF TypeOK, RunnerStep, Review, OpenPr, MarkSucceeded, MarkFailed, SetItem, CountPending,
   CountFailed, Label, NextItem, Errs, DatabaseError, Crash, Rests

LEMMA NextItemGetsOn ==
    ASSUME TypeOK, TodoIsClaimed, NEW r \in Runners, pc[r] # "idle", NextItem(r)
    PROVE  GetsOn(r)
<1>1. Current(r) \in todo[r]
    BY CurrentIsClaimed
<1>2. todo'[r] = todo[r] \ {Current(r)}
    BY DEF NextItem, TypeOK
<1> QED BY <1>1, <1>2 DEF GetsOn

LEMMA RunnerGetsOn ==
    ASSUME IInv, NEW r \in Runners, RunnerStep(r) \/ DatabaseError(r) \/ Crash(r)
    PROVE  GetsOn(r)
<1>0. TypeOK /\ TodoIsClaimed
    BY DEF IInv
<1>1. CASE Review(r) \/ OpenPr(r)
    <2>1. /\ pc[r] \in {"review", "open_pr"} /\ todo'[r] = todo[r]
          /\ erred[r] \in BOOLEAN
          /\ pc'[r] = "open_pr" => pc[r] = "review"
          /\ pc'[r] \in {"open_pr", "mark_succeeded", "mark_failed"}
          /\ erred'[r] = erred[r] \/ erred'[r] = TRUE
        BY <1>0, <1>1, BatchAssumption DEF Review, OpenPr, Errs, TypeOK
    <2>2. StageRank(pc[r]) < StageRank(pc'[r])
        BY <2>1 DEF StageRank
    <2>3. CASE erred'[r] = erred[r]
        BY <2>1, <2>2, <2>3 DEF GetsOn
    <2>4. CASE erred'[r] # erred[r]
        <3>a. erred'[r] = TRUE
            BY <2>1, <2>4
        <3>b. erred[r] = FALSE
            BY <2>1, <2>4, <3>a
        <3>1. ~erred[r] /\ erred'[r]
            BY <3>a, <3>b
        <3> QED BY <2>1, <3>1, Zenon DEF GetsOn
    <2> QED BY <2>3, <2>4
<1>3. CASE MarkSucceeded(r) \/ MarkFailed(r)
    BY <1>0, <1>3 DEF MarkSucceeded, MarkFailed, SetItem, TypeOK, GetsOn, StageRank
<1>4. CASE CountFailed(r)
    BY <1>0, <1>4 DEF CountFailed, TypeOK, GetsOn, StageRank
<1>5. CASE CountPending(r)
    <2>1. CASE NextItem(r)
        BY <1>0, <1>5, <2>1, NextItemGetsOn DEF CountPending
    <2>2. CASE pc' = [pc EXCEPT ![r] = "count_failed"] /\ UNCHANGED <<todo, erred>>
        BY <1>0, <1>5, <2>2 DEF CountPending, TypeOK, GetsOn, StageRank
    <2> QED BY <1>5, <2>1, <2>2 DEF CountPending
<1>6. CASE Label(r)
    BY <1>0, <1>6, NextItemGetsOn DEF Label
<1>7. CASE DatabaseError(r)
    <2>1. pc[r] # "idle"
        BY <1>7 DEF DatabaseError
    <2>2. CASE NextItem(r)
        BY <1>0, <2>1, <2>2, NextItemGetsOn
    <2>3. CASE ~erred[r] /\ Errs(r) /\ UNCHANGED todo
        BY <1>0, <2>3 DEF Errs, TypeOK, GetsOn
    <2> QED BY <1>7, <2>2, <2>3 DEF DatabaseError
<1>8. CASE Crash(r)
    <2>1. todo[r] # {} /\ todo'[r] = {}
        BY <1>0, <1>8 DEF Crash, TodoIsClaimed, TypeOK
    <2> QED BY <2>1 DEF GetsOn
<1> QED BY <1>1, <1>3, <1>4, <1>5, <1>6, <1>7, <1>8 DEF RunnerStep

LEMMA RunnersKeepItems ==
    ASSUME IInv, NEW r \in Runners, RunnerStep(r) \/ DatabaseError(r) \/ Crash(r)
    PROVE  ItemsStand
<1>0. TypeOK /\ TodoIsClaimed
    BY DEF IInv
<1>1. UNCHANGED creating
    BY DEF RunnerStep, Review, OpenPr, MarkSucceeded, MarkFailed, SetItem, CountPending,
       CountFailed, Label, DatabaseError, Crash
<1>2. CASE UNCHANGED item
    BY <1>1, <1>2, ItemRanks DEF ItemsStand
<1>3. CASE MarkSucceeded(r) \/ MarkFailed(r)
    <2>1. PICK state \in Settled : item' = [item EXCEPT ![Current(r)] = state]
        BY <1>3 DEF MarkSucceeded, MarkFailed, SetItem
    <2>2. \A i \in Items : item'[i] = item[i] \/ item'[i] \in Settled
        BY <1>0, <2>1 DEF TypeOK
    <2>3. \A i \in Items : ItemRank(item[i]) \in 0..3 /\ ItemRank(item'[i]) \in 0..3
        BY ItemRanks
    <2>4. \A s \in Settled : ItemRank(s) = 3
        BY DEF ItemRank
    <2>5. \A i \in Items : ItemRank(item[i]) <= ItemRank(item'[i])
        BY <2>2, <2>3, <2>4
    <2> QED BY <1>1, <2>5 DEF ItemsStand
<1> QED BY <1>2, <1>3 DEF RunnerStep, Review, OpenPr, CountPending, CountFailed, Label,
           DatabaseError, Crash

\* A batch is created, claimed and worked off in a bounded number of steps,
\* whatever fails and however many runs share it: what BatchSettles needs
\* besides fairness and a step to take.
THEOREM EveryStepAdvances == Spec => BatchAdvances
<1>1. ASSUME IInv, Next PROVE Advances
    <2>0. TypeOK
        BY <1>1 DEF IInv
    <2>1. ASSUME NEW i \in Items, InsertItem(i) PROVE Advances
        <3>1. item[i] = "absent" /\ item'[i] = "queued" /\ UNCHANGED creating
            BY <2>0, <2>1 DEF InsertItem, TypeOK
        <3>2. \A j \in Items \ {i} : item'[j] = item[j]
            BY <2>0, <2>1 DEF InsertItem, TypeOK
        <3>3. ItemRank(item[i]) < ItemRank(item'[i])
            BY <3>1 DEF ItemRank
        <3>4. \A j \in Items : ItemRank(item[j]) <= ItemRank(item'[j])
            BY <3>2, <3>3, ItemRanks
        <3> QED BY <3>1, <3>3, <3>4 DEF Advances, ItemsStand, ItemsAdvance
    <2>2. CASE EndCreate
        BY <2>2, ItemRanks DEF EndCreate, Advances, ItemsStand, ItemsAdvance
    <2>3. ASSUME NEW r \in Runners, NEW today \in Items, NEW limit \in 1..ItemCount,
                 Claim(r, today, limit)
          PROVE  Advances
        <3> DEFINE first == {i \in Due(today) : Cardinality({j \in Due(today) : j < i}) < limit}
        <3>1. first # {} /\ first \subseteq Items /\ UNCHANGED creating
            BY <2>3 DEF Claim, Due
        <3>2. \A i \in first : item[i] = "queued" /\ item'[i] = "running"
            BY <2>3 DEF Claim, Due
        <3>3. \A i \in Items \ first : item'[i] = item[i]
            BY <2>3 DEF Claim
        <3>4. \A i \in first : ItemRank(item[i]) = 1 /\ ItemRank(item'[i]) = 2
            BY <3>2 DEF ItemRank
        <3>5. ASSUME NEW i \in Items PROVE ItemRank(item[i]) <= ItemRank(item'[i])
            <4>1. CASE i \in first
                <5>1. ItemRank(item[i]) = 1 /\ ItemRank(item'[i]) = 2
                    BY <3>4, <4>1
                <5> QED BY ONLY <5>1
            <4>2. CASE i \notin first
                <5>1. item'[i] = item[i] /\ ItemRank(item[i]) \in 0..3
                    BY <3>3, <4>2, ItemRanks
                <5> QED BY ONLY <5>1
            <4> QED BY <4>1, <4>2
        <3>6. \E i \in Items : ItemRank(item[i]) < ItemRank(item'[i])
            <4>1. PICK i \in first : TRUE
                BY <3>1
            <4>2. ItemRank(item[i]) = 1 /\ ItemRank(item'[i]) = 2 /\ i \in Items
                BY <3>1, <3>4
            <4> HIDE DEF first
            <4> QED BY <4>2
        <3> QED BY <3>1, <3>5, <3>6 DEF Advances, ItemsStand, ItemsAdvance
    <2>4. ASSUME NEW r \in Runners, RunnerStep(r) \/ DatabaseError(r) \/ Crash(r) PROVE Advances
        <3>1. GetsOn(r) /\ \A s \in Runners \ {r} : Rests(s)
            BY <1>1, <2>0, <2>4, RunnerGetsOn, OthersRest
        <3> QED BY <1>1, <2>4, <3>1, RunnersKeepItems DEF Advances, RunnersAdvance
    <2> QED BY <1>1, <2>1, <2>2, <2>3, <2>4 DEF Next
<1> QED BY <1>1, Inductive, PTL DEF Spec, BatchAdvances
=============================================================================
