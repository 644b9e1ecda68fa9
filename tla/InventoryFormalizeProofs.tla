----------------------- MODULE InventoryFormalizeProofs -----------------------
(***************************************************************************)
(* What TLAPS proves of InventoryFormalize, for any claims, directories,   *)
(* texts, numbers of runs and crashes: targets are worked on with a        *)
(* checked library, what theorem_map.json calls proved is what lies on     *)
(* disk, and parallel targets keep the library as it was checked.  The     *)
(* argument follows a target from the check that accepts its text to the   *)
(* entry of the map, and keeps the entries of claims that no run is        *)
(* working on.  What it says of files it says of claims that are alone in  *)
(* their directory: the steps of the others do not write there.            *)
(***************************************************************************)
EXTENDS InventoryFormalize, TLAPS

\* The kernel accepts the file in the directory of the claim.
Accepted(c) ==
    LET f == file[Dir[c]] IN f.canon # "tainted" /\ Builds(f.canon, f.lib)

\* Only claims of the run have jobs.  Outside the targets phase they have not
\* begun, but for one that waits for the library, which is the only claim of
\* its run and, unless the judge sent it, did not build.
JobsBelongToRun ==
    /\ main = "idle" => goal = {}
    /\ ~many => \A c, d \in goal : c = d
    /\ \A c \in Claims :
        /\ job[c].stage # "none" => c \in goal
        /\ main # "targets" => job[c].stage \in {"none", "feedback"}
        /\ job[c].stage = "feedback" =>
              /\ ~many
              /\ main \in {"targets", "library_check", "library_fix",
                      "library_recheck"}
              /\ job[c].round # 3 => job[c].outcome = "none"
        /\ job[c].outcome = "proved" => job[c].stage = "done"

\* A text that waits for the judge after a passed check was accepted.
PassedIsAccepted ==
    \A c \in Claims :
        main = "targets" /\ job[c].stage = "judge" /\ job[c].outcome = "pass" /\ Alone(c)
            => Accepted(c)

ProvedJobsAreVerified ==
    \A c \in Claims : job[c].outcome = "proved" /\ Alone(c) => Verified(c)

\* Entries stay true until work on their claim begins.
EntriesHoldUntilWork ==
    \A c \in Claims \ stale :
        entry[c] = "proved" /\ Alone(c) /\ (c \in goal => main # "targets" /\ Waiting = {})
            => Verified(c)

\* The inductive invariant.
IInv ==
    /\ TypeOK
    /\ JobsBelongToRun
    /\ LibraryIsChecked
    /\ PassedIsAccepted
    /\ ProvedJobsAreVerified
    /\ EntriesHoldUntilWork

-----------------------------------------------------------------------------

USE ClaimsAssumption, TextsAssumption, DirAssumption
USE DEF Libraries, Checked, LibraryStages, NoJob

\* What an agent's text makes of a target's directory.
LEMMA FileWritten ==
    ASSUME NEW f \in Files, NEW t \in Texts \cup {"none"}, NEW l \in Libraries
    PROVE  [f EXCEPT !.canon = t, !.lib = l] \in Files
BY DEF Files

\* A job after its verdict is a job, and only a faithful verdict proves it.
LEMMA JudgedJob ==
    ASSUME NEW j \in Jobs, NEW v \in {"faithful", "doubted", "none"}, many \in
           BOOLEAN
    PROVE  Judged(j, v) \in Jobs
<1>1. CASE v = "faithful"
  <2>1. Judged(j, v) = [j EXCEPT !.stage = "done", !.outcome = "proved"]
    BY <1>1 DEF Judged
  <2> QED BY <2>1 DEF Jobs
<1>2. CASE v = "doubted" /\ ~many /\ j.round < 3
  <2>1. Judged(j, v) = [j EXCEPT !.stage = "feedback", !.round = 3]
    BY <1>2 DEF Judged
  <2>2. \A r \in 0..5 : [j EXCEPT !.stage = "feedback", !.round = r] \in Jobs
    BY DEF Jobs
  <2> QED BY <2>1, <2>2
<1>3. CASE v # "faithful" /\ ~(v = "doubted" /\ ~many /\ j.round < 3)
  <2>1. Judged(j, v) = [j EXCEPT !.stage = "done", !.outcome = j.outcome]
    BY <1>3 DEF Judged
  <2> QED BY <2>1 DEF Jobs
<1> QED BY <1>1, <1>2, <1>3

LEMMA JudgedOutcome ==
    ASSUME NEW j \in Jobs, NEW v \in {"doubted", "none"}, many \in BOOLEAN
    PROVE  Judged(j, v).outcome = j.outcome
BY DEF Judged, Jobs

LEMMA StartStep ==
    ASSUME IInv, Start
    PROVE  IInv'
<1> USE DEF IInv, Start
<1>1. TypeOK'
    <2>1. main' \in {"idle", "harness", "targets", "blocked"} \cup LibraryStages
        BY DEF TypeOK
    <2>2. goal' \subseteq Claims
        BY DEF TypeOK
    <2>3. many' \in BOOLEAN
        BY DEF TypeOK
    <2>4. runs' \in 0..RunBound
        BY DEF TypeOK
    <2> QED BY <2>1, <2>2, <2>3, <2>4 DEF TypeOK
<1>2. JobsBelongToRun'
    BY DEF TypeOK, JobsBelongToRun, Jobs
<1>3. LibraryIsChecked'
    BY DEF TypeOK, LibraryIsChecked, JobsBelongToRun, Jobs, Files
<1>4. PassedIsAccepted'
    BY DEF TypeOK, PassedIsAccepted, JobsBelongToRun, Accepted, Jobs, Files
<1>5. EntriesHoldUntilWork'
    BY DEF TypeOK, EntriesHoldUntilWork, JobsBelongToRun, Verified, Accepted,
            Waiting, Jobs, Files
<1> QED BY <1>1, <1>2, <1>3, <1>4, <1>5 DEF ProvedJobsAreVerified, Verified,
        Accepted

LEMMA HarnessStep ==
    ASSUME IInv, Harness
    PROVE  IInv'
<1> USE DEF IInv, Harness, GiveUp, Ends, Record, Blocked
<1>1. TypeOK'
    <2>1. entry' \in [Claims -> {"none", "open", "proved"}]
        BY DEF TypeOK
    <2>2. main' \in {"idle", "harness", "targets", "blocked"} \cup LibraryStages
        BY DEF TypeOK
    <2>3. goal' \subseteq Claims
        BY DEF TypeOK
    <2>4. many' \in BOOLEAN
        BY DEF TypeOK
    <2>5. job' \in [Claims -> Jobs]
        BY DEF TypeOK, Jobs
    <2>6. stale' \subseteq Claims
        BY DEF TypeOK
    <2> QED BY <2>1, <2>2, <2>3, <2>4, <2>5, <2>6 DEF TypeOK
<1>2. JobsBelongToRun'
    BY DEF TypeOK, JobsBelongToRun, Jobs
<1>3. LibraryIsChecked'
    BY DEF TypeOK, LibraryIsChecked, JobsBelongToRun, Jobs, Files
<1>4. PassedIsAccepted'
    BY DEF TypeOK, PassedIsAccepted, JobsBelongToRun, Accepted, Jobs, Files
<1>5. ProvedJobsAreVerified'
    BY DEF TypeOK, ProvedJobsAreVerified, JobsBelongToRun, Verified, Accepted,
            Jobs, Files
<1>6. EntriesHoldUntilWork'
    BY DEF TypeOK, EntriesHoldUntilWork, JobsBelongToRun, Verified, Accepted,
            Waiting, Jobs, Files
<1> QED BY <1>1, <1>2, <1>3, <1>4, <1>5, <1>6

LEMMA BlockedByLibraryStep ==
    ASSUME IInv, BlockedByLibrary
    PROVE  IInv'
<1> USE DEF IInv, BlockedByLibrary, GiveUp, Ends, Record, Blocked
<1>1. TypeOK'
    <2>1. entry' \in [Claims -> {"none", "open", "proved"}]
        BY DEF TypeOK
    <2>2. main' \in {"idle", "harness", "targets", "blocked"} \cup LibraryStages
        BY DEF TypeOK
    <2>3. goal' \subseteq Claims
        BY DEF TypeOK
    <2>4. many' \in BOOLEAN
        BY DEF TypeOK
    <2>5. job' \in [Claims -> Jobs]
        BY DEF TypeOK, Jobs
    <2>6. stale' \subseteq Claims
        BY DEF TypeOK
    <2> QED BY <2>1, <2>2, <2>3, <2>4, <2>5, <2>6 DEF TypeOK
<1>2. JobsBelongToRun'
    BY DEF TypeOK, JobsBelongToRun, Jobs
<1>3. LibraryIsChecked'
    BY DEF TypeOK, LibraryIsChecked, JobsBelongToRun, Jobs, Files
<1>4. PassedIsAccepted'
    BY DEF TypeOK, PassedIsAccepted, JobsBelongToRun, Accepted, Jobs, Files
<1>5. ProvedJobsAreVerified'
    BY DEF TypeOK, ProvedJobsAreVerified, JobsBelongToRun, Verified, Accepted,
            Jobs, Files
<1>6. EntriesHoldUntilWork'
    BY DEF TypeOK, EntriesHoldUntilWork, JobsBelongToRun, Verified, Accepted,
            Waiting, Jobs, Files
<1> QED BY <1>1, <1>2, <1>3, <1>4, <1>5, <1>6

LEMMA FinishStep ==
    ASSUME IInv, Finish
    PROVE  IInv'
<1> USE DEF IInv, Finish, Ends, Record, ClaimStatus
<1>1. TypeOK'
    <2>1. entry' \in [Claims -> {"none", "open", "proved"}]
        BY DEF TypeOK
    <2>2. main' \in {"idle", "harness", "targets", "blocked"} \cup LibraryStages
        BY DEF TypeOK
    <2>3. goal' \subseteq Claims
        BY DEF TypeOK
    <2>4. many' \in BOOLEAN
        BY DEF TypeOK
    <2>5. job' \in [Claims -> Jobs]
        BY DEF TypeOK, Jobs
    <2>6. stale' \subseteq Claims
        BY DEF TypeOK
    <2> QED BY <2>1, <2>2, <2>3, <2>4, <2>5, <2>6 DEF TypeOK
<1>2. JobsBelongToRun'
    BY DEF TypeOK, JobsBelongToRun, Jobs
<1>3. LibraryIsChecked'
    BY DEF TypeOK, LibraryIsChecked, JobsBelongToRun, Jobs, Files
<1>4. PassedIsAccepted'
    BY DEF TypeOK, PassedIsAccepted, JobsBelongToRun, Accepted, Jobs, Files
<1>5. ProvedJobsAreVerified'
    BY DEF TypeOK, ProvedJobsAreVerified, JobsBelongToRun, Verified, Accepted,
            Jobs, Files
<1>6. EntriesHoldUntilWork'
    BY DEF TypeOK, EntriesHoldUntilWork, JobsBelongToRun, Verified, Accepted,
            Waiting, Jobs, Files, ProvedJobsAreVerified
<1> QED BY <1>1, <1>2, <1>3, <1>4, <1>5, <1>6

LEMMA CrashStep ==
    ASSUME IInv, Crash
    PROVE  IInv'
<1> USE DEF IInv, Crash, Ends
<1>1. TypeOK'
    <2>1. main' \in {"idle", "harness", "targets", "blocked"} \cup LibraryStages
        BY DEF TypeOK
    <2>2. goal' \subseteq Claims
        BY DEF TypeOK
    <2>3. many' \in BOOLEAN
        BY DEF TypeOK
    <2>4. job' \in [Claims -> Jobs]
        BY DEF TypeOK, Jobs
    <2>5. stale' \subseteq Claims
        BY DEF TypeOK
    <2>6. crashes' \in 0..CrashBound
        BY DEF TypeOK
    <2> QED BY <2>1, <2>2, <2>3, <2>4, <2>5, <2>6 DEF TypeOK
<1>2. JobsBelongToRun'
    BY DEF TypeOK, JobsBelongToRun, Jobs
<1>3. LibraryIsChecked'
    BY DEF TypeOK, LibraryIsChecked, JobsBelongToRun, Jobs, Files
<1>4. PassedIsAccepted'
    BY DEF TypeOK, PassedIsAccepted, JobsBelongToRun, Accepted, Jobs, Files
<1>5. ProvedJobsAreVerified'
    BY DEF TypeOK, ProvedJobsAreVerified, JobsBelongToRun, Verified, Accepted,
            Jobs, Files
<1>6. EntriesHoldUntilWork'
    BY DEF TypeOK, EntriesHoldUntilWork, JobsBelongToRun, Verified, Accepted,
            Waiting, Jobs, Files
<1> QED BY <1>1, <1>2, <1>3, <1>4, <1>5, <1>6

LEMMA ReuseStep ==
    ASSUME IInv, Reuse
    PROVE  IInv'
<1> USE DEF IInv, Reuse, LibraryPassed
<1>1. TypeOK'
    BY DEF TypeOK, Jobs, Files, Waiting
<1>2. JobsBelongToRun'
    BY DEF TypeOK, JobsBelongToRun, Jobs, Waiting
<1>3. LibraryIsChecked'
    BY DEF TypeOK, LibraryIsChecked, JobsBelongToRun, Jobs, Files, Waiting
<1>4. PassedIsAccepted'
    BY DEF TypeOK, PassedIsAccepted, JobsBelongToRun, Accepted, Jobs, Files, Waiting
<1>5. ProvedJobsAreVerified'
    BY DEF TypeOK, ProvedJobsAreVerified, JobsBelongToRun, Verified, Accepted,
            Jobs, Files, Waiting
<1>6. EntriesHoldUntilWork'
    BY DEF TypeOK, EntriesHoldUntilWork, JobsBelongToRun, Verified, Accepted,
            Waiting, Jobs, Files
<1> QED BY <1>1, <1>2, <1>3, <1>4, <1>5, <1>6

LEMMA LibraryAuthorStep ==
    ASSUME IInv, LibraryAuthor
    PROVE  IInv'
<1> USE DEF IInv, LibraryAuthor, EditLibrary
<1>1. TypeOK'
    BY DEF TypeOK, Jobs, Files
<1>2. JobsBelongToRun'
    BY DEF TypeOK, JobsBelongToRun, Jobs
<1>3. LibraryIsChecked'
    BY DEF TypeOK, LibraryIsChecked, JobsBelongToRun, Jobs, Files
<1>4. PassedIsAccepted'
    BY DEF TypeOK, PassedIsAccepted, JobsBelongToRun, Accepted, Jobs, Files
<1>5. EntriesHoldUntilWork'
    BY DEF TypeOK, EntriesHoldUntilWork, JobsBelongToRun, Verified, Accepted,
            Waiting, Jobs, Files
<1> QED BY <1>1, <1>2, <1>3, <1>4, <1>5 DEF ProvedJobsAreVerified, Verified,
        Accepted

LEMMA LibraryCheckStep ==
    ASSUME IInv, LibraryCheck
    PROVE  IInv'
<1> USE DEF IInv, LibraryCheck, LibraryPassed, LibraryFailed
<1>1. TypeOK'
    <2>1. main' \in {"idle", "harness", "targets", "blocked"} \cup LibraryStages
        BY DEF TypeOK
    <2>2. job' \in [Claims -> Jobs]
        BY DEF TypeOK, Jobs
    <2> QED BY <2>1, <2>2 DEF TypeOK
<1>2. JobsBelongToRun'
    BY DEF TypeOK, JobsBelongToRun, Jobs, Waiting
<1>3. LibraryIsChecked'
    BY DEF TypeOK, LibraryIsChecked, JobsBelongToRun, Jobs, Files, Waiting
<1>4. PassedIsAccepted'
    BY DEF TypeOK, PassedIsAccepted, JobsBelongToRun, Accepted, Jobs, Files, Waiting
<1>5. ProvedJobsAreVerified'
    BY DEF TypeOK, ProvedJobsAreVerified, JobsBelongToRun, Verified, Accepted,
            Jobs, Files, Waiting
<1>6. EntriesHoldUntilWork'
    BY DEF TypeOK, EntriesHoldUntilWork, JobsBelongToRun, Verified, Accepted,
            Waiting, Jobs, Files
<1> QED BY <1>1, <1>2, <1>3, <1>4, <1>5, <1>6

LEMMA LibraryFixStep ==
    ASSUME IInv, LibraryFix
    PROVE  IInv'
<1> USE DEF IInv, LibraryFix, EditLibrary
<1>1. TypeOK'
    BY DEF TypeOK, Jobs, Files
<1>2. JobsBelongToRun'
    BY DEF TypeOK, JobsBelongToRun, Jobs
<1>3. LibraryIsChecked'
    BY DEF TypeOK, LibraryIsChecked, JobsBelongToRun, Jobs, Files
<1>4. PassedIsAccepted'
    BY DEF TypeOK, PassedIsAccepted, JobsBelongToRun, Accepted, Jobs, Files
<1>5. EntriesHoldUntilWork'
    BY DEF TypeOK, EntriesHoldUntilWork, JobsBelongToRun, Verified, Accepted,
            Waiting, Jobs, Files
<1> QED BY <1>1, <1>2, <1>3, <1>4, <1>5 DEF ProvedJobsAreVerified, Verified,
        Accepted

LEMMA LibraryRecheckStep ==
    ASSUME IInv, LibraryRecheck
    PROVE  IInv'
<1> USE DEF IInv, LibraryRecheck, LibraryPassed, LibraryFailed
<1>1. TypeOK'
    <2>1. main' \in {"idle", "harness", "targets", "blocked"} \cup LibraryStages
        BY DEF TypeOK
    <2>2. job' \in [Claims -> Jobs]
        BY DEF TypeOK, Jobs
    <2> QED BY <2>1, <2>2 DEF TypeOK
<1>2. JobsBelongToRun'
    BY DEF TypeOK, JobsBelongToRun, Jobs, Waiting
<1>3. LibraryIsChecked'
    BY DEF TypeOK, LibraryIsChecked, JobsBelongToRun, Jobs, Files, Waiting
<1>4. PassedIsAccepted'
    BY DEF TypeOK, PassedIsAccepted, JobsBelongToRun, Accepted, Jobs, Files, Waiting
<1>5. ProvedJobsAreVerified'
    BY DEF TypeOK, ProvedJobsAreVerified, JobsBelongToRun, Verified, Accepted,
            Jobs, Files, Waiting
<1>6. EntriesHoldUntilWork'
    BY DEF TypeOK, EntriesHoldUntilWork, JobsBelongToRun, Verified, Accepted,
            Waiting, Jobs, Files
<1> QED BY <1>1, <1>2, <1>3, <1>4, <1>5, <1>6

LEMMA LibraryFeedbackStep ==
    ASSUME IInv, LibraryFeedback
    PROVE  IInv'
<1> USE DEF IInv, LibraryFeedback
<1>1. TypeOK'
    BY DEF TypeOK, Jobs, Files, Waiting
<1>2. JobsBelongToRun'
    BY DEF TypeOK, JobsBelongToRun, Jobs, Waiting
<1>3. LibraryIsChecked'
    BY DEF TypeOK, LibraryIsChecked, JobsBelongToRun, Jobs, Files, Waiting
<1>4. PassedIsAccepted'
    BY DEF TypeOK, PassedIsAccepted, JobsBelongToRun, Accepted, Jobs, Files, Waiting
<1>5. EntriesHoldUntilWork'
    BY DEF TypeOK, EntriesHoldUntilWork, JobsBelongToRun, Verified, Accepted,
            Waiting, Jobs, Files
<1> QED BY <1>1, <1>2, <1>3, <1>4, <1>5 DEF ProvedJobsAreVerified, Verified,
        Accepted

\* A target's step writes into its own directory, which is no directory of a
\* claim that is alone in its own.
LEMMA OthersKeepTheirFiles ==
    ASSUME TypeOK, NEW c \in Claims, NEW f, file' = [file EXCEPT ![Dir[c]] = f]
    PROVE  /\ file'[Dir[c]] = f
           /\ \A d \in Claims \ {c} : Alone(d) => file'[Dir[d]] = file[Dir[d]]
<1>1. file'[Dir[c]] = f
    BY DEF TypeOK
<1>2. ASSUME NEW d \in Claims \ {c}, Alone(d) PROVE file'[Dir[d]] = file[Dir[d]]
    <2>1. Dir[d] # Dir[c] /\ Dir[d] \in Dirs
        BY <1>2 DEF Alone
    <2> QED BY <2>1 DEF TypeOK
<1> QED BY <1>1, <1>2

\* A claim that did not take the step keeps what the invariant says of it.
LEMMA OthersKeepTheirFacts ==
    ASSUME IInv, NEW c \in Claims, NEW d \in Claims \ {c}, main = "targets",
           job'[d] = job[d], Alone(d) => file'[Dir[d]] = file[Dir[d]],
           UNCHANGED <<library, entry, main, goal, many, stale>>
    PROVE  /\ job'[d].stage \in {"author", "check", "fix"} => library' \in Checked
           /\ job'[d].stage = "judge" /\ job'[d].outcome = "pass" =>
                 /\ library' \in Checked
                 /\ Alone(d) => LET f == file'[Dir[d]] IN f.lib = library' /\ f.checked = f.canon
                 /\ Alone(d) => Accepted(d)'
           /\ job'[d].outcome = "proved" /\ Alone(d) => Verified(d)'
           /\ d \notin stale' /\ entry'[d] = "proved" /\ Alone(d) /\ d \notin goal'
                => Verified(d)'
<1>1. /\ Alone(d) /\ Accepted(d) => Accepted(d)'
      /\ Alone(d) /\ Verified(d) => Verified(d)'
    BY DEF Accepted, Verified, Builds
<1>2. LibraryIsChecked /\ PassedIsAccepted /\ ProvedJobsAreVerified /\ EntriesHoldUntilWork
    BY DEF IInv
<1>3. /\ job[d].stage \in {"author", "check", "fix"} => library \in Checked
      /\ job[d].stage = "judge" /\ job[d].outcome = "pass" =>
            /\ library \in Checked
            /\ Alone(d) => LET f == file[Dir[d]] IN f.lib = library /\ f.checked = f.canon
            /\ Alone(d) => Accepted(d)
    BY <1>2 DEF LibraryIsChecked, PassedIsAccepted
<1>4. /\ job[d].outcome = "proved" /\ Alone(d) => Verified(d)
      /\ d \notin stale /\ entry[d] = "proved" /\ Alone(d) /\ d \notin goal => Verified(d)
    BY <1>2 DEF ProvedJobsAreVerified, EntriesHoldUntilWork
<1> QED BY <1>1, <1>3, <1>4

\* A step of one target keeps the invariant if it keeps the types and the
\* bookkeeping of the run, and what it leaves of the target is as it should be.
LEMMA TargetStep ==
    ASSUME IInv, NEW c \in Claims, main = "targets", c \in goal,
           NEW f \in Files, file' = [file EXCEPT ![Dir[c]] = f],
           NEW j \in Jobs, job' = [job EXCEPT ![c] = j],
           UNCHANGED <<library, reusable, entry, main, goal, many, stale, runs, crashes>>,
           j.stage # "none", j.stage = "feedback" => ~many,
           j.stage = "feedback" /\ j.round # 3 => j.outcome = "none",
           j.outcome = "proved" => j.stage = "done",
           j.stage \in {"check", "fix", "author"} => library \in Checked,
           j.stage = "judge" /\ j.outcome = "pass" =>
                /\ library \in Checked
                /\ Alone(c) => /\ f.lib = library /\ f.checked = f.canon
                               /\ f.canon # "tainted" /\ Builds(f.canon, f.lib),
           j.outcome = "proved" /\ Alone(c) =>
                f.canon # "tainted" /\ Builds(f.canon, f.lib) /\ f.judged = f.canon
    PROVE  IInv'
<1>1. TypeOK'
    BY DEF IInv, TypeOK
<1>2. job'[c] = j /\ \A d \in Claims \ {c} : job'[d] = job[d]
    BY DEF IInv, TypeOK
<1>3. /\ file'[Dir[c]] = f
      /\ \A d \in Claims \ {c} : Alone(d) => file'[Dir[d]] = file[Dir[d]]
    BY OthersKeepTheirFiles DEF IInv
<1>4. JobsBelongToRun'
    <2>1. JobsBelongToRun
        BY DEF IInv
    <2> QED BY <1>2, <2>1 DEF JobsBelongToRun
<1>5. Alone(c) => (Accepted(c)' <=> f.canon # "tainted" /\ Builds(f.canon, f.lib))
    BY <1>3 DEF Accepted, Builds
<1>6. LibraryIsChecked' /\ PassedIsAccepted'
    <2> SUFFICES ASSUME NEW d \in Claims
                 PROVE  /\ job'[d].stage \in {"author", "check", "fix"} => library' \in Checked
                        /\ job'[d].stage = "judge" /\ job'[d].outcome = "pass" =>
                             /\ library' \in Checked
                             /\ Alone(d) => LET g == file'[Dir[d]] IN
                                              g.lib = library' /\ g.checked = g.canon
                             /\ Alone(d) => Accepted(d)'
        BY DEF LibraryIsChecked, PassedIsAccepted
    <2>1. CASE d = c
        BY <1>2, <1>3, <1>5, <2>1
    <2>2. CASE d # c
        BY <1>2, <1>3, <2>2, OthersKeepTheirFacts
    <2> QED BY <2>1, <2>2
<1>7. ProvedJobsAreVerified'
    <2> SUFFICES ASSUME NEW d \in Claims, job'[d].outcome = "proved", Alone(d)
                 PROVE  Verified(d)'
        BY DEF ProvedJobsAreVerified
    <2>1. CASE d = c
        BY <1>2, <1>3, <2>1 DEF Verified, Builds
    <2>2. CASE d # c
        BY <1>2, <1>3, <2>2, OthersKeepTheirFacts
    <2> QED BY <2>1, <2>2
<1>8. EntriesHoldUntilWork'
    <2> SUFFICES ASSUME NEW d \in Claims \ stale', entry'[d] = "proved", Alone(d),
                        d \notin goal'
                 PROVE  Verified(d)'
        BY DEF EntriesHoldUntilWork
    <2>1. d # c
        OBVIOUS
    <2> QED BY <1>2, <1>3, <2>1, OthersKeepTheirFacts
<1> QED BY <1>1, <1>4, <1>6, <1>7, <1>8 DEF IInv

LEMMA WriteStep ==
    ASSUME IInv, NEW c \in Claims, TargetAuthor(c) \/ TargetFix(c)
    PROVE  IInv'
<1>1. /\ main = "targets" /\ job[c].stage \in {"author", "fix"} /\ Write(c)
      /\ UNCHANGED <<library, reusable, entry, main, goal, many, stale, runs, crashes>>
    BY DEF TargetAuthor, TargetFix
<1>2. TypeOK /\ c \in goal /\ library \in Checked /\ file[Dir[c]] \in Files
    BY <1>1 DEF IInv, JobsBelongToRun, LibraryIsChecked, TypeOK
<1> DEFINE j == [stage |-> "check", round |-> job[c].round, outcome |-> "none"]
<1>3. j \in Jobs /\ job' = [job EXCEPT ![c] = j]
    BY <1>1, <1>2 DEF Write, TypeOK, Jobs
<1>4. PICK f \in Files : file' = [file EXCEPT ![Dir[c]] = f]
    <2>1. PICK text \in Texts \cup {"none"} :
              file' = IF text = "none" THEN file
                      ELSE [file EXCEPT ![Dir[c]].canon = text, ![Dir[c]].lib = library]
        BY <1>1 DEF Write
    <2> DEFINE g == [file[Dir[c]] EXCEPT !.canon = text, !.lib = library]
    <2>2. g \in Files
        BY <1>2, FileWritten DEF TypeOK
    <2>3. CASE text = "none"
        <3>1. file' = [file EXCEPT ![Dir[c]] = file[Dir[c]]]
            BY <1>2, <2>1, <2>3 DEF TypeOK
        <3> QED BY <1>2, <3>1
    <2>4. CASE text # "none"
        <3>1. file' = [file EXCEPT ![Dir[c]] = g]
            BY <2>1, <2>4
        <3> QED BY <2>2, <3>1
    <2> QED BY <2>3, <2>4
<1>5. j.stage = "check" /\ j.outcome = "none"
    OBVIOUS
<1> HIDE DEF j
<1> QED BY <1>1, <1>2, <1>3, <1>4, <1>5, TargetStep

LEMMA LeanCheckStep ==
    ASSUME IInv, NEW c \in Claims, LeanCheck(c)
    PROVE  IInv'
<1>1. /\ main = "targets" /\ job[c].stage = "check"
      /\ UNCHANGED <<library, reusable, entry, main, goal, many, stale, runs, crashes>>
    BY DEF LeanCheck
<1>2. /\ TypeOK /\ c \in goal /\ library \in Checked /\ file[Dir[c]] \in Files
      /\ job[c] \in Jobs /\ job[c].round \in 0..5 /\ library \in Libraries
    BY <1>1 DEF IInv, JobsBelongToRun, LibraryIsChecked, TypeOK, Jobs
<1>3. PICK f \in Files, status \in {"environment_error", "lean_compile_error", "pass", "rejected"} :
          /\ file' = [file EXCEPT ![Dir[c]] = f] /\ Checks(c, status)
          /\ status = "pass" /\ Alone(c) =>
                /\ f.lib = library /\ f.checked = f.canon
                /\ f.canon # "tainted" /\ Builds(f.canon, f.lib)
    <2>1. CASE Checks(c, "environment_error") /\ UNCHANGED file
        <3>1. file' = [file EXCEPT ![Dir[c]] = file[Dir[c]]]
            BY <1>2, <2>1 DEF TypeOK
        <3> QED BY <1>2, <2>1, <3>1
    <2>2. CASE \E code \in Code(c) \ {"none"} :
                /\ file' = [file EXCEPT ![Dir[c]] =
                              [@ EXCEPT !.canon = code, !.checked = code, !.lib = library]]
                /\ \E status \in CheckResults(c, code) : Checks(c, status)
        <3>1. PICK code \in Code(c) \ {"none"} :
                /\ file' = [file EXCEPT ![Dir[c]] =
                              [@ EXCEPT !.canon = code, !.checked = code, !.lib = library]]
                /\ \E status \in CheckResults(c, code) : Checks(c, status)
            BY <2>2
        <3>6. PICK status \in CheckResults(c, code) : Checks(c, status)
            BY <3>1
        <3> DEFINE g == [file[Dir[c]] EXCEPT !.canon = code, !.checked = code, !.lib = library]
        <3>2. code \in Texts
            BY <1>2, <3>1 DEF Code, Files
        <3>3. g \in Files /\ g.canon = code /\ g.checked = code /\ g.lib = library
            BY <1>2, <3>2 DEF Files
        <3>4. /\ status \in {"environment_error", "lean_compile_error", "pass", "rejected"}
              /\ status = "pass" /\ Alone(c) => code # "tainted" /\ Builds(code, library)
            <4>1. CASE Alone(c)
                <5>1. status \in {"environment_error", "lean_compile_error", Kernel(code, library)}
                    BY <3>6, <4>1 DEF CheckResults
                <5>2. /\ Kernel(code, library) \in {"rejected", "pass", "lean_compile_error"}
                      /\ Kernel(code, library) = "pass" => code # "tainted" /\ Builds(code, library)
                    BY DEF Kernel, Builds
                <5> QED BY <5>1, <5>2
            <4>2. CASE ~Alone(c)
                BY <3>6, <4>2 DEF CheckResults
            <4> QED BY <4>1, <4>2
        <3>5. file' = [file EXCEPT ![Dir[c]] = g]
            BY <3>1
        <3> QED BY <3>6, <3>3, <3>4, <3>5
    <2> QED BY <2>1, <2>2 DEF LeanCheck
<1> DEFINE next == AfterCheck(c, status)
           j == [stage |-> next.stage, round |-> next.round,
                 outcome |-> IF status = "pass" THEN "pass" ELSE "none"]
<1>4. job' = [job EXCEPT ![c] = j]
    BY <1>3 DEF Checks
<1>5. /\ next.stage \in {"fix", "feedback", "judge"} /\ next.round \in 0..5
      /\ next.stage = "feedback" => ~many /\ status # "pass"
    BY <1>2 DEF AfterCheck
<1>6. /\ j \in Jobs /\ j.stage \in {"fix", "feedback", "judge"}
      /\ j.stage = "feedback" => ~many /\ j.outcome = "none"
      /\ j.outcome # "proved" /\ (j.outcome = "pass" => status = "pass")
    BY <1>5 DEF Jobs
<1> HIDE DEF j
<1> QED BY <1>1, <1>2, <1>3, <1>4, <1>6, TargetStep

LEMMA FaithfulnessStep ==
    ASSUME IInv, NEW c \in Claims, Faithfulness(c)
    PROVE  IInv'
<1>1. /\ main = "targets" /\ job[c].stage = "judge"
      /\ UNCHANGED <<library, reusable, entry, main, goal, many, stale, runs, crashes>>
    BY DEF Faithfulness
<1>2. /\ TypeOK /\ c \in goal /\ file[Dir[c]] \in Files /\ many \in BOOLEAN
      /\ job[c] \in Jobs /\ job[c].outcome # "proved"
    BY <1>1 DEF IInv, JobsBelongToRun, TypeOK
<1>3. PICK v \in {"faithful", "doubted", "none"}, text \in Texts \cup {"none"} :
          /\ v # "none" => job[c].outcome = "pass"
          /\ v = "faithful" => text \in Shown(c)
          /\ file' = [file EXCEPT ![Dir[c]].judged = text]
          /\ job' = [job EXCEPT ![c] = Judged(job[c], v)]
    <2>1. Shown(c) \subseteq Texts \cup {"none"}
        BY <1>2 DEF Shown, Files
    <2> QED BY <2>1 DEF Faithfulness
<1> DEFINE f == [file[Dir[c]] EXCEPT !.judged = text]
           j == Judged(job[c], v)
<1>4. /\ f \in Files /\ f.judged = text
      /\ f.canon = file[Dir[c]].canon /\ f.lib = file[Dir[c]].lib
    BY <1>2 DEF Files
<1>5. file' = [file EXCEPT ![Dir[c]] = f]
    BY <1>3
<1>6. j \in Jobs
    BY <1>2, JudgedJob
<1>7. /\ j.stage \in {"feedback", "done"}
      /\ j.stage = "feedback" => ~many /\ j.round = 3
      /\ j.outcome = "proved" => j.stage = "done"
    BY <1>2 DEF Judged, Jobs
<1>8. j.outcome = "proved" => v = "faithful"
    <2>1. v # "faithful" => v \in {"doubted", "none"}
        OBVIOUS
    <2> QED BY <1>2, <2>1, JudgedOutcome
<1>9. j.outcome = "proved" /\ Alone(c) =>
          f.canon # "tainted" /\ Builds(f.canon, f.lib) /\ f.judged = f.canon
    <2> SUFFICES ASSUME j.outcome = "proved", Alone(c)
                 PROVE  f.canon # "tainted" /\ Builds(f.canon, f.lib) /\ f.judged = f.canon
        OBVIOUS
    <2>1. job[c].outcome = "pass" /\ text \in Shown(c)
        BY <1>3, <1>8
    <2>2. text = file[Dir[c]].checked
        BY <2>1 DEF Shown
    <2>3. Accepted(c) /\ file[Dir[c]].checked = file[Dir[c]].canon
        BY <1>1, <2>1 DEF IInv, PassedIsAccepted, LibraryIsChecked
    <2> QED BY <1>4, <2>2, <2>3 DEF Accepted
<1> HIDE DEF f, j
<1>10. job' = [job EXCEPT ![c] = j]
    BY <1>3 DEF j
<1> QED BY <1>1, <1>2, <1>4, <1>5, <1>6, <1>7, <1>9, <1>10, TargetStep

LEMMA TargetErrorStep ==
    ASSUME IInv, NEW c \in Claims, TargetError(c)
    PROVE  IInv'
<1> USE DEF IInv, TargetError
<1>1. TypeOK'
    BY DEF TypeOK, Jobs, Files
<1>2. JobsBelongToRun'
    BY DEF TypeOK, JobsBelongToRun, Jobs
<1>3. LibraryIsChecked'
    BY DEF TypeOK, LibraryIsChecked, JobsBelongToRun, Jobs, Files
<1>4. PassedIsAccepted'
    BY DEF TypeOK, PassedIsAccepted, JobsBelongToRun, Accepted, Jobs, Files
<1>5. ProvedJobsAreVerified'
    BY DEF TypeOK, ProvedJobsAreVerified, JobsBelongToRun, Verified, Accepted,
            Jobs, Files
<1>6. EntriesHoldUntilWork'
    BY DEF TypeOK, EntriesHoldUntilWork, JobsBelongToRun, Verified, Accepted,
            Waiting, Jobs, Files
<1> QED BY <1>1, <1>2, <1>3, <1>4, <1>5, <1>6

-----------------------------------------------------------------------------

LEMMA InitInv == Init => IInv
<1> SUFFICES ASSUME Init PROVE IInv
  OBVIOUS
<1> USE DEF Init
<1>1. TypeOK
  <2>1. NoFile \in Files
    BY DEF NoFile, Files
  <2>2. NoJob \in Jobs
    BY DEF Jobs
  <2>3. file \in [Dirs -> Files] /\ job \in [Claims -> Jobs]
    BY <2>1, <2>2
  <2>4. 0 \in 0..RunBound /\ 0 \in 0..CrashBound
    OBVIOUS
  <2> QED BY <2>3, <2>4 DEF TypeOK
<1>2. JobsBelongToRun /\ LibraryIsChecked /\ PassedIsAccepted /\
        ProvedJobsAreVerified
  BY DEF JobsBelongToRun, LibraryIsChecked, PassedIsAccepted, ProvedJobsAreVerified
<1>3. EntriesHoldUntilWork
  BY DEF EntriesHoldUntilWork
<1> QED BY <1>1, <1>2, <1>3 DEF IInv

LEMMA UnchangedStep == IInv /\ UNCHANGED vars => IInv'
BY DEF vars, IInv, TypeOK, JobsBelongToRun, LibraryIsChecked, PassedIsAccepted,
       ProvedJobsAreVerified, EntriesHoldUntilWork, Waiting, Verified, Accepted,
               Builds

LEMMA NextStep == IInv /\ [Next]_vars => IInv'
<1> SUFFICES ASSUME IInv, [Next]_vars PROVE IInv'
  OBVIOUS
<1>1. CASE Step
  BY <1>1, HarnessStep, ReuseStep, LibraryAuthorStep, LibraryCheckStep,
          LibraryFixStep,
     LibraryRecheckStep, LibraryFeedbackStep, BlockedByLibraryStep, FinishStep,
     WriteStep, LeanCheckStep, FaithfulnessStep DEF Step
<1>2. CASE Start \/ Crash \/ \E c \in Claims : TargetError(c)
  BY <1>2, StartStep, CrashStep, TargetErrorStep
<1>3. CASE UNCHANGED vars
  BY <1>3, UnchangedStep
<1> QED BY <1>1, <1>2, <1>3 DEF Next

\* The invariant holds in every state.
THEOREM Inductive == Spec => []IInv
<1>1. Init => IInv
  BY InitInv
<1>2. IInv /\ [Next]_vars => IInv'
  BY NextStep
<1> QED BY <1>1, <1>2, PTL DEF Spec

\* Every variable keeps its type; in particular no target goes past the fifth
\* round of its repairs.
THEOREM TypeCorrect == Spec => []TypeOK
<1>1. IInv => TypeOK
  BY DEF IInv
<1> QED BY <1>1, Inductive, PTL

\* Agents work on targets beside a library that lake built, and the judge sees
\* the text that was built on it, if its directory is its claim's own.
THEOREM TargetsHaveCheckedLibrary == Spec => []LibraryIsChecked
<1>1. IInv => LibraryIsChecked
  BY DEF IInv
<1> QED BY <1>1, Inductive, PTL

\* What theorem_map.json calls proved is accepted by the kernel and the judge
\* as it lies on disk, whatever was retried, failed or was left behind, for
\* every claim whose directory no other claim's label leads to.
THEOREM MapIsTrue == Spec => []ProvedIsVerified
<1>1. IInv => ProvedIsVerified
  BY DEF IInv, EntriesHoldUntilWork, ProvedIsVerified, Verified, Accepted
<1> QED BY <1>1, Inductive, PTL

\* Targets that are worked on in parallel keep the library they started with:
\* only a single target may send it back to its author.
THEOREM ParallelTargetsKeepLibrary == Spec => LibraryKeptForTargets
<1> DEFINE Begun == \E c \in Claims : job[c].stage \in {"check", "fix",
        "feedback", "judge", "done"}
<1>1. IInv /\ [Next]_vars => [many /\ Begun => library' = library]_vars
  <2> SUFFICES ASSUME IInv, [Next]_vars, many, Begun, library' # library
               PROVE  FALSE
    OBVIOUS
  <2>1. LibraryAuthor \/ LibraryFix \/ LibraryFeedback
    BY DEF Next, Step, Start, Harness, Reuse, LibraryCheck, LibraryRecheck,
            BlockedByLibrary,
           Finish, Crash, TargetAuthor, LeanCheck, TargetFix, Faithfulness,
                   TargetError, vars
  <2>2. \E c \in Claims : job[c].stage = "feedback"
    BY <2>1 DEF IInv, JobsBelongToRun, LibraryAuthor, LibraryFix,
            LibraryFeedback, Waiting
  <2> QED BY <2>2 DEF IInv, JobsBelongToRun
<1> QED BY <1>1, Inductive, PTL DEF Spec, LibraryKeptForTargets

(***************************************************************************)
(* A run goes on only by getting further.  The rank of a target's job grows *)
(* with its rounds and, within a round, with its stages; a job that is done *)
(* ranks highest.  A step that leaves all jobs where they are takes the run *)
(* to a later stage of its work on the library, which a target that waits   *)
(* for the library sends back, at the price of a round of its own.          *)
(***************************************************************************)
StageRank(stage) ==
    CASE stage = "author"   -> 1
      [] stage = "feedback" -> 2
      [] stage = "fix"      -> 3
      [] stage = "check"    -> 4
      [] stage = "judge"    -> 5
      [] OTHER              -> 0

JobRank(j) ==
    CASE j.stage = "none" -> 0
      [] j.stage = "done" -> 48
      [] OTHER            -> 8 * j.round + StageRank(j.stage)

MainRank ==
    CASE main = "idle"                      -> 0
      [] main = "harness"                   -> 1
      [] main = "reuse"                     -> 2
      [] main = "targets" /\ Waiting # {}   -> 3
      [] main = "library_author"            -> 3
      [] main = "library_check"             -> 4
      [] main = "library_fix"               -> 5
      [] main = "library_recheck"           -> 6
      [] OTHER                              -> 7

RanksAreBounded == MainRank \in 0..7 /\ \A c \in Claims : JobRank(job[c]) \in 0..48

NoJobFallsBack == \A c \in Claims : JobRank(job[c]) <= JobRank(job'[c])
SomeJobAdvances == \E c \in Claims : JobRank(job[c]) < JobRank(job'[c])

\* Every step of a run that does not end it advances a job, or else the run
\* itself, and takes no job back.
RunAdvances == NoJobFallsBack /\ (SomeJobAdvances \/ MainRank < MainRank')
RunsAdvance == [][main # "idle" /\ main' # "idle" => RunAdvances]_vars

LEMMA JobRankIsBounded == \A j \in Jobs : JobRank(j) \in 0..48
<1> SUFFICES ASSUME NEW j \in Jobs PROVE JobRank(j) \in 0..48
    OBVIOUS
<1>1. StageRank(j.stage) \in 0..5
    BY DEF StageRank
<1>2. j.round \in 0..5
    BY DEF Jobs
<1> QED BY <1>1, <1>2 DEF JobRank

\* A job that is not touched keeps its rank, and one that is moves up.
LEMMA OneJobAdvances ==
    ASSUME TypeOK, NEW c \in Claims, NEW j \in Jobs, job' = [job EXCEPT ![c] = j],
           JobRank(job[c]) < JobRank(j)
    PROVE  RunAdvances
<1>1. job'[c] = j /\ \A d \in Claims \ {c} : job'[d] = job[d]
    BY DEF TypeOK
<1>2. \A d \in Claims : JobRank(job[d]) \in 0..48
    BY JobRankIsBounded DEF TypeOK
<1>3. SomeJobAdvances
    BY <1>1 DEF SomeJobAdvances
<1>4. NoJobFallsBack
    BY <1>1, <1>2, JobRankIsBounded DEF NoJobFallsBack
<1> QED BY <1>3, <1>4 DEF RunAdvances

LEMMA MainAdvances ==
    ASSUME TypeOK, UNCHANGED job, MainRank < MainRank'
    PROVE  RunAdvances
<1>1. \A c \in Claims : JobRank(job[c]) \in 0..48
    BY JobRankIsBounded DEF TypeOK
<1> QED BY <1>1 DEF RunAdvances, NoJobFallsBack

\* A library that passed starts the work on the targets, or ends the wait of
\* the one that asked for it.
LEMMA PassedAdvances ==
    ASSUME IInv, LibraryPassed, main \in LibraryStages
    PROVE  RunAdvances
<1>1. TypeOK /\ \A c \in Claims : job[c].stage \in {"none", "feedback"}
    BY DEF IInv, JobsBelongToRun
<1>2. \A c \in Claims : job[c] \in Jobs /\ job[c].round \in 0..5
    BY <1>1 DEF TypeOK, Jobs
<1>3. main' = "targets"
    BY DEF LibraryPassed
<1>4. CASE Waiting = {}
    <2>1. \A c \in Claims : job[c].stage = "none" /\ JobRank(job[c]) = 0
        BY <1>1, <1>4 DEF Waiting, JobRank
    <2>2. \A c \in Claims :
              job'[c].stage = (IF c \in goal THEN "author" ELSE "none")
              /\ job'[c].round = 0
        BY <1>4 DEF LibraryPassed
    <2>3. \A c \in Claims : JobRank(job'[c]) = IF c \in goal THEN 1 ELSE 0
        BY <2>2 DEF JobRank, StageRank
    <2>4. Waiting' = {}
        BY <2>2 DEF Waiting
    <2>5. MainRank < 7 /\ MainRank' = 7
        BY <1>3, <1>4, <2>4 DEF MainRank
    <2>6. MainRank < MainRank'
        BY <2>5
    <2> QED BY <2>1, <2>3, <2>6 DEF RunAdvances, NoJobFallsBack
<1>5. CASE Waiting # {}
    <2>1. \A c \in Claims \ Waiting : job'[c] = job[c]
        BY <1>5 DEF LibraryPassed
    <2>2. \A c \in Waiting : /\ job'[c].stage = "fix" /\ job'[c].round = job[c].round
                             /\ job[c].stage = "feedback"
        BY <1>2, <1>5 DEF LibraryPassed, Waiting, Jobs
    <2>3. \A c \in Waiting : /\ JobRank(job[c]) = 8 * job[c].round + 2
                             /\ JobRank(job'[c]) = 8 * job[c].round + 3
        BY <2>2 DEF JobRank, StageRank
    <2>4. \A c \in Waiting : JobRank(job[c]) < JobRank(job'[c])
        BY <1>2, <2>3 DEF Waiting
    <2>5. \A c \in Claims : JobRank(job[c]) \in 0..48
        BY <1>2, JobRankIsBounded
    <2>6. NoJobFallsBack
        <3> SUFFICES ASSUME NEW c \in Claims PROVE JobRank(job[c]) <= JobRank(job'[c])
            BY DEF NoJobFallsBack
        <3>1. CASE c \in Waiting
            <4>1. JobRank(job'[c]) = 8 * job[c].round + 3 /\ job[c].round \in 0..5
                BY <1>2, <2>3, <3>1
            <4> QED BY <2>3, <3>1, <4>1
        <3>2. CASE c \notin Waiting
            BY <2>1, <2>5, <3>2
        <3> QED BY <3>1, <3>2
    <2>7. SomeJobAdvances
        BY <1>5, <2>4 DEF SomeJobAdvances, Waiting
    <2> QED BY <2>6, <2>7 DEF RunAdvances
<1> QED BY <1>4, <1>5

\* One that failed blocks the run, or ends the wait as well.
LEMMA FailedAdvances ==
    ASSUME IInv, LibraryFailed, main \in LibraryStages
    PROVE  RunAdvances
<1>1. TypeOK
    BY DEF IInv
<1>2. \A c \in Claims : job[c] \in Jobs /\ job[c].round \in 0..5
    BY <1>1 DEF TypeOK, Jobs
<1>3. CASE Waiting = {}
    <2>1. main' = "blocked" /\ UNCHANGED job
        BY <1>3 DEF LibraryFailed
    <2>2. MainRank < 7 /\ MainRank' = 7
        BY <1>3, <2>1 DEF MainRank
    <2>3. MainRank < MainRank'
        BY <2>2
    <2> QED BY <1>1, <2>1, <2>3, MainAdvances
<1>4. CASE Waiting # {}
    <2>1. \A c \in Claims \ Waiting : job'[c] = job[c]
        BY <1>4 DEF LibraryFailed
    <2>2. \A c \in Waiting : /\ job'[c].stage \in {"done", "judge"}
                             /\ job'[c].round = job[c].round
                             /\ job[c].stage = "feedback"
        BY <1>2, <1>4 DEF LibraryFailed, Waiting, Jobs
    <2>3. \A c \in Waiting : /\ JobRank(job[c]) = 8 * job[c].round + 2
                             /\ JobRank(job'[c]) \in {48, 8 * job[c].round + 5}
        BY <2>2 DEF JobRank, StageRank
    <2>4. \A c \in Waiting : JobRank(job[c]) < JobRank(job'[c])
        <3> SUFFICES ASSUME NEW c \in Waiting PROVE JobRank(job[c]) < JobRank(job'[c])
            OBVIOUS
        <3>1. job[c].round \in 0..5
            BY <1>2 DEF Waiting
        <3> QED BY <2>3, <3>1
    <2>5. \A c \in Claims : JobRank(job[c]) \in 0..48
        BY <1>2, JobRankIsBounded
    <2>6. NoJobFallsBack
        <3> SUFFICES ASSUME NEW c \in Claims PROVE JobRank(job[c]) <= JobRank(job'[c])
            BY DEF NoJobFallsBack
        <3>1. CASE c \in Waiting
            <4>1. JobRank(job'[c]) \in {48, 8 * job[c].round + 5} /\ job[c].round \in 0..5
                BY <1>2, <2>3, <3>1
            <4> QED BY <2>3, <3>1, <4>1
        <3>2. CASE c \notin Waiting
            BY <2>1, <2>5, <3>2
        <3> QED BY <3>1, <3>2
    <2>7. SomeJobAdvances
        BY <1>4, <2>4 DEF SomeJobAdvances, Waiting
    <2> QED BY <2>6, <2>7 DEF RunAdvances
<1> QED BY <1>3, <1>4

\* Stages of the library that are not about its result.
LEMMA LibraryAdvances ==
    ASSUME IInv, main' # "idle",
           \/ Harness \/ Reuse \/ LibraryAuthor \/ LibraryCheck \/ LibraryFix
           \/ LibraryRecheck \/ LibraryFeedback
    PROVE  RunAdvances
<1>1. TypeOK
    BY DEF IInv
<1>2. CASE \/ Harness \/ LibraryAuthor \/ LibraryFix \/ LibraryFeedback
           \/ Reuse /\ main' = "library_author" /\ UNCHANGED job
           \/ LibraryCheck /\ main' = "library_fix" /\ UNCHANGED job
    <2>1. UNCHANGED job
        BY <1>2 DEF Harness, LibraryAuthor, LibraryFix, LibraryFeedback, GiveUp, Ends
    <2>2. \/ main = "harness" /\ main' \in {"reuse", "library_author"}
          \/ main = "library_author" /\ main' = "library_check"
          \/ main = "library_fix" /\ main' = "library_recheck"
          \/ main = "targets" /\ Waiting # {} /\ main' = "library_check"
          \/ main = "reuse" /\ main' = "library_author"
          \/ main = "library_check" /\ main' = "library_fix"
        BY <1>2 DEF Harness, LibraryAuthor, LibraryFix, LibraryFeedback, Reuse, LibraryCheck,
           GiveUp, Ends
    <2>3. MainRank < MainRank'
        BY <2>2 DEF MainRank
    <2> QED BY <1>1, <2>1, <2>3, MainAdvances
<1>3. CASE LibraryPassed /\ main \in LibraryStages
    BY <1>3, PassedAdvances
<1>4. CASE LibraryFailed /\ main \in LibraryStages
    BY <1>4, FailedAdvances
<1> QED BY <1>2, <1>3, <1>4 DEF Reuse, LibraryCheck, LibraryRecheck

\* A target's own steps take its job forward, from round to round at most.
LEMMA TargetAdvances ==
    ASSUME IInv, NEW c \in Claims,
           TargetAuthor(c) \/ LeanCheck(c) \/ TargetFix(c) \/ Faithfulness(c) \/ TargetError(c)
    PROVE  RunAdvances
<1>1. TypeOK
    BY DEF IInv
<1>2. job[c] \in Jobs /\ job[c].round \in 0..5
    BY <1>1 DEF TypeOK, Jobs
<1> DEFINE r == job[c].round
<1>3. CASE TargetAuthor(c) \/ TargetFix(c)
    <2>1. job[c].stage \in {"author", "fix"}
        BY <1>3 DEF TargetAuthor, TargetFix
    <2> DEFINE j == [stage |-> "check", round |-> r, outcome |-> "none"]
    <2>2. job' = [job EXCEPT ![c] = j]
        BY <1>1, <1>3 DEF TargetAuthor, TargetFix, Write, TypeOK
    <2>3. j \in Jobs /\ j.stage = "check" /\ j.round = r
        BY <1>2 DEF Jobs
    <2>4. JobRank(job[c]) \in {8 * r + 1, 8 * r + 3} /\ JobRank(j) = 8 * r + 4
        BY <2>1, <2>3 DEF JobRank, StageRank
    <2>5. JobRank(job[c]) < JobRank(j)
        BY <1>2, <2>4
    <2> QED BY ONLY <1>1, <2>2, <2>3, <2>5, OneJobAdvances
<1>4. CASE LeanCheck(c)
    <2>1. job[c].stage = "check"
        BY <1>4 DEF LeanCheck
    <2>2. PICK status : Checks(c, status)
        BY <1>4 DEF LeanCheck
    <2> DEFINE next == AfterCheck(c, status)
               j == [stage |-> next.stage, round |-> next.round,
                     outcome |-> IF status = "pass" THEN "pass" ELSE "none"]
    <2>3. job' = [job EXCEPT ![c] = j]
        BY <2>2 DEF Checks
    <2>4. \/ next.stage \in {"fix", "feedback"} /\ next.round = r + 1 /\ r < 5
          \/ next.stage = "judge" /\ next.round = r
        BY <1>2 DEF AfterCheck
    <2>5. j \in Jobs /\ j.stage = next.stage /\ j.round = next.round
        BY <1>2, <2>4 DEF Jobs
    <2>6. JobRank(job[c]) = 8 * r + 4
        BY <2>1 DEF JobRank, StageRank
    <2>7. JobRank(j) \in {8 * (r + 1) + 3, 8 * (r + 1) + 2, 8 * r + 5}
        BY <2>4, <2>5 DEF JobRank, StageRank
    <2>8. JobRank(job[c]) < JobRank(j)
        BY <1>2, <2>6, <2>7
    <2> QED BY ONLY <1>1, <2>3, <2>5, <2>8, OneJobAdvances
<1>5. CASE Faithfulness(c)
    <2>1. job[c].stage = "judge"
        BY <1>5 DEF Faithfulness
    <2>2. PICK v \in {"faithful", "doubted", "none"} :
              job' = [job EXCEPT ![c] = Judged(job[c], v)]
        BY <1>5 DEF Faithfulness
    <2> DEFINE j == Judged(job[c], v)
    <2>3. j \in Jobs
        BY <1>1, <1>2, JudgedJob DEF TypeOK
    <2>4. \/ j.stage = "feedback" /\ j.round = 3 /\ r < 3
          \/ j.stage = "done"
        BY <1>2 DEF Judged, Jobs
    <2>5. JobRank(job[c]) = 8 * r + 5
        BY <2>1 DEF JobRank, StageRank
    <2>6. JobRank(j) = 48 \/ (JobRank(j) = 26 /\ r < 3)
        BY <2>4 DEF JobRank, StageRank
    <2>7. JobRank(job[c]) < JobRank(j)
        BY <1>2, <2>5, <2>6
    <2> QED BY ONLY <1>1, <2>2, <2>3, <2>7, OneJobAdvances
<1>6. CASE TargetError(c)
    <2> DEFINE j == [NoJob EXCEPT !.stage = "done"]
    <2>1. job' = [job EXCEPT ![c] = j] /\ job[c].stage \in {"author", "check", "fix", "judge"}
        BY <1>6 DEF TargetError
    <2>2. j \in Jobs /\ j.stage = "done"
        BY DEF Jobs
    <2>3. JobRank(j) = 48
        BY <2>2 DEF JobRank
    <2>4. JobRank(job[c]) \in {8 * r + 1, 8 * r + 3, 8 * r + 4, 8 * r + 5}
        BY <2>1 DEF JobRank, StageRank
    <2>5. JobRank(job[c]) < JobRank(j)
        BY <1>2, <2>3, <2>4
    <2> QED BY ONLY <1>1, <2>1, <2>2, <2>5, OneJobAdvances
<1> QED BY <1>3, <1>4, <1>5, <1>6

\* A run has a bounded number of steps to take, whatever agents, judges and
\* the environment answer: what RunsEnd needs besides fairness and a step to
\* take.  Doubts of the judge and errors of the compiler do not feed each other.
THEOREM EveryStepAdvances == Spec => []RanksAreBounded /\ RunsAdvance
<1>1. IInv => RanksAreBounded
    BY JobRankIsBounded DEF IInv, TypeOK, RanksAreBounded, MainRank
<1>2. IInv /\ [Next]_vars => [main # "idle" /\ main' # "idle" => RunAdvances]_vars
    <2> SUFFICES ASSUME IInv, Next, main # "idle", main' # "idle" PROVE RunAdvances
        OBVIOUS
    <2>1. CASE \E c \in Claims :
                  TargetAuthor(c) \/ LeanCheck(c) \/ TargetFix(c) \/ Faithfulness(c) \/ TargetError(c)
        BY <2>1, TargetAdvances
    <2>2. CASE \/ Harness \/ Reuse \/ LibraryAuthor \/ LibraryCheck \/ LibraryFix
               \/ LibraryRecheck \/ LibraryFeedback
        BY <2>2, LibraryAdvances
    <2>3. ~(Start \/ Crash \/ BlockedByLibrary \/ Finish)
        BY DEF Start, Crash, BlockedByLibrary, Finish, GiveUp, Ends
    <2> QED BY <2>1, <2>2, <2>3 DEF Next, Step
<1> QED BY <1>1, <1>2, Inductive, PTL DEF Spec, RunsAdvance

=============================================================================
