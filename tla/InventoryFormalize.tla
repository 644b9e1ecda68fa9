------------------------ MODULE InventoryFormalize ------------------------
(***************************************************************************)
(* `formalize` on the artifact directory of one review: a Lean library for *)
(* the paper is authored and checked, then each target theorem is          *)
(* authored, built, repaired in bounded rounds and judged against its      *)
(* source, and theorem_map.json says which claims are proved.  A run takes *)
(* one claim, whose failures may send the library back to its author, or   *)
(* all selected ones at once.  It may die anywhere and be started again on *)
(* the files it left.  Agents return anything.                             *)
(***************************************************************************)
EXTENDS FiniteSets, Integers

CONSTANTS
    Claims,      \* claims of theorem_inventory.json
    Selected,    \* those a run without a claim takes
    Dirs,        \* directories under review_loop/lean/targets
    Dir,         \* the one named by the slug of a claim's id
    Texts,       \* what agents return for a target, told apart by what Lean says
    RunBound,    \* bound on runs started
    CrashBound   \* bound on runs that die and on targets that fail with an error

ASSUME ClaimsAssumption == Selected \subseteq Claims /\ {RunBound, CrashBound} \subseteq Nat

\* Labels that differ in punctuation only have one slug, and one directory.
ASSUME DirAssumption == Dir \in [Claims -> Dirs]

\* A plain text builds on any library that does, a needy one on a rich one, a
\* broken one on none; a tainted one builds but holds a forbidden term, or
\* lacks the import of the library or a declaration.
ASSUME TextsAssumption == Texts \subseteq {"plain", "needy", "broken", "tainted"}

VARIABLES
    library,   \* review_loop/lean/library: what a check of it would say
    reusable,  \* author_result.json or fix_result.json there has status pass
    file,      \* what a directory holds
    entry,     \* claim_status in theorem_map.json
    main,      \* stage of the running process
    goal,      \* the claims it was started for
    many,      \* it was started without a claim
    job,       \* its work on each target
    stale,     \* claims whose last run died
    runs,      \* runs started so far
    crashes    \* deaths and errors so far

vars == <<library, reusable, file, entry, main, goal, many, job, stale, runs, crashes>>

\* Libraries that build differ in the declarations they offer.
Libraries == {"unusable", "poor", "rich"}
Checked == {"poor", "rich"}

Builds(text, lib) == text = "plain" \/ (text = "needy" /\ lib = "rich")

Kernel(text, lib) ==
    CASE text = "tainted"   -> "rejected"
      [] Builds(text, lib)  -> "pass"
      [] OTHER              -> "lean_compile_error"

\* No other claim has the directory of c.
Alone(c) == \A d \in Claims \ {c} : Dir[d] # Dir[c]

Fixable(status) == status \in {"lean_compile_error", "rejected"}

\* GrokRxiv/Proofs.lean, check/GrokRxiv/Proofs.lean, the copy of the library
\* both are built on, and the lean_code of faithfulness.json if its verdict is
\* faithful.
NoFile == [canon |-> "none", checked |-> "none", lib |-> "none", judged |-> "none"]

Files == [canon : Texts \cup {"none"}, checked : Texts \cup {"none"},
          lib : Libraries \cup {"none"}, judged : Texts \cup {"none"}]

\* Round 0 is the author's, 1 and 4 repair what did not build, 2 and 5 what still
\* does not after the library was revised, 3 what the judge doubted.
\* The outcome is pass when the kernel accepted the text and nothing followed,
\* proved when the judge did too.
Jobs == [stage : {"none", "author", "check", "fix", "feedback", "judge", "done"},
         round : 0..5, outcome : {"none", "pass", "proved"}]

NoJob == [stage |-> "none", round |-> 0, outcome |-> "none"]

LibraryStages == {"reuse", "library_author", "library_check", "library_fix", "library_recheck"}

TypeOK ==
    /\ library \in Libraries
    /\ reusable \in BOOLEAN
    /\ file \in [Dirs -> Files]
    /\ entry \in [Claims -> {"none", "open", "proved"}]
    /\ main \in {"idle", "harness", "targets", "blocked"} \cup LibraryStages
    /\ goal \subseteq Claims /\ many \in BOOLEAN
    /\ job \in [Claims -> Jobs]
    /\ stale \subseteq Claims
    /\ runs \in 0..RunBound /\ crashes \in 0..CrashBound

\* The seed files hold no declaration, but they are valid and build.
Init ==
    /\ library = "poor" /\ reusable = FALSE
    /\ file = [d \in Dirs |-> NoFile]
    /\ entry = [c \in Claims |-> "none"]
    /\ main = "idle" /\ goal = {} /\ many = FALSE
    /\ job = [c \in Claims |-> NoJob]
    /\ stale = {} /\ runs = 0 /\ crashes = 0

(***************************************************************************)
(* theorem_map.json and the end of a run                                   *)
(***************************************************************************)
\* A run of all targets writes the map anew; a run of one claim merges.
Record(claimStatus) ==
    entry' = [c \in Claims |-> IF c \in goal THEN claimStatus[c]
                               ELSE IF many THEN "none" ELSE entry[c]]

Blocked == [c \in goal |-> "open"]

\* Mutant of ClaimStatus: a claim proved by the kernel alone.
KernelStatus(c) == IF job[c].outcome # "none" THEN "proved" ELSE "open"

ClaimStatus(c) == IF job[c].outcome = "proved" THEN "proved" ELSE "open"

Ends ==
    /\ main' = "idle" /\ goal' = {} /\ many' = FALSE
    /\ job' = [c \in Claims |-> NoJob]

Start ==
    /\ main = "idle" /\ main' = "harness"
    /\ \/ \E c \in Claims : goal' = {c} /\ many' = FALSE
       \/ goal' = Selected /\ many' = TRUE
    /\ runs < RunBound /\ runs' = runs + 1
    /\ UNCHANGED <<library, reusable, file, entry, job, stale, crashes>>

\* A failed harness, or library, is reported for all targets or for none.
GiveUp ==
    /\ IF many THEN Record(Blocked) /\ stale' = stale \ goal ELSE UNCHANGED <<entry, stale>>
    /\ Ends

Harness ==
    /\ main = "harness"
    /\ \/ /\ main' = IF reusable THEN "reuse" ELSE "library_author"
          /\ UNCHANGED <<entry, goal, many, job, stale>>
       \/ GiveUp
    /\ UNCHANGED <<library, reusable, file, runs, crashes>>

BlockedByLibrary ==
    /\ main = "blocked" /\ GiveUp
    /\ UNCHANGED <<library, reusable, file, runs, crashes>>

Finish ==
    /\ main = "targets" /\ \A c \in goal : job[c].stage = "done"
    /\ Record([c \in goal |-> ClaimStatus(c)]) /\ stale' = stale \ goal /\ Ends
    /\ UNCHANGED <<library, reusable, file, runs, crashes>>

\* The process dies, or an error of the file system ends it.
Crash ==
    /\ main # "idle" /\ crashes < CrashBound /\ crashes' = crashes + 1
    /\ Ends /\ stale' = stale \cup goal
    /\ UNCHANGED <<library, reusable, file, entry, runs>>

(***************************************************************************)
(* The library                                                             *)
(***************************************************************************)
\* The target whose failure sent the library back to its author, if any.
Waiting == {c \in Claims : job[c].stage = "feedback"}

\* Work on the targets starts, or the waiting target is repaired.
LibraryPassed ==
    /\ main' = "targets"
    /\ job' = IF Waiting = {}
              THEN [c \in Claims |-> [NoJob EXCEPT !.stage = IF c \in goal THEN "author" ELSE "none"]]
              ELSE [c \in Claims |-> IF c \in Waiting THEN [job[c] EXCEPT !.stage = "fix"] ELSE job[c]]

\* Mutant of LibraryFailed: the target is judged again after any feedback.
LibraryFailedJudge ==
    IF Waiting = {} THEN main' = "blocked" /\ UNCHANGED job
    ELSE /\ main' = "targets"
         /\ job' = [c \in Claims |-> IF c \in Waiting THEN [job[c] EXCEPT !.stage = "judge"] ELSE job[c]]

\* The waiting target keeps the result it had; a doubted one its verdict too.
LibraryFailed ==
    IF Waiting = {} THEN main' = "blocked" /\ UNCHANGED job
    ELSE /\ main' = "targets"
         /\ job' = [c \in Claims |->
                IF c \in Waiting
                THEN [job[c] EXCEPT !.stage = IF job[c].round = 3 THEN "done" ELSE "judge"]
                ELSE job[c]]

\* An agent edits the library in place and returns a result or fails, or is
\* not even started; a failure overwrites its own last result only.
EditLibrary ==
    /\ library' \in Libraries
    /\ reusable' \in BOOLEAN

LibraryAuthor ==
    /\ main = "library_author" /\ main' = "library_check"
    /\ EditLibrary
    /\ UNCHANGED <<file, entry, goal, many, job, stale, runs, crashes>>

LibraryFix ==
    /\ main = "library_fix" /\ main' = "library_recheck"
    /\ EditLibrary
    /\ UNCHANGED <<file, entry, goal, many, job, stale, runs, crashes>>

LibraryFeedback ==
    /\ main = "targets" /\ Waiting # {} /\ main' = "library_check"
    /\ library' \in Libraries
    /\ UNCHANGED <<reusable, file, entry, goal, many, job, stale, runs, crashes>>

\* A library that was checked before is checked again, and written anew if it
\* fails.
Reuse ==
    /\ main = "reuse"
    /\ \/ library \in Checked /\ LibraryPassed
       \/ main' = "library_author" /\ UNCHANGED job
    /\ UNCHANGED <<library, reusable, file, entry, goal, many, stale, runs, crashes>>

\* The environment may fail any check, and lake's failure is the library's: a
\* build that is killed or times out gives a good one to the fixer, too.
LibraryCheck ==
    /\ main = "library_check"
    /\ \/ library \in Checked /\ LibraryPassed
       \/ main' = "library_fix" /\ UNCHANGED job
       \/ LibraryFailed
    /\ UNCHANGED <<library, reusable, file, entry, goal, many, stale, runs, crashes>>

LibraryRecheck ==
    /\ main = "library_recheck"
    /\ \/ library \in Checked /\ LibraryPassed
       \/ LibraryFailed
    /\ UNCHANGED <<library, reusable, file, entry, goal, many, stale, runs, crashes>>

(***************************************************************************)
(* A target.  Those of one run are worked on concurrently, each in the     *)
(* directory of its slug.  Where two share one, what is checked, built or  *)
(* judged for either may be the text of the other, or what an agent        *)
(* returned before the other wrote: any text, with any result.             *)
(***************************************************************************)
\* An agent that is asked for a text writes it to the target, or fails.
Write(c) ==
    \E text \in Texts \cup {"none"} :
        /\ job' = [job EXCEPT ![c] = [stage |-> "check", round |-> @.round, outcome |-> "none"]]
        /\ file' = IF text = "none" THEN file
                   ELSE [file EXCEPT ![Dir[c]].canon = text, ![Dir[c]].lib = library]

TargetAuthor(c) ==
    /\ main = "targets" /\ job[c].stage = "author" /\ Write(c)
    /\ UNCHANGED <<library, reusable, entry, main, goal, many, stale, runs, crashes>>

TargetFix(c) ==
    /\ main = "targets" /\ job[c].stage = "fix" /\ Write(c)
    /\ UNCHANGED <<library, reusable, entry, main, goal, many, stale, runs, crashes>>

\* Mutants of AfterCheck: the last repair is repeated while it helps nothing,
\* or targets of one run are repaired with the library as well.
AfterCheckRetry(c, status) ==
    LET r == job[c].round IN
    IF r \in {0, 3} /\ Fixable(status) THEN [stage |-> "fix", round |-> r + 1]
    ELSE IF r \in {1, 4} /\ status = "lean_compile_error" /\ ~many
         THEN [stage |-> "feedback", round |-> r + 1]
    ELSE [stage |-> IF Fixable(status) THEN "fix" ELSE "judge", round |-> r]
AfterCheckFeedback(c, status) ==
    LET r == job[c].round IN
    IF r \in {0, 3} /\ Fixable(status) THEN [stage |-> "fix", round |-> r + 1]
    ELSE IF r \in {1, 4} /\ status = "lean_compile_error"
         THEN [stage |-> "feedback", round |-> r + 1]
    ELSE [stage |-> "judge", round |-> r]

\* What did not build is repaired once, and once more with the library if the
\* run has one target only.
AfterCheck(c, status) ==
    LET r == job[c].round IN
    IF r \in {0, 3} /\ Fixable(status) THEN [stage |-> "fix", round |-> r + 1]
    ELSE IF r \in {1, 4} /\ status = "lean_compile_error" /\ ~many
         THEN [stage |-> "feedback", round |-> r + 1]
    ELSE [stage |-> "judge", round |-> r]

Checks(c, status) ==
    LET next == AfterCheck(c, status) IN
    job' = [job EXCEPT ![c] = [stage |-> next.stage, round |-> next.round,
                               outcome |-> IF status = "pass" THEN "pass" ELSE "none"]]

\* The text is the one the last agent returned, which is in the directory by
\* now, or else what it finds there.
Code(c) == {file[Dir[c]].canon} \cup IF Alone(c) THEN {} ELSE Texts

\* A build that is killed or times out is a compile error, whatever the text.
CheckResults(c, code) ==
    {"environment_error", "lean_compile_error"}
        \cup IF Alone(c) THEN {Kernel(code, library)} ELSE {"pass", "rejected"}

LeanCheck(c) ==
    /\ main = "targets" /\ job[c].stage = "check"
    /\ \/ Checks(c, "environment_error") /\ UNCHANGED file
       \/ \E code \in Code(c) \ {"none"} :
            /\ file' = [file EXCEPT ![Dir[c]] =
                          [@ EXCEPT !.canon = code, !.checked = code, !.lib = library]]
            /\ \E status \in CheckResults(c, code) : Checks(c, status)
    /\ UNCHANGED <<library, reusable, entry, main, goal, many, stale, runs, crashes>>

\* What becomes of a job by the verdict: doubts send a single target back, once.
Judged(j, verdict) ==
    IF verdict = "doubted" /\ ~many /\ j.round < 3
    THEN [j EXCEPT !.stage = "feedback", !.round = 3]
    ELSE [j EXCEPT !.stage = "done", !.outcome = IF verdict = "faithful" THEN "proved" ELSE @]

\* The text the judge is shown.
Shown(c) == {file[Dir[c]].checked} \cup IF Alone(c) THEN {} ELSE Texts

\* Only what the kernel accepted is shown to the judge, who may fail.
Faithfulness(c) ==
    /\ main = "targets" /\ job[c].stage = "judge"
    /\ \E verdict \in IF job[c].outcome = "pass" THEN {"faithful", "doubted", "none"} ELSE {"none"} :
        /\ \E text \in IF verdict = "faithful" THEN Shown(c) ELSE {"none"} :
              file' = [file EXCEPT ![Dir[c]].judged = text]
        /\ job' = [job EXCEPT ![c] = Judged(job[c], verdict)]
    /\ UNCHANGED <<library, reusable, entry, main, goal, many, stale, runs, crashes>>

\* Among several targets, an error of one is its result.
TargetError(c) ==
    /\ main = "targets" /\ many /\ job[c].stage \in {"author", "check", "fix", "judge"}
    /\ crashes < CrashBound /\ crashes' = crashes + 1
    /\ job' = [job EXCEPT ![c] = [NoJob EXCEPT !.stage = "done"]]
    /\ UNCHANGED <<library, reusable, file, entry, main, goal, many, stale, runs>>

Step ==
    \/ Harness \/ Reuse \/ LibraryAuthor \/ LibraryCheck \/ LibraryFix \/ LibraryRecheck
    \/ LibraryFeedback \/ BlockedByLibrary \/ Finish
    \/ \E c \in Claims : TargetAuthor(c) \/ LeanCheck(c) \/ TargetFix(c) \/ Faithfulness(c)

Next == Start \/ Step \/ Crash \/ \E c \in Claims : TargetError(c)

Spec == Init /\ [][Next]_vars

\* Commands and agents end by their timeouts; nobody has to start a run.
FairSpec == Spec /\ WF_vars(Step)

(***************************************************************************)
(* Properties                                                              *)
(***************************************************************************)
\* A claim the map calls proved has a file that the kernel accepts with the
\* library beside it, and the judge called that very text faithful: whatever
\* failed, was retried or was left over from earlier runs.  Claims of a run
\* that is under way or died are not covered, their files precede the map; nor
\* are claims that share their directory, whose files another may overwrite.
Verified(c) ==
    LET f == file[Dir[c]] IN
    f.canon # "tainted" /\ Builds(f.canon, f.lib) /\ f.judged = f.canon

ProvedIsVerified ==
    \A c \in Claims \ (goal \cup stale) : entry[c] = "proved" /\ Alone(c) => Verified(c)

\* Targets are authored and repaired on a library that passed, and a text that
\* passed is judged beside the library it was built on, although the judge
\* reads the shared directory and not the copy, if the directory of the text
\* is its claim's own.
LibraryIsChecked ==
    \A c \in Claims : main = "targets" =>
        /\ job[c].stage \in {"author", "check", "fix"} => library \in Checked
        /\ job[c].stage = "judge" /\ job[c].outcome = "pass" =>
              /\ library \in Checked
              /\ Alone(c) => LET f == file[Dir[c]] IN f.lib = library /\ f.checked = f.canon

\* "parallel target execution keeps the checked paper-local library immutable
\* during target jobs"
LibraryKeptForTargets ==
    [][many /\ (\E c \in Claims : job[c].stage \in {"check", "fix", "feedback", "judge", "done"})
        => library' = library]_vars

\* Every run ends: each cause for another round is spent after it.
RunsEnd == [](main # "idle" => <>(main = "idle"))
=============================================================================
