---------------------------- MODULE DagExecutor ----------------------------
(***************************************************************************)
(* DagExecutor::execute_with_checkpoint: one DAG run, executed layer by    *)
(* layer, that may pause for an approval, be cancelled, and be executed    *)
(* again from the report it returned.  A "pass" is one such call.          *)
(*                                                                         *)
(* A layer whose remaining nodes are all ordinary and ready runs as tokio  *)
(* tasks behind a semaphore; every other layer runs node by node.  A layer *)
(* is evaluated without an await point unless a handler runs, so that each *)
(* evaluation is one action, and so is each answer of a handler.           *)
(*                                                                         *)
(* Nodes are numbered in manifest order, which is the order of a layer, so *)
(* that a layer is the set of its nodes.  Inputs, outputs and artifacts    *)
(* are left out but for the approvals granted; what a branch finds in its  *)
(* inputs is any of its cases, or none.  A node that fails its contracts   *)
(* answers as one whose handler returned an error.                         *)
(***************************************************************************)
EXTENDS DagManifest, SequencesExt

CONSTANTS
    Manifests,    \* the validated manifests a run may execute
    Answers,      \* statuses handlers return in this instance
    MaxAttempts,  \* largest retry.max_attempts of a node
    PassBound     \* bound on the passes of one run

\* Prepare, tool, agent, artifact ... nodes are all "handler" here.  A loop or
\* a map calls its handler several times, one call after the other, but like a
\* handler it yields one status: it is one call here.
Kinds == {"handler", "composite", "branch", "gate", "approval"}

Usable == {"ok", "degraded"}
Statuses == Usable \cup {"failed", "skipped", "awaiting_approval"}

NoSelection == {0}

\* DagManifest, with its execution layers: node kinds and edges, whether a node
\* is required, its retry attempts, a tool that needs approval or is metered,
\* the concurrency limit (0 when absent), branch cases and gate policies.
ManifestFields ==
    {"kind", "deps", "layers", "required", "attempts", "gated", "metered",
     "limit", "cases", "sources", "minUsable"}

ASSUME AttemptsAssumption == MaxAttempts \in Nat \ {0}
ASSUME PassAssumption == PassBound \in Nat \ {0}
ASSUME AnswersAssumption == Answers \subseteq Statuses \ {"skipped"}
ASSUME ManifestsAssumption ==
    \A m \in Manifests :
        /\ DOMAIN m = ManifestFields
        /\ m.kind \in [Nodes -> Kinds] /\ m.deps \in [Nodes -> SUBSET Nodes]
        /\ m.layers \in Seq(SUBSET Nodes) /\ LayersRespectEdges(m.deps, m.layers)
        /\ m.attempts \in [Nodes -> 1..MaxAttempts]
        /\ \A n \in Nodes : m.kind[n] # "handler" => m.attempts[n] = 1
        /\ m.required \subseteq Nodes /\ m.gated \subseteq Nodes
        /\ m.metered \subseteq Nodes /\ m.limit \in Nat
        /\ m.cases \in [Nodes -> SUBSET SUBSET Nodes]
        /\ m.sources \in [Nodes -> SUBSET Nodes] /\ m.minUsable \in [Nodes -> Nat]

VARIABLES
    manifest,   \* the manifest of the run
    pass,       \* number of this call of execute_with_checkpoint
    approved,   \* nodes whose approval key is set in the inputs
    cancelled,  \* the cancellation token
    replay,     \* status of each node replayed from the checkpoint, or "none"
    replaySel,  \* branch selections in the reports of the checkpoint
    phase,      \* where the call is
    layer,      \* index of the execution layer
    queue,      \* nodes of the layer that have not been started or evaluated
    running,    \* attempt each node's handler is at, 0 when it is not running
    reports,    \* statuses of the reports of each node in this pass, in order
    status,     \* the map `statuses`
    selection,  \* the map `branch_selections`
    result      \* status of the report returned

run == <<manifest, pass, approved>>
checkpoint == <<replay, replaySel>>
progress == <<phase, layer, queue>>
vars == <<manifest, pass, approved, cancelled, replay, replaySel, phase, layer,
          queue, running, reports, status, selection, result>>

RunOK ==
    /\ manifest \in Manifests
    /\ pass \in 1..PassBound
    /\ approved \subseteq Nodes
    /\ cancelled \in BOOLEAN
    /\ replay \in [Nodes -> Usable \cup {"none"}]
    /\ replaySel \in [Nodes -> {NoSelection} \cup SUBSET Nodes]
PlaceOK ==
    /\ phase \in {"layer", "concurrent", "serial", "returned"}
    /\ layer \in 1..(Len(manifest.layers) + 1)
    /\ queue \subseteq Nodes
    /\ result \in Statuses \cup {"none"}
NodesOK ==
    /\ running \in [Nodes -> 0..MaxAttempts]
    /\ reports \in [Nodes -> Seq(Statuses)]
    /\ status \in [Nodes -> Statuses \cup {"none"}]
    /\ selection \in [Nodes -> {NoSelection} \cup SUBSET Nodes]
TypeOK == RunOK /\ PlaceOK /\ NodesOK

None == [n \in Nodes |-> "none"]
NoSelections == [n \in Nodes |-> NoSelection]
NoReports == [n \in Nodes |-> <<>>]
Idle == [n \in Nodes |-> 0]

\* The local variables of a call, as execute_with_checkpoint declares them.
Init ==
    /\ manifest \in Manifests
    /\ pass = 1 /\ approved = {} /\ cancelled = FALSE
    /\ replay = None /\ replaySel = NoSelections
    /\ phase = "layer" /\ layer = 1 /\ queue = {}
    /\ running = Idle /\ reports = NoReports
    /\ status = None /\ selection = NoSelections /\ result = "none"

-----------------------------------------------------------------------------
(* Conditions the scheduler reads                                          *)

Layer == manifest.layers[layer]
Running == {n \in Nodes : running[n] > 0}
Required(n) == n \in manifest.required

Unselected(n) ==
    \E d \in manifest.deps[n] : selection[d] # NoSelection /\ n \notin selection[d]

\* Mutant of Blocked: a skipped dependency does not block.
BlockedByFailureOnly(n) ==
    \E d \in manifest.deps[n] : status[d] \in {"failed", "awaiting_approval"}

Blocked(n) ==
    \E d \in manifest.deps[n] : status[d] \in {"failed", "skipped", "awaiting_approval"}

\* can_execute_layer_concurrently
Concurrent(S) ==
    /\ Cardinality(S) > 1
    /\ \A n \in S :
        /\ manifest.kind[n] = "handler" /\ n \notin manifest.metered
        /\ ~Unselected(n) /\ ~Blocked(n)

\* The semaphore's permits: a missing limit admits the whole batch.
Limit == IF manifest.limit = 0 THEN NumNodes ELSE manifest.limit

\* What an error of the handler, a contract or a policy is turned into.
ErrorStatus(n) == IF Required(n) THEN "failed" ELSE "degraded"

\* Mutant of PossibleAnswers: the preflight ignores approvals granted.
AnswersIgnoringApproval(n) ==
    IF n \in manifest.gated THEN {"awaiting_approval"} ELSE Answers \cup {ErrorStatus(n)}

\* execute_handler_node_once: a tool that needs approval waits for it without
\* calling the handler.
PossibleAnswers(n) ==
    IF n \in manifest.gated \ approved
    THEN {"awaiting_approval", ErrorStatus(n)}
    ELSE Answers \cup {ErrorStatus(n)}

\* should_retry_result
Retried(n, s) == running[n] < manifest.attempts[n] /\ s \in {"failed", "degraded"}

\* Final statuses by node: later reports of a node replace earlier ones.
Reported == {n \in Nodes : reports[n] # <<>>}
FinalStatuses == {Last(reports[n]) : n \in Reported}

\* Mutant of OverallStatus: a degraded node hides a failed one.
DegradedOverFailed(S) ==
    IF "degraded" \in S THEN "degraded"
    ELSE IF "failed" \in S THEN "failed"
    ELSE IF "awaiting_approval" \in S THEN "awaiting_approval" ELSE "ok"

OverallStatus(S) ==
    IF "failed" \in S THEN "failed"
    ELSE IF "awaiting_approval" \in S THEN "awaiting_approval"
    ELSE IF "degraded" \in S THEN "degraded" ELSE "ok"

Report(n, s) == reports' = [reports EXCEPT ![n] = Append(@, s)]

Return(s) ==
    /\ phase' = "returned"
    /\ result' = s

-----------------------------------------------------------------------------
(* Entering a layer                                                        *)

Replayed == {n \in Layer : replay[n] # "none"}
Remaining == Layer \ Replayed

\* Nodes of the layer with a checkpoint report take it over, and a branch its
\* selection.
ReplayLayer ==
    /\ status' = [n \in Nodes |-> IF n \in Replayed THEN replay[n] ELSE status[n]]
    /\ reports' = [n \in Nodes |->
                    IF n \in Replayed THEN Append(reports[n], replay[n]) ELSE reports[n]]
    /\ selection' = [n \in Nodes |->
                        IF n \in Replayed /\ manifest.kind[n] = "branch"
                           /\ replaySel[n] # NoSelection
                        THEN replaySel[n] ELSE selection[n]]

\* The next node of the layer in manifest order.
IsNext(n) == n \in queue /\ \A m \in queue : n <= m

BeforeLayer == phase = "layer" /\ layer <= Len(manifest.layers) /\ ~cancelled

SkipReplayedLayer ==
    /\ BeforeLayer
    /\ Remaining = {}
    /\ ReplayLayer
    /\ layer' = layer + 1
    /\ UNCHANGED <<run, checkpoint, cancelled, phase, queue, running, result>>

EnterConcurrent ==
    /\ BeforeLayer
    /\ Concurrent(Remaining)
    /\ ReplayLayer
    /\ phase' = "concurrent" /\ queue' = Remaining
    /\ UNCHANGED <<run, checkpoint, cancelled, layer, running, result>>

\* The serial loop goes over the whole layer, nodes just replayed included.
EnterSerial ==
    /\ BeforeLayer
    /\ Remaining # {}
    /\ ~Concurrent(Remaining)
    /\ ReplayLayer
    /\ phase' = "serial" /\ queue' = Layer
    /\ UNCHANGED <<run, checkpoint, cancelled, layer, running, result>>

NextLayer ==
    /\ phase' = "layer"
    /\ layer' = layer + 1

-----------------------------------------------------------------------------
(* A concurrent layer                                                      *)

\* Mutant of HasPermit: a task that ended keeps its permit.
HasUnusedPermit == Cardinality(Running \cup (Layer \cap Reported)) < Limit

\* acquire_owned on the semaphore.
HasPermit == Cardinality(Running) < Limit

\* The cancellation token is not looked at while permits are handed out.
StartQueued ==
    /\ phase = "concurrent"
    /\ HasPermit
    /\ \E n \in Nodes :
        /\ IsNext(n)
        /\ running' = [running EXCEPT ![n] = 1]
        /\ queue' = queue \ {n}
    /\ UNCHANGED <<run, checkpoint, cancelled, phase, layer, reports, status,
                   selection, result>>

\* The handler of n answered, and its task runs it again after a backoff.
Retry(n) ==
    /\ running[n] > 0
    /\ \E s \in PossibleAnswers(n) : Retried(n, s) /\ Report(n, s)
    /\ running' = [running EXCEPT ![n] = @ + 1]
    /\ UNCHANGED <<run, checkpoint, cancelled, progress, status, selection, result>>

AnswerConcurrent(n) ==
    /\ phase = "concurrent"
    /\ running[n] > 0
    /\ \E s \in PossibleAnswers(n) : ~Retried(n, s) /\ Report(n, s)
    /\ running' = [running EXCEPT ![n] = 0]
    /\ UNCHANGED <<run, checkpoint, cancelled, progress, status, selection, result>>

\* Every task was joined: the outcomes are recorded, and the call returns if a
\* node of this layer waits for approval and none of it failed.
CollectLayer ==
    /\ phase = "concurrent" /\ queue = {} /\ Running = {}
    /\ LET outcomes == {Last(reports[n]) : n \in Remaining}
       IN  /\ status' = [n \in Nodes |->
                            IF n \in Remaining THEN Last(reports[n]) ELSE status[n]]
           /\ IF "awaiting_approval" \in outcomes /\ "failed" \notin outcomes
              THEN Return("awaiting_approval") /\ UNCHANGED layer
              ELSE NextLayer /\ UNCHANGED result
    /\ UNCHANGED <<run, checkpoint, cancelled, queue, running, reports, selection>>

-----------------------------------------------------------------------------
(* A serial layer                                                          *)

AtNode(n) == phase = "serial" /\ IsNext(n) /\ Running = {}

\* A node's outcome is recorded; the call returns if it waits for approval.
SettleNode(n, s) ==
    /\ status' = [status EXCEPT ![n] = s]
    /\ Report(n, s)
    /\ queue' = queue \ {n}
    /\ IF s = "awaiting_approval" THEN Return(s) ELSE UNCHANGED <<phase, result>>
    /\ UNCHANGED <<run, checkpoint, cancelled, layer>>

CanEvaluate(n) == AtNode(n) /\ ~cancelled /\ ~Unselected(n) /\ ~Blocked(n)

\* Not on the route a branch selected, or behind a dependency that is not usable.
SkipNode(n) ==
    /\ AtNode(n) /\ ~cancelled
    /\ Unselected(n) \/ Blocked(n)
    /\ SettleNode(n, "skipped")
    /\ UNCHANGED <<running, selection>>

\* evaluate_branch: the inputs select a case, or the default.
SelectCase(n) ==
    /\ CanEvaluate(n) /\ manifest.kind[n] = "branch"
    /\ \E targets \in manifest.cases[n] :
        selection' = [selection EXCEPT ![n] = targets]
    /\ SettleNode(n, "ok")
    /\ UNCHANGED running

\* No case for the decision, and no default: an error, and no selection.
SelectNothing(n) ==
    /\ CanEvaluate(n) /\ manifest.kind[n] = "branch"
    /\ SettleNode(n, ErrorStatus(n))
    /\ UNCHANGED <<running, selection>>

\* evaluate_gate: sources need not be dependencies of the gate.
EvaluateGate(n) ==
    /\ CanEvaluate(n) /\ manifest.kind[n] = "gate"
    /\ LET usable == {d \in manifest.sources[n] : status[d] \in Usable}
       IN  SettleNode(n, IF Cardinality(usable) >= manifest.minUsable[n]
                         THEN "ok" ELSE ErrorStatus(n))
    /\ UNCHANGED <<running, selection>>

EvaluateApproval(n) ==
    /\ CanEvaluate(n) /\ manifest.kind[n] = "approval"
    /\ SettleNode(n, IF n \in approved THEN "ok" ELSE "awaiting_approval")
    /\ UNCHANGED <<running, selection>>

StartSerial(n) ==
    /\ CanEvaluate(n) /\ manifest.kind[n] \in {"handler", "composite"}
    /\ running' = [running EXCEPT ![n] = 1]
    /\ UNCHANGED <<run, checkpoint, cancelled, progress, reports, status,
                   selection, result>>

AnswerSerial(n) ==
    /\ phase = "serial"
    /\ running[n] > 0
    /\ \E s \in PossibleAnswers(n) : ~Retried(n, s) /\ SettleNode(n, s)
    /\ running' = [running EXCEPT ![n] = 0]
    /\ UNCHANGED selection

SerialLayerDone ==
    /\ phase = "serial" /\ queue = {}
    /\ NextLayer
    /\ UNCHANGED <<run, checkpoint, cancelled, queue, running, reports, status,
                   selection, result>>

-----------------------------------------------------------------------------
(* The end of a pass, and the next one                                     *)

ReturnReport ==
    /\ phase = "layer" /\ layer > Len(manifest.layers)
    /\ Return(OverallStatus(FinalStatuses))
    /\ UNCHANGED <<run, checkpoint, cancelled, layer, queue, running, reports,
                   status, selection>>

\* Mutant of Undecided: the report lists the rest of this layer only.
UndecidedInLayer(n) == status[n] = "none" /\ n \in queue

Undecided(n) == status[n] = "none"

\* cancelled_execution_report, before a layer or a node of a serial layer.
ReturnCancelled ==
    /\ cancelled
    /\ \/ phase = "layer" /\ layer <= Len(manifest.layers)
       \/ phase = "serial" /\ queue # {} /\ Running = {}
    /\ reports' = [n \in Nodes |->
                    IF Undecided(n) THEN Append(reports[n], "skipped") ELSE reports[n]]
    /\ Return("skipped")
    /\ UNCHANGED <<run, checkpoint, cancelled, layer, queue, running, status, selection>>

\* DagCancellationToken::cancel, from any thread.
RequestCancel ==
    /\ phase # "returned" /\ ~cancelled
    /\ cancelled' = TRUE
    /\ UNCHANGED <<run, checkpoint, progress, running, reports, status, selection,
                   result>>

\* prepare_replay_checkpoint: the last report of a node that is usable.
UsableAt(n) == {i \in DOMAIN reports[n] : reports[n][i] \in Usable}
IsReplayed(n, s) ==
    \/ s = "none" /\ UsableAt(n) = {}
    \/ \E i \in UsableAt(n) : s = reports[n][i] /\ \A k \in UsableAt(n) : k <= i

\* The report of this pass is the checkpoint of the next: a paused run resumes
\* with an approval, and a run that ended in any way may be replayed.
Resume ==
    /\ phase = "returned"
    /\ pass < PassBound
    /\ pass' = pass + 1
    /\ replay' \in {statuses \in [Nodes -> Usable \cup {"none"}] :
                      \A n \in Nodes : IsReplayed(n, statuses[n])}
    /\ replaySel' = selection
    /\ \/ UNCHANGED approved
       \/ result = "awaiting_approval" /\ \E n \in Reported :
            /\ Last(reports[n]) = "awaiting_approval"
            /\ approved' = approved \cup {n}
    /\ cancelled' = FALSE
    /\ phase' = "layer" /\ layer' = 1 /\ queue' = {}
    /\ running' = Idle /\ reports' = NoReports
    /\ status' = None /\ selection' = NoSelections /\ result' = "none"
    /\ UNCHANGED manifest

-----------------------------------------------------------------------------

NodeStep(n) ==
    \/ Retry(n) \/ AnswerConcurrent(n)
    \/ SkipNode(n) \/ SelectCase(n) \/ SelectNothing(n)
    \/ EvaluateGate(n) \/ EvaluateApproval(n)
    \/ StartSerial(n) \/ AnswerSerial(n)

ExecutorStep ==
    \/ SkipReplayedLayer \/ EnterConcurrent \/ EnterSerial
    \/ StartQueued \/ CollectLayer \/ SerialLayerDone
    \/ ReturnReport \/ ReturnCancelled
    \/ \E n \in Nodes : NodeStep(n)

Next == ExecutorStep \/ RequestCancel \/ Resume

Spec == Init /\ [][Next]_vars

\* Tasks are scheduled, and handlers answer or hit their timeout.  Nobody owes
\* a cancellation, an approval or a replay.
FairSpec == Spec /\ WF_vars(ExecutorStep)

-----------------------------------------------------------------------------
(* Properties                                                              *)

\* A handler is called only when every node of an earlier layer is decided and
\* every dependency is usable and routes to it, replayed layers included.
StartedNodesAreReady ==
    \A n \in Running :
        /\ \A i \in 1..(layer - 1), m \in Nodes :
            m \in manifest.layers[i] => status[m] # "none"
        /\ \A d \in manifest.deps[n] : status[d] \in Usable
        /\ ~Unselected(n)

\* A report that claims success hides nothing: every node is usable, or was
\* skipped because a branch routed around it or around a node it depends on.
SuccessIsComplete ==
    result \in Usable =>
        \A n \in Nodes :
            /\ n \in Reported
            /\ Last(reports[n]) \in Usable \cup {"skipped"}
            /\ Last(reports[n]) = "skipped" =>
                Unselected(n) \/ \E d \in manifest.deps[n] : Last(reports[d]) = "skipped"

\* A run that was cancelled or that went through all its layers accounts for
\* every node, and a node that was decided ends with that status.
ReportIsComplete ==
    phase = "returned" =>
        /\ result # "awaiting_approval" => Reported = Nodes
        /\ \A n \in Nodes : status[n] # "none" => Last(reports[n]) = status[n]

\* A tool or an approval node that was approved does not ask again in any later
\* pass, so that an approval always gets the run further (handlers that ask for
\* approval on their own account are not among the Answers of these runs).
ApprovedNodesProceed ==
    \A n \in approved :
        manifest.kind[n] = "approval" \/ n \in manifest.gated =>
            status[n] # "awaiting_approval"

\* Every call returns, whatever handlers answer and whenever it is cancelled.
EveryPassReturns == phase # "returned" ~> phase = "returned"

\* Claimed by execute_with_checkpoint: a node completed in the checkpoint is
\* replayed, and its handler is not called again.
CompletedNodesAreNotRerun == \A n \in Running : replay[n] = "none"

=============================================================================
