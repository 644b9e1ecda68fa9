------------------------- MODULE DagExecutorProofs -------------------------
(***************************************************************************)
(* What TLAPS proves of DagExecutor, for every manifest, every answer of   *)
(* the handlers, every number of passes and every moment of cancellation.  *)
(* The argument goes along the layers: those before the current one are    *)
(* decided and stay as they are, those after it are untouched, and since   *)
(* edges lead to later layers, what a node was started or skipped for      *)
(* remains true.                                                           *)
(***************************************************************************)
EXTENDS DagExecutor, TLAPS

LayerIndices == 1..Len(manifest.layers)

\* Where a call is: which nodes wait, which run, and in which phase they may.
Shape ==
    /\ phase \in {"concurrent", "serial"} => layer \in LayerIndices
    /\ phase \in {"layer", "returned"} => \A n \in Nodes : running[n] = 0
    /\ phase = "serial" =>
        /\ queue \subseteq Layer
        /\ \A n \in Nodes : running[n] > 0 => IsNext(n)
    /\ phase = "concurrent" =>
        /\ queue \subseteq Remaining /\ \A n \in queue : manifest.kind[n] = "handler"
        /\ \A n \in Nodes : running[n] > 0 => n \in Remaining /\ n \notin queue
    /\ \A n \in Nodes : running[n] > 0 => manifest.kind[n] \in {"handler", "composite"}

\* Layers before the current one are decided.
PastIsDecided ==
    \A i \in LayerIndices : i < layer => \A n \in manifest.layers[i] : status[n] # "none"

\* Later ones are untouched.
FutureIsOpen ==
    phase # "returned" => \A i \in LayerIndices :
        i > layer \/ (phase = "layer" /\ i = layer) =>
            \A n \in manifest.layers[i] : status[n] = "none" /\ reports[n] = <<>>

\* What the current one has decided.
PresentIsKnown ==
    /\ phase = "serial" => \A n \in Layer \ queue : status[n] # "none"
    /\ phase = "concurrent" =>
        /\ \A n \in Replayed : status[n] # "none"
        /\ \A n \in Remaining : status[n] = "none"
        /\ \A n \in Remaining : n \in queue \/ running[n] > 0 \/ reports[n] # <<>>

\* A decided node that is not being run again was reported with its status.
StatusIsReported ==
    \A n \in Nodes : status[n] # "none" /\ running[n] = 0 =>
        reports[n] # <<>> /\ Last(reports[n]) = status[n]

\* A node is skipped for a reason that lasts.
SkipsHaveReasons == \A n \in Nodes :
    /\ status[n] = "skipped" => Unselected(n) \/ Blocked(n)
    /\ phase = "concurrent" /\ n \in Remaining /\ reports[n] # <<>> => Last(reports[n]) # "skipped"

\* A node that waits in a concurrent layer or runs has its dependencies.
StartsAreReady == \A n \in Nodes :
    running[n] > 0 \/ (phase = "concurrent" /\ n \in queue) =>
        ~Unselected(n) /\ ~Blocked(n) /\ layer \in LayerIndices /\ n \in Layer

\* An approval that was granted is not asked for again, by the executor.
ApprovalsCount ==
    "awaiting_approval" \notin Answers =>
        \A n \in approved :
            manifest.kind[n] = "approval" \/ n \in manifest.gated =>
                /\ status[n] # "awaiting_approval"
                /\ reports[n] # <<>> => Last(reports[n]) # "awaiting_approval"

\* A report that is returned keeps its promises.
ReturnedReport ==
    phase = "returned" =>
        /\ result # "awaiting_approval" => \A n \in Nodes : reports[n] # <<>>
        /\ \A n \in Nodes : status[n] # "none" => Last(reports[n]) = status[n]
        /\ result \in Usable => \A n \in Nodes :
              status[n] # "none" /\ status[n] \in Usable \cup {"skipped"}

\* The inductive invariant.
IInv ==
    /\ TypeOK
    /\ Shape
    /\ PastIsDecided
    /\ FutureIsOpen
    /\ PresentIsKnown
    /\ StatusIsReported
    /\ SkipsHaveReasons
    /\ StartsAreReady
    /\ ApprovalsCount
    /\ ReturnedReport
    /\ phase # "returned" => result = "none"

-----------------------------------------------------------------------------

USE DEF Usable, Statuses, NoSelection, LayerIndices

LEMMA ManifestFacts ==
    ASSUME manifest \in Manifests
    PROVE  /\ manifest.kind \in [Nodes -> Kinds]
           /\ manifest.deps \in [Nodes -> SUBSET Nodes]
           /\ manifest.layers \in Seq(SUBSET Nodes)
           /\ manifest.attempts \in [Nodes -> 1..MaxAttempts]
           /\ manifest.cases \in [Nodes -> SUBSET SUBSET Nodes]
BY ManifestsAssumption

\* Edges lead to a node from earlier layers only.
LEMMA DependenciesAreEarlier ==
    ASSUME manifest \in Manifests, NEW i \in LayerIndices, NEW n \in manifest.layers[i],
           NEW d \in manifest.deps[n]
    PROVE  \E j \in LayerIndices : j < i /\ d \in manifest.layers[j]
<1>1. d \in PlacedBefore(manifest.layers, i)
    BY ManifestsAssumption DEF LayersRespectEdges
<1>2. PICK j \in 1..(i - 1) : d \in manifest.layers[j]
    BY <1>1 DEF PlacedBefore
<1>3. Len(manifest.layers) \in Nat
    BY ManifestFacts
<1> QED BY <1>2, <1>3

\* Every node has a layer, and only one.
LEMMA LayersPartition ==
    ASSUME manifest \in Manifests
    PROVE  /\ \A n \in Nodes : \E i \in LayerIndices : n \in manifest.layers[i]
           /\ \A i, j \in LayerIndices : \A n \in manifest.layers[i] :
                 n \in manifest.layers[j] => i = j
           /\ \A i \in LayerIndices : manifest.layers[i] \subseteq Nodes
<1>1. LayersRespectEdges(manifest.deps, manifest.layers) /\ manifest.layers \in Seq(SUBSET Nodes)
    BY ManifestsAssumption
<1>2. DOMAIN manifest.layers = LayerIndices
    BY <1>1
<1> QED BY <1>1, <1>2 DEF LayersRespectEdges

LEMMA ReplayLayerType ==
    ASSUME RunOK, NodesOK, ReplayLayer
    PROVE  /\ status' \in [Nodes -> Statuses \cup {"none"}]
           /\ reports' \in [Nodes -> Seq(Statuses)]
           /\ selection' \in [Nodes -> {NoSelection} \cup SUBSET Nodes]
<1>1. status' \in [Nodes -> Statuses \cup {"none"}]
    BY DEF RunOK, NodesOK, ReplayLayer
<1>2. \A n \in Replayed : n \in Nodes => replay[n] \in Statuses
    BY DEF RunOK, Replayed
<1>3. reports' \in [Nodes -> Seq(Statuses)]
    BY <1>2 DEF NodesOK, ReplayLayer
<1>4. selection' \in [Nodes -> {NoSelection} \cup SUBSET Nodes]
    BY DEF RunOK, NodesOK, ReplayLayer
<1> QED BY <1>1, <1>3, <1>4

LEMMA ReportType ==
    ASSUME NodesOK, NEW n \in Nodes, NEW t \in Statuses, Report(n, t)
    PROVE  reports' \in [Nodes -> Seq(Statuses)]
BY DEF NodesOK, Report

LEMMA AnswerType ==
    ASSUME NEW n \in Nodes, NEW t \in PossibleAnswers(n)
    PROVE  t \in Statuses \ {"skipped"}
BY AnswersAssumption DEF PossibleAnswers, ErrorStatus

LEMMA SettleType ==
    ASSUME NodesOK, PlaceOK, NEW n \in Nodes, NEW t \in Statuses, SettleNode(n, t)
    PROVE  /\ status' \in [Nodes -> Statuses \cup {"none"}]
           /\ reports' \in [Nodes -> Seq(Statuses)]
           /\ queue' \subseteq Nodes
           /\ phase' \in {"layer", "concurrent", "serial", "returned"}
           /\ result' \in Statuses \cup {"none"}
           /\ UNCHANGED <<run, checkpoint, cancelled, layer>>
BY ReportType DEF NodesOK, PlaceOK, SettleNode, Return

LEMMA TypeStep ==
    ASSUME TypeOK, Shape, PresentIsKnown, [Next]_vars
    PROVE  TypeOK'
<1> USE DEF run, checkpoint, progress
<1>1. manifest.layers \in Seq(SUBSET Nodes)
    BY ManifestFacts DEF TypeOK, RunOK
<1>2. 0 \in 0..MaxAttempts /\ 1 \in 0..MaxAttempts
    BY AttemptsAssumption
<1>0. RunOK /\ PlaceOK /\ NodesOK /\ Len(manifest.layers) \in Nat
    BY <1>1 DEF TypeOK
<1>3. CASE SkipReplayedLayer
    <2>0. layer \in LayerIndices /\ Layer \subseteq Nodes
        BY <1>0, <1>3, LayersPartition DEF RunOK, PlaceOK, SkipReplayedLayer, BeforeLayer, Layer
    <2>1. RunOK'
        BY <1>0, <1>3 DEF RunOK, SkipReplayedLayer
    <2>2. PlaceOK'
        BY <1>0, <1>3, <2>0 DEF PlaceOK, SkipReplayedLayer, Remaining
    <2>3. NodesOK'
        BY <1>0, <1>3, ReplayLayerType DEF NodesOK, SkipReplayedLayer
    <2> QED BY <2>1, <2>2, <2>3 DEF TypeOK
<1>4. CASE EnterConcurrent
    <2>0. layer \in LayerIndices /\ Layer \subseteq Nodes
        BY <1>0, <1>4, LayersPartition DEF RunOK, PlaceOK, EnterConcurrent, BeforeLayer, Layer
    <2>1. RunOK'
        BY <1>0, <1>4 DEF RunOK, EnterConcurrent
    <2>2. PlaceOK'
        BY <1>0, <1>4, <2>0 DEF PlaceOK, EnterConcurrent, Remaining
    <2>3. NodesOK'
        BY <1>0, <1>4, ReplayLayerType DEF NodesOK, EnterConcurrent
    <2> QED BY <2>1, <2>2, <2>3 DEF TypeOK
<1>5. CASE EnterSerial
    <2>0. layer \in LayerIndices /\ Layer \subseteq Nodes
        BY <1>0, <1>5, LayersPartition DEF RunOK, PlaceOK, EnterSerial, BeforeLayer, Layer
    <2>1. RunOK'
        BY <1>0, <1>5 DEF RunOK, EnterSerial
    <2>2. PlaceOK'
        BY <1>0, <1>5, <2>0 DEF PlaceOK, EnterSerial, Remaining
    <2>3. NodesOK'
        BY <1>0, <1>5, ReplayLayerType DEF NodesOK, EnterSerial
    <2> QED BY <2>1, <2>2, <2>3 DEF TypeOK
<1>6. CASE StartQueued
    <2>1. RunOK'
        BY <1>0, <1>6 DEF RunOK, StartQueued
    <2>2. PlaceOK'
        BY <1>0, <1>6 DEF PlaceOK, StartQueued
    <2>3. NodesOK'
        BY <1>0, <1>2, <1>6 DEF NodesOK, StartQueued
    <2> QED BY <2>1, <2>2, <2>3 DEF TypeOK
<1>7. CASE CollectLayer
    <2>1. RunOK'
        BY <1>0, <1>7 DEF RunOK, CollectLayer
    <2>2. PlaceOK'
        BY <1>0, <1>7 DEF PlaceOK, CollectLayer, Return, NextLayer, Shape
    <2>3. NodesOK'
        <3>1. \A n \in Remaining : n \in Nodes => Last(reports[n]) \in Statuses
            BY <1>0, <1>7 DEF NodesOK, CollectLayer, PresentIsKnown, Running, Last
        <3> QED BY <1>0, <1>7, <3>1 DEF NodesOK, CollectLayer
    <2> QED BY <2>1, <2>2, <2>3 DEF TypeOK
<1>8. CASE SerialLayerDone
    <2>1. RunOK'
        BY <1>0, <1>8 DEF RunOK, SerialLayerDone
    <2>2. PlaceOK'
        BY <1>0, <1>8 DEF PlaceOK, SerialLayerDone, NextLayer, Shape
    <2>3. NodesOK'
        BY <1>0, <1>8 DEF NodesOK, SerialLayerDone
    <2> QED BY <2>1, <2>2, <2>3 DEF TypeOK
<1>9. CASE ReturnReport
    <2>1. RunOK'
        BY <1>0, <1>9 DEF RunOK, ReturnReport
    <2>2. PlaceOK'
        BY <1>0, <1>9 DEF PlaceOK, ReturnReport, Return, OverallStatus
    <2>3. NodesOK'
        BY <1>0, <1>9 DEF NodesOK, ReturnReport
    <2> QED BY <2>1, <2>2, <2>3 DEF TypeOK
<1>10. CASE ReturnCancelled
    <2>1. RunOK'
        BY <1>0, <1>10 DEF RunOK, ReturnCancelled
    <2>2. PlaceOK'
        BY <1>0, <1>10 DEF PlaceOK, ReturnCancelled, Return
    <2>3. NodesOK'
        <3>1. reports' \in [Nodes -> Seq(Statuses)]
            <4>1. \A n \in Nodes : Append(reports[n], "skipped") \in Seq(Statuses)
                BY <1>0 DEF NodesOK
            <4> QED BY <1>0, <1>10, <4>1 DEF NodesOK, ReturnCancelled
        <3> QED BY <1>0, <1>10, <3>1 DEF NodesOK, ReturnCancelled
    <2> QED BY <2>1, <2>2, <2>3 DEF TypeOK
<1>11. CASE RequestCancel
    <2>1. RunOK'
        BY <1>0, <1>11 DEF RunOK, RequestCancel
    <2>2. PlaceOK'
        BY <1>0, <1>11 DEF PlaceOK, RequestCancel
    <2>3. NodesOK'
        BY <1>0, <1>11 DEF NodesOK, RequestCancel
    <2> QED BY <2>1, <2>2, <2>3 DEF TypeOK
<1>12. CASE Resume
    <2>1. RunOK'
        <3>1. replay' \in [Nodes -> Usable \cup {"none"}] /\ replaySel' = selection
            BY <1>12 DEF Resume
        <3>2. approved' \subseteq Nodes
            BY <1>0, <1>12 DEF RunOK, Resume, Reported
        <3>3. pass' \in 1..PassBound
            BY <1>0, <1>12, PassAssumption DEF RunOK, Resume
        <3> QED BY <1>0, <1>12, <3>1, <3>2, <3>3 DEF RunOK, NodesOK, Resume
    <2>2. PlaceOK'
        BY <1>0, <1>12 DEF PlaceOK, Resume
    <2>3. NodesOK'
        BY <1>0, <1>12, AttemptsAssumption DEF NodesOK, Resume, Idle, NoReports, None, NoSelections
    <2> QED BY <2>1, <2>2, <2>3 DEF TypeOK
<1>13. ASSUME NEW n \in Nodes, Retry(n) PROVE TypeOK'
    <2>1. RunOK'
        BY <1>0, <1>13 DEF RunOK, Retry
    <2>2. PlaceOK'
        BY <1>0, <1>13 DEF PlaceOK, Retry
    <2>3. NodesOK'
        <3>1. reports' \in [Nodes -> Seq(Statuses)]
            BY <1>0, <1>13, ReportType, AnswerType DEF Retry
        <3>2. PICK t : Retried(n, t)
            BY <1>13 DEF Retry
        <3>3. running[n] + 1 \in 0..MaxAttempts
            BY <1>0, <3>2, ManifestFacts, AttemptsAssumption DEF RunOK, NodesOK, Retried
        <3> QED BY <1>0, <1>13, <3>1, <3>3 DEF NodesOK, Retry
    <2> QED BY <2>1, <2>2, <2>3 DEF TypeOK
<1>14. ASSUME NEW n \in Nodes, AnswerConcurrent(n) PROVE TypeOK'
    <2>1. RunOK'
        BY <1>0, <1>14 DEF RunOK, AnswerConcurrent
    <2>2. PlaceOK'
        BY <1>0, <1>14 DEF PlaceOK, AnswerConcurrent
    <2>3. NodesOK'
        <3>1. reports' \in [Nodes -> Seq(Statuses)]
            BY <1>0, <1>14, ReportType, AnswerType DEF AnswerConcurrent
        <3> QED BY <1>0, <1>14, <3>1, <1>2 DEF NodesOK, AnswerConcurrent
    <2> QED BY <2>1, <2>2, <2>3 DEF TypeOK
<1>15. ASSUME NEW n \in Nodes, SkipNode(n) PROVE TypeOK'
    <2>0. PICK t \in Statuses : SettleNode(n, t)
        BY <1>15 DEF SkipNode
    <2>1. RunOK'
        BY <1>0, <2>0, SettleType DEF RunOK
    <2>2. PlaceOK'
        BY <1>0, <2>0, SettleType DEF PlaceOK
    <2>3. NodesOK'
        BY <1>0, <1>15, <2>0, SettleType, <1>2 DEF NodesOK, RunOK, SkipNode
    <2> QED BY <2>1, <2>2, <2>3 DEF TypeOK
<1>16. ASSUME NEW n \in Nodes, SelectCase(n) PROVE TypeOK'
    <2>0. PICK t \in Statuses : SettleNode(n, t)
        BY <1>16 DEF SelectCase
    <2>1. RunOK'
        BY <1>0, <2>0, SettleType DEF RunOK
    <2>2. PlaceOK'
        BY <1>0, <2>0, SettleType DEF PlaceOK
    <2>3. NodesOK'
        <3>1. selection' \in [Nodes -> {NoSelection} \cup SUBSET Nodes]
            <4>1. manifest.cases[n] \subseteq SUBSET Nodes
                BY <1>0, ManifestFacts DEF RunOK
            <4>2. PICK targets \in manifest.cases[n] : selection' = [selection EXCEPT ![n] = targets]
                BY <1>16 DEF SelectCase
            <4> QED BY <1>0, <4>1, <4>2 DEF NodesOK
        <3> QED BY <1>0, <1>16, <2>0, <3>1, SettleType DEF NodesOK, SelectCase
    <2> QED BY <2>1, <2>2, <2>3 DEF TypeOK
<1>17. ASSUME NEW n \in Nodes, SelectNothing(n) PROVE TypeOK'
    <2>0. PICK t \in Statuses : SettleNode(n, t)
        BY <1>17 DEF SelectNothing, ErrorStatus
    <2>1. RunOK'
        BY <1>0, <2>0, SettleType DEF RunOK
    <2>2. PlaceOK'
        BY <1>0, <2>0, SettleType DEF PlaceOK
    <2>3. NodesOK'
        BY <1>0, <1>17, <2>0, SettleType, <1>2 DEF NodesOK, RunOK, SelectNothing
    <2> QED BY <2>1, <2>2, <2>3 DEF TypeOK
<1>18. ASSUME NEW n \in Nodes, EvaluateGate(n) PROVE TypeOK'
    <2>0. PICK t \in Statuses : SettleNode(n, t)
        BY <1>18 DEF EvaluateGate, ErrorStatus
    <2>1. RunOK'
        BY <1>0, <2>0, SettleType DEF RunOK
    <2>2. PlaceOK'
        BY <1>0, <2>0, SettleType DEF PlaceOK
    <2>3. NodesOK'
        BY <1>0, <1>18, <2>0, SettleType, <1>2 DEF NodesOK, RunOK, EvaluateGate
    <2> QED BY <2>1, <2>2, <2>3 DEF TypeOK
<1>19. ASSUME NEW n \in Nodes, EvaluateApproval(n) PROVE TypeOK'
    <2>0. PICK t \in Statuses : SettleNode(n, t)
        BY <1>19 DEF EvaluateApproval
    <2>1. RunOK'
        BY <1>0, <2>0, SettleType DEF RunOK
    <2>2. PlaceOK'
        BY <1>0, <2>0, SettleType DEF PlaceOK
    <2>3. NodesOK'
        BY <1>0, <1>19, <2>0, SettleType, <1>2 DEF NodesOK, RunOK, EvaluateApproval
    <2> QED BY <2>1, <2>2, <2>3 DEF TypeOK
<1>20. ASSUME NEW n \in Nodes, AnswerSerial(n) PROVE TypeOK'
    <2>0. PICK t \in Statuses : SettleNode(n, t)
        BY <1>20, AnswerType DEF AnswerSerial
    <2>1. RunOK'
        BY <1>0, <2>0, SettleType DEF RunOK
    <2>2. PlaceOK'
        BY <1>0, <2>0, SettleType DEF PlaceOK
    <2>3. NodesOK'
        BY <1>0, <1>20, <2>0, SettleType, <1>2 DEF NodesOK, RunOK, AnswerSerial
    <2> QED BY <2>1, <2>2, <2>3 DEF TypeOK
<1>21. ASSUME NEW n \in Nodes, StartSerial(n) PROVE TypeOK'
    <2>1. RunOK'
        BY <1>0, <1>21 DEF RunOK, StartSerial
    <2>2. PlaceOK'
        BY <1>0, <1>21 DEF PlaceOK, StartSerial
    <2>3. NodesOK'
        BY <1>0, <1>2, <1>21 DEF NodesOK, StartSerial
    <2> QED BY <2>1, <2>2, <2>3 DEF TypeOK
<1>22. CASE UNCHANGED vars
    BY <1>0, <1>22 DEF TypeOK, RunOK, PlaceOK, NodesOK, vars
<1> QED BY <1>3, <1>4, <1>5, <1>6, <1>7, <1>8, <1>9, <1>10, <1>11, <1>12, <1>13, <1>14, <1>15, <1>16, <1>17, <1>18, <1>19, <1>20, <1>21, <1>22 DEF Next, ExecutorStep, NodeStep

-----------------------------------------------------------------------------

\* What a node of a layer so far depends on is not touched in the current one.
LEMMA ReasonsLast ==
    ASSUME manifest \in Manifests, manifest' = manifest, layer \in LayerIndices,
           NEW i \in LayerIndices, i <= layer, NEW n \in manifest.layers[i],
           \A m \in Nodes : m \notin Layer => status'[m] = status[m] /\ selection'[m] = selection[m]
    PROVE  Unselected(n)' = Unselected(n) /\ Blocked(n)' = Blocked(n)
<1>1. n \in Nodes /\ manifest.deps[n] \subseteq Nodes
    BY LayersPartition, ManifestFacts
<1>2. \A d \in manifest.deps[n] : d \notin Layer
    <2> SUFFICES ASSUME NEW d \in manifest.deps[n], d \in Layer PROVE FALSE
        OBVIOUS
    <2>1. PICK j \in LayerIndices : j < i /\ d \in manifest.layers[j]
        BY DependenciesAreEarlier
    <2>2. j = layer
        BY <2>1, LayersPartition DEF Layer
    <2> QED BY <2>1, <2>2
<1>3. \A d \in manifest.deps[n] : status'[d] = status[d] /\ selection'[d] = selection[d]
    BY <1>1, <1>2
<1> QED BY <1>3 DEF Unselected, Blocked

LEMMA ReasonsStay ==
    ASSUME UNCHANGED <<manifest, status, selection>>, NEW n \in Nodes
    PROVE  Unselected(n)' = Unselected(n) /\ Blocked(n)' = Blocked(n)
BY DEF Unselected, Blocked

\* During a pass only layers so far hold decided nodes.
LEMMA DecidedIsPlaced ==
    ASSUME RunOK, PlaceOK, FutureIsOpen, phase # "returned", NEW n \in Nodes, status[n] # "none"
    PROVE  \E i \in LayerIndices : i <= layer /\ n \in manifest.layers[i]
<1>1. PICK i \in LayerIndices : n \in manifest.layers[i]
    BY LayersPartition DEF RunOK
<1>2. ~(i > layer)
    BY <1>1 DEF FutureIsOpen
<1>3. i \in Nat /\ layer \in Nat
    BY DEF PlaceOK
<1> QED BY <1>1, <1>2, <1>3

LEMMA LastOfAppend ==
    ASSUME NEW S, NEW q \in Seq(S), NEW e \in S
    PROVE  Append(q, e) # <<>> /\ Last(Append(q, e)) = e
BY DEF Last

LEMMA ReportEffect ==
    ASSUME NodesOK, NEW n \in Nodes, NEW t \in Statuses, Report(n, t)
    PROVE  /\ reports'[n] # <<>> /\ Last(reports'[n]) = t
           /\ \A m \in Nodes : m # n => reports'[m] = reports[m]
<1>1. reports'[n] = Append(reports[n], t) /\ reports[n] \in Seq(Statuses)
    BY DEF NodesOK, Report
<1>2. \A m \in Nodes : m # n => reports'[m] = reports[m]
    BY DEF NodesOK, Report
<1> QED BY <1>1, <1>2, LastOfAppend

Conjuncts ==
    /\ Shape /\ PastIsDecided /\ FutureIsOpen /\ PresentIsKnown /\ StatusIsReported
    /\ SkipsHaveReasons /\ StartsAreReady /\ ApprovalsCount /\ ReturnedReport
    /\ phase # "returned" => result = "none"

LEMMA RunningStep ==
    ASSUME IInv, NEW n \in Nodes, StartQueued \/ Retry(n) \/ AnswerConcurrent(n) \/ StartSerial(n)
    PROVE  Conjuncts'
<1> USE DEF run, checkpoint, progress
<1>0. RunOK /\ PlaceOK /\ NodesOK /\ Conjuncts
    BY DEF IInv, TypeOK, Conjuncts
<1>a. \A m \in Nodes : Unselected(m)' = Unselected(m) /\ Blocked(m)' = Blocked(m)
    BY ReasonsStay DEF StartQueued, Retry, AnswerConcurrent, StartSerial
<1>b. UNCHANGED <<run, checkpoint, cancelled, phase, layer, status, selection, result>>
    BY DEF StartQueued, Retry, AnswerConcurrent, StartSerial
<1>c. phase \in {"concurrent", "serial"} /\ layer \in LayerIndices /\ Layer' = Layer
            /\ Replayed' = Replayed /\ Remaining' = Remaining
            /\ Remaining \subseteq Nodes
    BY <1>0, <1>b, LayersPartition DEF RunOK, Conjuncts, Shape, PlaceOK, Layer, Replayed, Remaining, StartQueued, Retry,
        AnswerConcurrent, StartSerial, CanEvaluate, AtNode
<1>1. CASE StartQueued
    <2>1. Shape'
        BY <1>0, <1>b, <1>c, <1>1 DEF Conjuncts, Shape, StartsAreReady, StartQueued, NodesOK, IsNext, Remaining, Concurrent, PresentIsKnown
    <2>2. PastIsDecided'
        BY <1>0, <1>b, <1>c DEF Conjuncts, PastIsDecided
    <2>3. FutureIsOpen'
        BY <1>0, <1>b, <1>c, <1>1 DEF Conjuncts, FutureIsOpen, StartQueued
    <2>4. PresentIsKnown'
        BY <1>0, <1>b, <1>c, <1>1 DEF Conjuncts, PresentIsKnown, StartQueued, NodesOK, IsNext
    <2>5. StatusIsReported'
        BY <1>0, <1>b, <1>c, <1>1 DEF Conjuncts, StatusIsReported, StartQueued, NodesOK
    <2>6. SkipsHaveReasons'
        BY <1>0, <1>a, <1>b, <1>c, <1>1 DEF Conjuncts, SkipsHaveReasons, StartQueued
    <2>7. StartsAreReady'
        BY <1>0, <1>a, <1>b, <1>c, <1>1 DEF Conjuncts, StartsAreReady, StartQueued, NodesOK, IsNext
    <2>8. ApprovalsCount'
        BY <1>0, <1>b, <1>c, <1>1 DEF Conjuncts, ApprovalsCount, StartQueued
    <2>9. ReturnedReport'
        BY <1>0, <1>b, <1>c DEF Conjuncts, ReturnedReport
    <2>10. (phase # "returned" => result = "none")'
        BY <1>0, <1>b DEF Conjuncts
    <2> QED BY <2>1, <2>2, <2>3, <2>4, <2>5, <2>6, <2>7, <2>8, <2>9, <2>10 DEF Conjuncts
<1>2. CASE Retry(n)
    <2>0. PICK t \in PossibleAnswers(n) : Report(n, t) /\ t \in Statuses \ {"skipped"}
                /\ (t = "awaiting_approval" => "awaiting_approval" \in Answers \/ n \in manifest.gated \ approved)
        BY <1>2, AnswerType DEF Retry, PossibleAnswers, ErrorStatus
    <2>r. /\ reports'[n] # <<>> /\ Last(reports'[n]) = t
          /\ \A m \in Nodes : m # n => reports'[m] = reports[m]
        BY <1>0, <2>0, ReportEffect
    <2>n. n \in Layer /\ manifest.kind[n] \in {"handler", "composite"}
          /\ \A i \in LayerIndices : n \in manifest.layers[i] => i = layer
        BY <1>0, <1>c, <1>2, LayersPartition DEF Conjuncts, StartsAreReady, Shape, Retry, RunOK, Layer
    <2>1. Shape'
        BY <1>0, <1>b, <1>c, <1>2 DEF Conjuncts, Shape, Retry, NodesOK, IsNext
    <2>2. PastIsDecided'
        BY <1>0, <1>b, <1>c DEF Conjuncts, PastIsDecided
    <2>3. FutureIsOpen'
        BY <1>0, <1>b, <1>c, <2>r, <2>n, LayersPartition DEF Conjuncts, FutureIsOpen, RunOK
    <2>4. PresentIsKnown'
        BY <1>0, <1>b, <1>c, <2>r, <1>2 DEF Conjuncts, PresentIsKnown, Retry, NodesOK
    <2>5. StatusIsReported'
        BY <1>0, <1>b, <1>c, <2>r, <1>2 DEF Conjuncts, StatusIsReported, PresentIsKnown, Shape, Retry, NodesOK
    <2>6. SkipsHaveReasons'
        BY <1>0, <1>a, <1>b, <1>c, <2>0, <2>r, <1>2 DEF Conjuncts, SkipsHaveReasons, Retry
    <2>7. StartsAreReady'
        BY <1>0, <1>a, <1>b, <1>c, <1>2 DEF Conjuncts, StartsAreReady, Retry, NodesOK
    <2>8. ApprovalsCount'
        BY <1>0, <1>b, <1>c, <2>0, <2>r, <2>n DEF Conjuncts, ApprovalsCount, RunOK
    <2>9. ReturnedReport'
        BY <1>0, <1>b, <1>c DEF Conjuncts, ReturnedReport
    <2>10. (phase # "returned" => result = "none")'
        BY <1>0, <1>b DEF Conjuncts
    <2> QED BY <2>1, <2>2, <2>3, <2>4, <2>5, <2>6, <2>7, <2>8, <2>9, <2>10 DEF Conjuncts
<1>3. CASE AnswerConcurrent(n)
    <2>0. PICK t \in PossibleAnswers(n) : Report(n, t) /\ t \in Statuses \ {"skipped"}
                /\ (t = "awaiting_approval" => "awaiting_approval" \in Answers \/ n \in manifest.gated \ approved)
        BY <1>3, AnswerType DEF AnswerConcurrent, PossibleAnswers, ErrorStatus
    <2>r. /\ reports'[n] # <<>> /\ Last(reports'[n]) = t
          /\ \A m \in Nodes : m # n => reports'[m] = reports[m]
        BY <1>0, <2>0, ReportEffect
    <2>n. n \in Layer /\ manifest.kind[n] \in {"handler", "composite"}
          /\ \A i \in LayerIndices : n \in manifest.layers[i] => i = layer
        BY <1>0, <1>c, <1>3, LayersPartition DEF Conjuncts, StartsAreReady, Shape, AnswerConcurrent, RunOK, Layer
    <2>1. Shape'
        BY <1>0, <1>b, <1>c, <1>3 DEF Conjuncts, Shape, AnswerConcurrent, NodesOK, IsNext
    <2>2. PastIsDecided'
        BY <1>0, <1>b, <1>c DEF Conjuncts, PastIsDecided
    <2>3. FutureIsOpen'
        BY <1>0, <1>b, <1>c, <2>r, <2>n, LayersPartition DEF Conjuncts, FutureIsOpen, RunOK
    <2>4. PresentIsKnown'
        BY <1>0, <1>b, <1>c, <2>r, <1>3 DEF Conjuncts, PresentIsKnown, AnswerConcurrent, NodesOK
    <2>5. StatusIsReported'
        BY <1>0, <1>b, <1>c, <2>r, <1>3 DEF Conjuncts, StatusIsReported, PresentIsKnown, Shape, AnswerConcurrent, NodesOK
    <2>6. SkipsHaveReasons'
        BY <1>0, <1>a, <1>b, <1>c, <2>0, <2>r, <1>3 DEF Conjuncts, SkipsHaveReasons, AnswerConcurrent
    <2>7. StartsAreReady'
        BY <1>0, <1>a, <1>b, <1>c, <1>3 DEF Conjuncts, StartsAreReady, AnswerConcurrent, NodesOK
    <2>8. ApprovalsCount'
        BY <1>0, <1>b, <1>c, <2>0, <2>r, <2>n DEF Conjuncts, ApprovalsCount, RunOK
    <2>9. ReturnedReport'
        BY <1>0, <1>b, <1>c DEF Conjuncts, ReturnedReport
    <2>10. (phase # "returned" => result = "none")'
        BY <1>0, <1>b DEF Conjuncts
    <2> QED BY <2>1, <2>2, <2>3, <2>4, <2>5, <2>6, <2>7, <2>8, <2>9, <2>10 DEF Conjuncts
<1>4. CASE StartSerial(n)
    <2>1. Shape'
        BY <1>0, <1>b, <1>c, <1>4 DEF Conjuncts, Shape, StartSerial, CanEvaluate, AtNode, Running, NodesOK, IsNext
    <2>2. PastIsDecided'
        BY <1>0, <1>b, <1>c DEF Conjuncts, PastIsDecided
    <2>3. FutureIsOpen'
        BY <1>0, <1>b, <1>c, <1>4 DEF Conjuncts, FutureIsOpen, StartSerial
    <2>4. PresentIsKnown'
        BY <1>0, <1>b, <1>c, <1>4 DEF Conjuncts, PresentIsKnown, StartSerial, CanEvaluate, AtNode
    <2>5. StatusIsReported'
        BY <1>0, <1>b, <1>c, <1>4 DEF Conjuncts, StatusIsReported, StartSerial, NodesOK
    <2>6. SkipsHaveReasons'
        BY <1>0, <1>a, <1>b, <1>c, <1>4 DEF Conjuncts, SkipsHaveReasons, StartSerial
    <2>7. StartsAreReady'
        BY <1>0, <1>a, <1>b, <1>c, <1>4 DEF Conjuncts, StartsAreReady, StartSerial, NodesOK, CanEvaluate, AtNode, IsNext, Shape
    <2>8. ApprovalsCount'
        BY <1>0, <1>b, <1>c, <1>4 DEF Conjuncts, ApprovalsCount, StartSerial
    <2>9. ReturnedReport'
        BY <1>0, <1>b, <1>c DEF Conjuncts, ReturnedReport
    <2>10. (phase # "returned" => result = "none")'
        BY <1>0, <1>b DEF Conjuncts
    <2> QED BY <2>1, <2>2, <2>3, <2>4, <2>5, <2>6, <2>7, <2>8, <2>9, <2>10 DEF Conjuncts
<1> QED BY <1>1, <1>2, <1>3, <1>4

\* A node of a serial layer is settled, evaluated or answered.
LEMMA SettleStep ==
    ASSUME IInv, NEW n \in Nodes, NEW t \in Statuses, phase = "serial", IsNext(n),
           \A m \in Nodes : m # n => running[m] = 0,
           SettleNode(n, t),
           \A m \in Nodes : running'[m] = 0,
           \A m \in Nodes : m # n => selection'[m] = selection[m],
           t = "skipped" => Unselected(n) \/ Blocked(n),
           t = "awaiting_approval" =>
              \/ "awaiting_approval" \in Answers
              \/ ~(n \in approved /\ (manifest.kind[n] = "approval" \/ n \in manifest.gated))
    PROVE  Conjuncts'
<1> USE DEF run, checkpoint, progress
<1>0. RunOK /\ PlaceOK /\ NodesOK /\ Conjuncts
    BY DEF IInv, TypeOK, Conjuncts
<1>b. /\ UNCHANGED <<run, checkpoint, cancelled, layer>>
      /\ IF t = "awaiting_approval" THEN phase' = "returned" /\ result' = t ELSE UNCHANGED <<phase, result>>
      /\ queue' = queue \ {n}
      /\ status'[n] = t /\ \A m \in Nodes : m # n => status'[m] = status[m]
    BY <1>0 DEF SettleNode, Return, NodesOK
<1>c. /\ layer \in LayerIndices /\ n \in Layer /\ Layer' = Layer /\ Layer \subseteq Nodes
      /\ \A i \in LayerIndices : n \in manifest.layers[i] => i = layer
      /\ \A i \in LayerIndices : manifest.layers[i] \subseteq Nodes
    BY <1>0, <1>b, LayersPartition DEF RunOK, Conjuncts, Shape, Layer, IsNext
<1>r. /\ reports'[n] # <<>> /\ Last(reports'[n]) = t
      /\ \A m \in Nodes : m # n => reports'[m] = reports[m]
    BY <1>0, ReportEffect DEF SettleNode
<1>1. Shape'
    BY <1>0, <1>b, <1>c DEF Conjuncts, Shape
<1>2. PastIsDecided'
    BY <1>0, <1>b, <1>c DEF Conjuncts, PastIsDecided
<1>3. FutureIsOpen'
    BY <1>0, <1>b, <1>c, <1>r DEF Conjuncts, FutureIsOpen, PlaceOK
<1>4. PresentIsKnown'
    BY <1>0, <1>b, <1>c DEF Conjuncts, PresentIsKnown
<1>5. StatusIsReported'
    BY <1>0, <1>b, <1>r DEF Conjuncts, StatusIsReported
<1>6. SkipsHaveReasons'
    <2>1. ASSUME NEW m \in Nodes, status'[m] = "skipped" PROVE (Unselected(m) \/ Blocked(m))'
        <3>1. Unselected(m) \/ Blocked(m)
            BY <1>0, <1>b, <2>1 DEF Conjuncts, SkipsHaveReasons
        <3>2. \E i \in LayerIndices : i <= layer /\ m \in manifest.layers[i]
            <4>1. CASE m = n
                BY <1>c, <4>1 DEF Layer
            <4>2. CASE m # n
                BY <1>0, <1>b, <2>1, <4>2, DecidedIsPlaced DEF Conjuncts
            <4> QED BY <4>1, <4>2
        <3>3. \A k \in Nodes : k \notin Layer => status'[k] = status[k] /\ selection'[k] = selection[k]
            BY <1>b, <1>c
        <3> QED BY <1>0, <1>b, <1>c, <3>1, <3>2, <3>3, ReasonsLast DEF RunOK
    <2> QED BY <1>b, <2>1 DEF SkipsHaveReasons
<1>7. StartsAreReady'
    BY <1>b DEF StartsAreReady
<1>8. ApprovalsCount'
    BY <1>0, <1>b, <1>r DEF Conjuncts, ApprovalsCount, RunOK
<1>9. ReturnedReport'
    BY <1>5, <1>0, <1>b, <1>r DEF Conjuncts, ReturnedReport, StatusIsReported
<1>10. (phase # "returned" => result = "none")'
    BY <1>0, <1>b DEF Conjuncts
<1> QED BY <1>1, <1>2, <1>3, <1>4, <1>5, <1>6, <1>7, <1>8, <1>9, <1>10 DEF Conjuncts

LEMMA SerialStep ==
    ASSUME IInv, NEW n \in Nodes,
           SkipNode(n) \/ SelectCase(n) \/ SelectNothing(n) \/ EvaluateGate(n)
           \/ EvaluateApproval(n) \/ AnswerSerial(n)
    PROVE  Conjuncts'
<1>0. RunOK /\ NodesOK /\ Shape
    BY DEF IInv, TypeOK
<1>1. CASE AtNode(n) /\ UNCHANGED running
    <2>1. phase = "serial" /\ IsNext(n) /\ \A m \in Nodes : running[m] = 0 /\ running'[m] = 0
        BY <1>0, <1>1 DEF AtNode, Running, NodesOK
    <2>2. \A m \in Nodes : m # n => selection'[m] = selection[m]
        BY <1>0 DEF NodesOK, SkipNode, SelectCase, SelectNothing, EvaluateGate, EvaluateApproval, AnswerSerial
    <2>3. CASE SkipNode(n)
        BY <2>1, <2>2, <2>3, SettleStep DEF SkipNode
    <2>4. CASE SelectCase(n)
        BY <2>1, <2>2, <2>4, SettleStep DEF SelectCase
    <2>5. CASE SelectNothing(n)
        BY <2>1, <2>2, <2>5, SettleStep DEF SelectNothing, ErrorStatus
    <2>6. CASE EvaluateGate(n)
        <3>1. PICK t \in {"ok", "failed", "degraded"} : SettleNode(n, t)
            BY <2>6 DEF EvaluateGate, ErrorStatus
        <3> QED BY <2>1, <2>2, <3>1, SettleStep
    <2>7. CASE EvaluateApproval(n)
        <3>1. PICK t \in {"ok", "awaiting_approval"} :
                SettleNode(n, t) /\ (t = "awaiting_approval" => n \notin approved)
            BY <2>7 DEF EvaluateApproval
        <3> QED BY <2>1, <2>2, <3>1, SettleStep
    <2>8. CASE AnswerSerial(n)
        BY <2>1, <2>8 DEF AnswerSerial
    <2> QED BY <2>3, <2>4, <2>5, <2>6, <2>7, <2>8
<1>2. CASE AnswerSerial(n)
    <2>1. PICK t \in PossibleAnswers(n) : SettleNode(n, t)
        BY <1>2 DEF AnswerSerial
    <2>2. t \in Statuses \ {"skipped"}
        BY <2>1, AnswerType
    <2>3. t = "awaiting_approval" =>
              "awaiting_approval" \in Answers \/ n \in manifest.gated \ approved
        BY <2>1 DEF PossibleAnswers, ErrorStatus
    <2>4. /\ phase = "serial" /\ IsNext(n) /\ manifest.kind[n] # "approval"
          /\ \A m \in Nodes : m # n => running[m] = 0
        BY <1>0, <1>2 DEF AnswerSerial, Shape, IsNext, NodesOK, Nodes
    <2>5. /\ \A m \in Nodes : running'[m] = 0
          /\ \A m \in Nodes : m # n => selection'[m] = selection[m]
        BY <1>0, <1>2, <2>4 DEF AnswerSerial, NodesOK
    <2> QED BY <2>1, <2>2, <2>3, <2>4, <2>5, SettleStep
<1> QED BY <1>1, <1>2 DEF SkipNode, SelectCase, SelectNothing, EvaluateGate, EvaluateApproval, CanEvaluate

\* What the reports of a checkpoint do to a layer that was untouched.
LEMMA ReplayEffect ==
    ASSUME RunOK, NodesOK, PlaceOK, FutureIsOpen, phase = "layer", layer \in LayerIndices, ReplayLayer
    PROVE  /\ \A n \in Nodes : n \notin Replayed =>
                  status'[n] = status[n] /\ reports'[n] = reports[n] /\ selection'[n] = selection[n]
           /\ \A n \in Replayed : /\ n \in Nodes /\ status'[n] = replay[n] /\ replay[n] \in Usable
                                  /\ reports'[n] # <<>> /\ Last(reports'[n]) = replay[n]
<1>1. Layer \subseteq Nodes
    BY LayersPartition DEF RunOK, Layer
<1>2. ASSUME NEW n \in Replayed
      PROVE  reports'[n] = Append(reports[n], replay[n]) /\ reports[n] \in Seq(Statuses)
             /\ n \in Nodes /\ status'[n] = replay[n] /\ replay[n] \in Usable
    BY <1>1, <1>2 DEF RunOK, NodesOK, ReplayLayer, Replayed
<1>3. ASSUME NEW n \in Nodes, n \notin Replayed
      PROVE  status'[n] = status[n] /\ reports'[n] = reports[n] /\ selection'[n] = selection[n]
    BY <1>3 DEF RunOK, NodesOK, ReplayLayer
<1>4. ASSUME NEW n \in Replayed PROVE reports'[n] # <<>> /\ Last(reports'[n]) = replay[n]
    <2>1. replay[n] \in Statuses /\ reports[n] \in Seq(Statuses)
        BY <1>2, <1>4
    <2>2. reports'[n] = Append(reports[n], replay[n])
        BY <1>2, <1>4
    <2>3. Append(reports[n], replay[n]) # <<>> /\ Last(Append(reports[n], replay[n])) = replay[n]
        BY <2>1, LastOfAppend
    <2> QED BY <2>2, <2>3
<1> QED BY <1>2, <1>3, <1>4

LEMMA EnterStep ==
    ASSUME IInv, SkipReplayedLayer \/ EnterConcurrent \/ EnterSerial
    PROVE  Conjuncts'
<1> USE DEF run, checkpoint, progress
<1>0. RunOK /\ PlaceOK /\ NodesOK /\ Conjuncts
    BY DEF IInv, TypeOK, Conjuncts
<1>b. /\ UNCHANGED <<run, checkpoint, cancelled, running, result>>
      /\ phase = "layer" /\ phase' # "returned" /\ layer \in LayerIndices /\ result = "none"
      /\ \A n \in Nodes : running[n] = 0
    BY <1>0 DEF SkipReplayedLayer, EnterConcurrent, EnterSerial, BeforeLayer, PlaceOK, Conjuncts, Shape
<1>r. /\ \A n \in Nodes : n \notin Replayed =>
             status'[n] = status[n] /\ reports'[n] = reports[n] /\ selection'[n] = selection[n]
      /\ \A n \in Replayed : /\ n \in Nodes /\ status'[n] = replay[n] /\ replay[n] \in Usable
                             /\ reports'[n] # <<>> /\ Last(reports'[n]) = replay[n]
    BY <1>0, <1>b, ReplayEffect DEF SkipReplayedLayer, EnterConcurrent, EnterSerial, Conjuncts
<1>l. /\ Layer \subseteq Nodes /\ Replayed \subseteq Layer
      /\ \A i, j \in LayerIndices : \A n \in manifest.layers[i] : n \in manifest.layers[j] => i = j
      /\ \A i \in LayerIndices : manifest.layers[i] \subseteq Nodes
      /\ \A n \in Layer : status[n] = "none" /\ reports[n] = <<>>
    BY <1>0, <1>b, LayersPartition DEF RunOK, Layer, Replayed, Conjuncts, FutureIsOpen
<1>s. \A i \in LayerIndices : \A n \in manifest.layers[i] : i <= layer =>
            Unselected(n)' = Unselected(n) /\ Blocked(n)' = Blocked(n)
    BY <1>0, <1>b, <1>r, <1>l, ReasonsLast DEF RunOK
<1>t. Len(manifest.layers) \in Nat /\ layer \in Nat
    BY <1>b, ManifestFacts, <1>0 DEF RunOK, PlaceOK
<1>5. StatusIsReported'
    BY <1>0, <1>b, <1>r DEF Conjuncts, StatusIsReported
<1>6. SkipsHaveReasons'
    <2>1. ASSUME NEW m \in Nodes, status'[m] = "skipped" PROVE (Unselected(m) \/ Blocked(m))'
        <3>1. status[m] = "skipped"
            BY <1>r, <2>1
        <3>2. PICK i \in LayerIndices : i <= layer /\ m \in manifest.layers[i]
            BY <1>0, <1>b, <3>1, DecidedIsPlaced DEF Conjuncts
        <3> QED BY <1>0, <1>s, <3>1, <3>2 DEF Conjuncts, SkipsHaveReasons
    <2>2. ASSUME NEW m \in Nodes, phase' = "concurrent", m \in Remaining' PROVE reports'[m] = <<>>
        BY <1>b, <1>r, <1>l, <2>2 DEF EnterConcurrent, SkipReplayedLayer, EnterSerial, Remaining, Replayed, Layer
    <2> QED BY <2>1, <2>2 DEF SkipsHaveReasons
<1>8. ApprovalsCount'
    BY <1>0, <1>b, <1>r DEF Conjuncts, ApprovalsCount, RunOK
<1>9. ReturnedReport' /\ (phase # "returned" => result = "none")'
    BY <1>b DEF ReturnedReport
<1>10. CASE SkipReplayedLayer
    <2>0. layer' = layer + 1 /\ phase' = "layer" /\ Layer = Replayed
        BY <1>b, <1>10, <1>l DEF SkipReplayedLayer, Remaining
    <2>1. Shape' /\ PresentIsKnown' /\ StartsAreReady'
        BY <1>0, <1>b, <2>0 DEF Shape, PresentIsKnown, StartsAreReady
    <2>2. PastIsDecided'
        <3>1. ASSUME NEW i \in LayerIndices, i < layer + 1, NEW n \in manifest.layers[i]
              PROVE  status'[n] # "none"
            <4>1. CASE i = layer
                BY <1>r, <2>0, <3>1, <4>1 DEF Layer
            <4>2. CASE i < layer
                BY <1>0, <1>r, <1>l, <3>1, <4>2 DEF Conjuncts, PastIsDecided
            <4> QED BY <1>t, <3>1, <4>1, <4>2
        <3> QED BY <1>b, <2>0, <3>1 DEF PastIsDecided
    <2>3. FutureIsOpen'
        <3>1. ASSUME NEW i \in LayerIndices, i > layer, NEW n \in manifest.layers[i]
              PROVE  status'[n] = "none" /\ reports'[n] = <<>>
            BY <1>0, <1>b, <1>r, <1>l, <1>t, <3>1 DEF Conjuncts, FutureIsOpen, Layer
        <3> QED BY <1>b, <1>t, <2>0, <3>1 DEF FutureIsOpen
    <2> QED BY <1>5, <1>6, <1>8, <1>9, <2>1, <2>2, <2>3 DEF Conjuncts
<1>11. CASE EnterConcurrent \/ EnterSerial
    <2>0. /\ layer' = layer /\ Layer' = Layer /\ Replayed' = Replayed /\ Remaining' = Remaining
          /\ phase' \in {"concurrent", "serial"}
        BY <1>b, <1>11 DEF EnterConcurrent, EnterSerial, Layer, Replayed, Remaining
    <2>1. Shape'
        BY <1>0, <1>b, <1>11, <2>0 DEF Shape, EnterConcurrent, EnterSerial, Concurrent
    <2>2. PastIsDecided'
        <3>1. ASSUME NEW i \in LayerIndices, i < layer, NEW n \in manifest.layers[i]
              PROVE  status'[n] # "none"
            BY <1>0, <1>r, <1>l, <3>1 DEF Conjuncts, PastIsDecided
        <3> QED BY <1>b, <2>0, <3>1 DEF PastIsDecided
    <2>3. FutureIsOpen'
        <3>1. ASSUME NEW i \in LayerIndices, i > layer, NEW n \in manifest.layers[i]
              PROVE  status'[n] = "none" /\ reports'[n] = <<>>
            BY <1>0, <1>b, <1>r, <1>l, <1>t, <3>1 DEF Conjuncts, FutureIsOpen, Layer
        <3> QED BY <1>b, <1>t, <2>0, <3>1 DEF FutureIsOpen
    <2>4. PresentIsKnown'
        <3>1. \A n \in Replayed : status'[n] # "none"
            BY <1>r
        <3>2. \A n \in Remaining : status'[n] = "none"
            BY <1>r, <1>l DEF Remaining
        <3>3. phase' = "concurrent" => queue' = Remaining
            BY <1>11 DEF EnterConcurrent, EnterSerial
        <3>4. phase' = "serial" => queue' = Layer
            BY <1>11 DEF EnterConcurrent, EnterSerial
        <3> QED BY <2>0, <3>1, <3>2, <3>3, <3>4 DEF PresentIsKnown
    <2>5. StartsAreReady'
        <3>1. ASSUME NEW n \in Nodes, phase' = "concurrent", n \in queue'
              PROVE  n \in Layer /\ ~Unselected(n)' /\ ~Blocked(n)'
            <4>1. n \in Layer /\ ~Unselected(n) /\ ~Blocked(n)
                BY <1>11, <3>1 DEF EnterConcurrent, EnterSerial, Concurrent, Remaining
            <4> QED BY <1>b, <1>s, <1>t, <4>1 DEF Layer
        <3> QED BY <1>b, <2>0, <3>1 DEF StartsAreReady
    <2> QED BY <1>5, <1>6, <1>8, <1>9, <2>1, <2>2, <2>3, <2>4, <2>5 DEF Conjuncts
<1> QED BY <1>10, <1>11

LEMMA CollectStep ==
    ASSUME IInv, CollectLayer
    PROVE  Conjuncts'
<1> USE DEF run, checkpoint, progress
<1>0. RunOK /\ PlaceOK /\ NodesOK /\ Conjuncts
    BY DEF IInv, TypeOK, Conjuncts
<1>b. /\ UNCHANGED <<run, checkpoint, cancelled, running, reports, selection>>
      /\ phase = "concurrent" /\ layer \in LayerIndices /\ result = "none"
      /\ \A n \in Nodes : running[n] = 0
      /\ \/ phase' = "returned" /\ result' = "awaiting_approval" /\ layer' = layer
         \/ phase' = "layer" /\ result' = result /\ layer' = layer + 1
    BY <1>0 DEF CollectLayer, Return, NextLayer, Conjuncts, Shape, Running, NodesOK
<1>l. /\ Layer \subseteq Nodes /\ Replayed \subseteq Layer /\ Remaining \subseteq Layer
      /\ \A i, j \in LayerIndices : \A n \in manifest.layers[i] : n \in manifest.layers[j] => i = j
      /\ \A i \in LayerIndices : manifest.layers[i] \subseteq Nodes
      /\ Len(manifest.layers) \in Nat /\ layer \in Nat
    BY <1>0, <1>b, LayersPartition, ManifestFacts DEF RunOK, Layer, Replayed, Remaining
<1>o. \A n \in Remaining : reports[n] # <<>> /\ Last(reports[n]) \in Statuses
    <2>1. \A n \in Remaining : reports[n] # <<>>
        BY <1>0, <1>b, <1>l DEF CollectLayer, Conjuncts, PresentIsKnown
    <2> QED BY <1>0, <1>l, <2>1 DEF NodesOK, Last
<1>r. /\ \A n \in Nodes : n \notin Remaining => status'[n] = status[n]
      /\ \A n \in Remaining : status'[n] = Last(reports[n]) /\ status'[n] # "none"
    BY <1>0, <1>l, <1>o DEF CollectLayer, NodesOK
<1>1. Shape'
    BY <1>b DEF Shape
<1>2. PastIsDecided'
    <2>1. ASSUME NEW i \in LayerIndices, i < layer, NEW n \in manifest.layers[i]
          PROVE  status'[n] # "none"
        BY <1>0, <1>r, <1>l, <2>1 DEF Conjuncts, PastIsDecided
    <2>2. \A n \in Layer : status'[n] # "none"
        BY <1>0, <1>b, <1>r, <1>l DEF Conjuncts, PresentIsKnown, Remaining
    <2> QED BY <1>b, <1>l, <2>1, <2>2 DEF PastIsDecided, Layer
<1>3. FutureIsOpen'
    <2>1. ASSUME NEW i \in LayerIndices, i > layer, NEW n \in manifest.layers[i]
          PROVE  status'[n] = "none" /\ reports'[n] = <<>>
        BY <1>0, <1>b, <1>r, <1>l, <2>1 DEF Conjuncts, FutureIsOpen, Layer
    <2> QED BY <1>b, <1>l, <2>1 DEF FutureIsOpen
<1>4. PresentIsKnown' /\ StartsAreReady'
    BY <1>b DEF PresentIsKnown, StartsAreReady
<1>5. StatusIsReported'
    BY <1>0, <1>b, <1>o, <1>r DEF Conjuncts, StatusIsReported
<1>6. SkipsHaveReasons'
    <2>1. ASSUME NEW m \in Nodes, status'[m] = "skipped" PROVE (Unselected(m) \/ Blocked(m))'
        <3>1. status[m] = "skipped"
            BY <1>0, <1>b, <1>o, <1>r, <2>1 DEF Conjuncts, SkipsHaveReasons
        <3>2. PICK i \in LayerIndices : i <= layer /\ m \in manifest.layers[i]
            BY <1>0, <1>b, <3>1, DecidedIsPlaced DEF Conjuncts
        <3>3. \A k \in Nodes : k \notin Layer => status'[k] = status[k] /\ selection'[k] = selection[k]
            BY <1>b, <1>l, <1>r
        <3>4. Unselected(m)' = Unselected(m) /\ Blocked(m)' = Blocked(m)
            BY <1>0, <1>b, <3>2, <3>3, ReasonsLast DEF RunOK
        <3> QED BY <1>0, <3>1, <3>4 DEF Conjuncts, SkipsHaveReasons
    <2> QED BY <1>b, <2>1 DEF SkipsHaveReasons
<1>8. ApprovalsCount'
    BY <1>0, <1>b, <1>o, <1>r DEF Conjuncts, ApprovalsCount, RunOK
<1>9. ReturnedReport' /\ (phase # "returned" => result = "none")'
    BY <1>5, <1>b DEF ReturnedReport, StatusIsReported
<1> QED BY <1>1, <1>2, <1>3, <1>4, <1>5, <1>6, <1>8, <1>9 DEF Conjuncts

LEMMA SerialDoneStep ==
    ASSUME IInv, SerialLayerDone
    PROVE  Conjuncts'
<1> USE DEF run, checkpoint, progress
<1>0. RunOK /\ PlaceOK /\ NodesOK /\ Conjuncts
    BY DEF IInv, TypeOK, Conjuncts
<1>b. /\ UNCHANGED <<run, checkpoint, cancelled, running, reports, status, selection, result>>
      /\ phase = "serial" /\ layer \in LayerIndices /\ phase' = "layer" /\ layer' = layer + 1
      /\ \A n \in Nodes : running[n] = 0
      /\ \A n \in Layer : status[n] # "none"
    BY <1>0 DEF SerialLayerDone, NextLayer, Conjuncts, Shape, NodesOK, IsNext, PresentIsKnown
<1>l. Len(manifest.layers) \in Nat /\ layer \in Nat
    BY <1>0, <1>b, ManifestFacts DEF RunOK
<1>a. \A m \in Nodes : Unselected(m)' = Unselected(m) /\ Blocked(m)' = Blocked(m)
    BY <1>b, ReasonsStay
<1>1. Shape' /\ PresentIsKnown' /\ StartsAreReady' /\ ReturnedReport'
    BY <1>b DEF Shape, PresentIsKnown, StartsAreReady, ReturnedReport
<1>2. PastIsDecided'
    BY <1>0, <1>b, <1>l DEF Conjuncts, PastIsDecided, Layer
<1>3. FutureIsOpen'
    BY <1>0, <1>b, <1>l DEF Conjuncts, FutureIsOpen
<1>4. StatusIsReported' /\ ApprovalsCount' /\ (phase # "returned" => result = "none")'
    BY <1>0, <1>b DEF Conjuncts, StatusIsReported, ApprovalsCount
<1>5. SkipsHaveReasons'
    BY <1>0, <1>a, <1>b DEF Conjuncts, SkipsHaveReasons
<1> QED BY <1>1, <1>2, <1>3, <1>4, <1>5 DEF Conjuncts

LEMMA ReturnStep ==
    ASSUME IInv, ReturnReport \/ ReturnCancelled
    PROVE  Conjuncts'
<1> USE DEF run, checkpoint, progress
<1>0. RunOK /\ PlaceOK /\ NodesOK /\ Conjuncts
    BY DEF IInv, TypeOK, Conjuncts
<1>b. /\ UNCHANGED <<run, checkpoint, cancelled, layer, running, status, selection>>
      /\ phase' = "returned" /\ phase # "returned" /\ phase # "concurrent"
      /\ \A n \in Nodes : running[n] = 0
    BY <1>0 DEF ReturnReport, ReturnCancelled, Return, Conjuncts, Shape, Running, NodesOK
<1>a. \A m \in Nodes : Unselected(m)' = Unselected(m) /\ Blocked(m)' = Blocked(m)
    BY <1>b, ReasonsStay
<1>d. \A n \in Nodes : status[n] # "none" =>
            reports'[n] = reports[n] /\ reports[n] # <<>> /\ Last(reports[n]) = status[n]
    BY <1>0, <1>b DEF Conjuncts, StatusIsReported, ReturnReport, ReturnCancelled, Undecided, NodesOK
<1>1. Shape' /\ FutureIsOpen' /\ PresentIsKnown' /\ StartsAreReady'
    BY <1>b DEF Shape, FutureIsOpen, PresentIsKnown, StartsAreReady
<1>2. PastIsDecided'
    BY <1>0, <1>b DEF Conjuncts, PastIsDecided
<1>3. StatusIsReported'
    BY <1>b, <1>d DEF StatusIsReported
<1>4. SkipsHaveReasons'
    BY <1>0, <1>a, <1>b DEF Conjuncts, SkipsHaveReasons
<1>5. CASE ReturnReport
    <2>1. \A n \in Nodes : status[n] # "none"
        <3>1. layer > Len(manifest.layers) /\ layer \in Nat /\ Len(manifest.layers) \in Nat
            BY <1>0, <1>5, ManifestFacts DEF ReturnReport, RunOK, PlaceOK
        <3> QED BY <1>0, <3>1, LayersPartition DEF RunOK, Conjuncts, PastIsDecided
    <2>2. ASSUME OverallStatus(FinalStatuses) \in Usable, NEW n \in Nodes
          PROVE  status[n] \in Usable \cup {"skipped"}
        <3>1. n \in Reported /\ Last(reports[n]) = status[n]
            BY <1>d, <2>1 DEF Reported
        <3>2. status[n] \in FinalStatuses
            BY <3>1 DEF FinalStatuses
        <3>3. "failed" \notin FinalStatuses /\ "awaiting_approval" \notin FinalStatuses
            BY <2>2 DEF OverallStatus
        <3>4. status[n] \in Statuses
            BY <1>0, <2>1 DEF NodesOK
        <3> QED BY <3>2, <3>3, <3>4
    <2>3. result' = OverallStatus(FinalStatuses) /\ reports' = reports
        BY <1>5 DEF ReturnReport, Return
    <2>4. ReturnedReport'
        BY <1>b, <1>d, <2>1, <2>2, <2>3 DEF ReturnedReport
    <2>5. ApprovalsCount'
        BY <1>0, <1>b, <2>3 DEF Conjuncts, ApprovalsCount
    <2> QED BY <1>b, <1>1, <1>2, <1>3, <1>4, <2>4, <2>5 DEF Conjuncts
<1>6. CASE ReturnCancelled
    <2>1. ASSUME NEW n \in Nodes, status[n] = "none"
          PROVE  reports'[n] # <<>> /\ Last(reports'[n]) = "skipped"
        <3>1. reports'[n] = Append(reports[n], "skipped") /\ reports[n] \in Seq(Statuses)
            BY <1>0, <1>6, <2>1 DEF ReturnCancelled, Undecided, NodesOK
        <3>2. Append(reports[n], "skipped") # <<>> /\ Last(Append(reports[n], "skipped")) = "skipped"
            BY <3>1, LastOfAppend
        <3> QED BY <3>1, <3>2
    <2>2. result' = "skipped"
        BY <1>6 DEF ReturnCancelled, Return
    <2>3. ReturnedReport'
        BY <1>b, <1>d, <2>1, <2>2 DEF ReturnedReport
    <2>4. ApprovalsCount'
        BY <1>0, <1>b, <1>d, <2>1 DEF Conjuncts, ApprovalsCount, RunOK
    <2> QED BY <1>b, <1>1, <1>2, <1>3, <1>4, <2>3, <2>4 DEF Conjuncts
<1> QED BY <1>5, <1>6

\* The token is set, a new pass begins, or nothing happens.
LEMMA OtherStep ==
    ASSUME IInv, RequestCancel \/ Resume \/ UNCHANGED vars
    PROVE  Conjuncts'
<1> USE DEF run, checkpoint, progress
<1>0. RunOK /\ PlaceOK /\ NodesOK /\ Conjuncts
    BY DEF IInv, TypeOK, Conjuncts
<1>1. CASE RequestCancel \/ UNCHANGED vars
    <2>0. UNCHANGED <<run, checkpoint, progress, running, reports, status, selection, result>>
        BY <1>1 DEF RequestCancel, vars
    <2>1. \A m \in Nodes : Unselected(m)' = Unselected(m) /\ Blocked(m)' = Blocked(m)
        BY <2>0, ReasonsStay
    <2>2. Layer' = Layer /\ Replayed' = Replayed /\ Remaining' = Remaining
        BY <2>0 DEF Layer, Replayed, Remaining
    <2>3. (\A m : IsNext(m)' = IsNext(m)) /\ LayerIndices' = LayerIndices
        BY <2>0 DEF IsNext
    <2>4. Shape' /\ PastIsDecided' /\ FutureIsOpen'
        BY <1>0, <2>0, <2>2, <2>3 DEF Conjuncts, Shape, PastIsDecided, FutureIsOpen
    <2>5. PresentIsKnown' /\ StatusIsReported' /\ ApprovalsCount' /\ ReturnedReport'
        BY <1>0, <2>0, <2>2 DEF Conjuncts, PresentIsKnown, StatusIsReported, ApprovalsCount, ReturnedReport
    <2>6. SkipsHaveReasons' /\ StartsAreReady'
        BY <1>0, <2>0, <2>1, <2>2, <2>3 DEF Conjuncts, SkipsHaveReasons, StartsAreReady
    <2> QED BY <1>0, <2>0, <2>4, <2>5, <2>6 DEF Conjuncts
<1>2. CASE Resume
    <2>1. /\ phase' = "layer" /\ layer' = 1 /\ result' = "none" /\ manifest' = manifest
          /\ \A n \in Nodes : running'[n] = 0 /\ reports'[n] = <<>> /\ status'[n] = "none"
        BY <1>2 DEF Resume, Idle, NoReports, None
    <2>2. Len(manifest.layers) \in Nat
        BY <1>0, ManifestFacts DEF RunOK
    <2>3. approved' \subseteq Nodes
        BY <1>0, <1>2 DEF Resume, RunOK, Reported
    <2>4. \A i \in LayerIndices : manifest.layers[i] \subseteq Nodes
        BY <1>0, LayersPartition DEF RunOK
    <2>5. Shape' /\ PastIsDecided' /\ FutureIsOpen'
        BY <2>1, <2>2, <2>4 DEF Shape, PastIsDecided, FutureIsOpen
    <2>6. PresentIsKnown' /\ StatusIsReported' /\ SkipsHaveReasons' /\ StartsAreReady'
        BY <2>1 DEF PresentIsKnown, StatusIsReported, SkipsHaveReasons, StartsAreReady
    <2>7. ApprovalsCount' /\ ReturnedReport'
        BY <2>1, <2>3 DEF ApprovalsCount, ReturnedReport
    <2> QED BY <2>1, <2>5, <2>6, <2>7 DEF Conjuncts
<1> QED BY <1>1, <1>2

LEMMA InitIsInductive == Init => IInv
<1> SUFFICES ASSUME Init PROVE IInv
    OBVIOUS
<1>1. manifest.layers \in Seq(SUBSET Nodes) /\ Len(manifest.layers) \in Nat
    BY ManifestFacts DEF Init
<1>2. RunOK
    <2>1. replay \in [Nodes -> Usable \cup {"none"}]
        BY DEF Init, None
    <2>2. replaySel \in [Nodes -> {NoSelection} \cup SUBSET Nodes]
        BY DEF Init, NoSelections
    <2>3. pass \in 1..PassBound
        BY PassAssumption DEF Init
    <2> QED BY <2>1, <2>2, <2>3 DEF Init, RunOK
<1>3. PlaceOK
    BY <1>1 DEF Init, PlaceOK
<1>4. NodesOK
    BY AttemptsAssumption DEF Init, NodesOK, None, NoSelections, NoReports, Idle
<1>5. \A i \in LayerIndices : manifest.layers[i] \subseteq Nodes
    BY LayersPartition DEF Init
<1>6. /\ phase = "layer" /\ layer = 1 /\ result = "none" /\ approved = {}
      /\ \A n \in Nodes : running[n] = 0 /\ reports[n] = <<>> /\ status[n] = "none"
    BY DEF Init, Idle, NoReports, None
<1>7. Shape /\ PastIsDecided /\ FutureIsOpen
    BY <1>1, <1>5, <1>6 DEF Shape, PastIsDecided, FutureIsOpen
<1>8. PresentIsKnown /\ StatusIsReported /\ SkipsHaveReasons /\ StartsAreReady
    BY <1>6 DEF PresentIsKnown, StatusIsReported, SkipsHaveReasons, StartsAreReady
<1>9. ApprovalsCount /\ ReturnedReport
    BY <1>6 DEF ApprovalsCount, ReturnedReport
<1> QED BY <1>2, <1>3, <1>4, <1>6, <1>7, <1>8, <1>9 DEF IInv, TypeOK

LEMMA StepIsInductive == IInv /\ [Next]_vars => IInv'
<1> SUFFICES ASSUME IInv, [Next]_vars PROVE IInv'
    OBVIOUS
<1>1. TypeOK'
    BY TypeStep DEF IInv
<1>2. ASSUME SkipReplayedLayer \/ EnterConcurrent \/ EnterSerial PROVE Conjuncts'
    BY <1>2, EnterStep
<1>3. ASSUME CollectLayer PROVE Conjuncts'
    BY <1>3, CollectStep
<1>4. ASSUME SerialLayerDone PROVE Conjuncts'
    BY <1>4, SerialDoneStep
<1>5. ASSUME ReturnReport \/ ReturnCancelled PROVE Conjuncts'
    BY <1>5, ReturnStep
<1>6. ASSUME RequestCancel \/ Resume \/ UNCHANGED vars PROVE Conjuncts'
    BY <1>6, OtherStep
<1>7. ASSUME StartQueued PROVE Conjuncts'
    <2>1. PICK n \in Nodes : IsNext(n)
        BY <1>7 DEF StartQueued
    <2> QED BY <1>7, <2>1, RunningStep
<1>8. ASSUME NEW n \in Nodes, NodeStep(n) PROVE Conjuncts'
    <2>1. CASE Retry(n) \/ AnswerConcurrent(n) \/ StartSerial(n)
        BY <2>1, RunningStep
    <2>2. CASE \/ SkipNode(n) \/ SelectCase(n) \/ SelectNothing(n) \/ EvaluateGate(n)
               \/ EvaluateApproval(n) \/ AnswerSerial(n)
        BY <2>2, SerialStep
    <2> QED BY <1>8, <2>1, <2>2 DEF NodeStep
<1>9. Conjuncts'
    BY <1>2, <1>3, <1>4, <1>5, <1>6, <1>7, <1>8 DEF Next, ExecutorStep
<1> QED BY <1>1, <1>9 DEF IInv, Conjuncts

-----------------------------------------------------------------------------

\* The invariant the theorems below follow from.
THEOREM Inductive == Spec => []IInv
<1> QED BY InitIsInductive, StepIsInductive, PTL DEF Spec

\* Every variable keeps its type: no attempt beyond the retry policy, no layer
\* beyond the plan, no status outside the enumeration.
THEOREM TypeCorrect == Spec => []TypeOK
<1>1. IInv => TypeOK
    BY DEF IInv
<1> QED BY <1>1, Inductive, PTL

\* Whatever the graph, the answers, the retries, the moment of cancellation and
\* the checkpoint: a handler is called only after all earlier layers were
\* decided and with every dependency usable and routing to it.
THEOREM StartsFollowDependencies == Spec => []StartedNodesAreReady
<1>1. ASSUME IInv PROVE StartedNodesAreReady
    <2>0. RunOK /\ PlaceOK /\ NodesOK
        BY <1>1 DEF IInv, TypeOK
    <2> SUFFICES ASSUME NEW n \in Running
                 PROVE  /\ \A i \in 1..(layer - 1), m \in Nodes :
                            m \in manifest.layers[i] => status[m] # "none"
                        /\ \A d \in manifest.deps[n] : status[d] \in Usable
                        /\ ~Unselected(n)
        BY DEF StartedNodesAreReady
    <2>1. n \in Nodes /\ running[n] > 0
        BY DEF Running
    <2>2. ~Unselected(n) /\ ~Blocked(n) /\ layer \in LayerIndices /\ n \in Layer
        BY <1>1, <2>1 DEF IInv, StartsAreReady
    <2>3. \A i \in 1..(layer - 1) : i \in LayerIndices /\ i < layer
        BY <2>0, <2>2, ManifestFacts DEF RunOK
    <2>4. ASSUME NEW d \in manifest.deps[n] PROVE status[d] \in Usable
        <3>1. PICK j \in LayerIndices : j < layer /\ d \in manifest.layers[j]
            BY <2>0, <2>2, DependenciesAreEarlier DEF RunOK, Layer
        <3>2. status[d] # "none" /\ d \in Nodes
            BY <1>1, <2>0, <3>1, LayersPartition DEF IInv, PastIsDecided, RunOK
        <3>3. status[d] \in Statuses
            BY <2>0, <3>2 DEF NodesOK
        <3> QED BY <2>2, <3>3 DEF Blocked
    <2> QED BY <1>1, <2>2, <2>3, <2>4 DEF IInv, PastIsDecided
<1> QED BY <1>1, Inductive, PTL

\* A report that claims success hides nothing, whatever was replayed into it.
THEOREM SuccessIsHonest == Spec => []SuccessIsComplete
<1>1. ASSUME IInv PROVE SuccessIsComplete
    <2>0. RunOK /\ NodesOK /\ ReturnedReport /\ SkipsHaveReasons
        BY <1>1 DEF IInv, TypeOK
    <2> SUFFICES ASSUME result \in Usable, NEW n \in Nodes
                 PROVE  /\ n \in Reported
                        /\ Last(reports[n]) \in Usable \cup {"skipped"}
                        /\ Last(reports[n]) = "skipped" =>
                            Unselected(n) \/ \E d \in manifest.deps[n] : Last(reports[d]) = "skipped"
        BY DEF SuccessIsComplete
    <2>1. phase = "returned"
        BY <1>1 DEF IInv
    <2>2. \A m \in Nodes : /\ reports[m] # <<>> /\ Last(reports[m]) = status[m]
                           /\ status[m] \in Usable \cup {"skipped"}
        BY <2>0, <2>1 DEF ReturnedReport
    <2>3. ASSUME Blocked(n) PROVE \E d \in manifest.deps[n] : Last(reports[d]) = "skipped"
        <3>1. manifest.deps[n] \subseteq Nodes
            BY <2>0, ManifestFacts DEF RunOK
        <3> QED BY <2>2, <2>3, <3>1 DEF Blocked
    <2> QED BY <2>0, <2>2, <2>3 DEF SkipsHaveReasons, Reported
<1> QED BY <1>1, Inductive, PTL

\* A report accounts for every node, unless it waits for an approval.
THEOREM ReportsAccountForNodes == Spec => []ReportIsComplete
<1>1. ASSUME IInv PROVE ReportIsComplete
    BY <1>1 DEF IInv, ReturnedReport, ReportIsComplete, Reported
<1> QED BY <1>1, Inductive, PTL

\* An approval that was granted is never asked for again, when handlers do not
\* ask on their own account.
THEOREM ApprovalsAreRemembered ==
    ASSUME "awaiting_approval" \notin Answers
    PROVE  Spec => []ApprovedNodesProceed
<1>1. IInv => ApprovedNodesProceed
    BY DEF IInv, ApprovalsCount, ApprovedNodesProceed
<1> QED BY <1>1, Inductive, PTL


-----------------------------------------------------------------------------
(***************************************************************************)
(* What a pass may not do: take back a decision, call a handler beyond its *)
(* retry policy, or go on without getting any further.                     *)
(***************************************************************************)

\* What is reported of the layers behind the current one stands: handlers that
\* answer late, replayed layers and cancellation leave it alone.
DecisionsStand ==
    [][pass' = pass =>
        \A i \in LayerIndices : i < layer => \A n \in manifest.layers[i] :
            status'[n] = status[n] /\ reports'[n] = reports[n]]_vars

\* A step of the current layer writes about its nodes only.
LEMMA StepsStayInLayer ==
    ASSUME IInv, [Next]_vars, ~ReturnCancelled, ~Resume, NEW n \in Nodes,
           status'[n] # status[n] \/ reports'[n] # reports[n]
    PROVE  layer \in LayerIndices /\ n \in Layer
<1> USE DEF run, checkpoint, progress
<1>0. RunOK /\ PlaceOK /\ NodesOK /\ Shape /\ StartsAreReady
    BY DEF IInv, TypeOK
<1>1. CASE SkipReplayedLayer \/ EnterConcurrent \/ EnterSerial
    <2>1. layer \in LayerIndices
        BY <1>0, <1>1 DEF SkipReplayedLayer, EnterConcurrent, EnterSerial, BeforeLayer, PlaceOK
    <2>2. n \in Replayed
        BY <1>0, <1>1 DEF SkipReplayedLayer, EnterConcurrent, EnterSerial, ReplayLayer, NodesOK
    <2> QED BY <2>1, <2>2 DEF Replayed
<1>2. CASE CollectLayer
    <2>1. n \in Remaining
        BY <1>0, <1>2 DEF CollectLayer, NodesOK
    <2> QED BY <1>0, <1>2, <2>1 DEF CollectLayer, Shape, Remaining
<1>3. ASSUME NEW m \in Nodes, Retry(m) \/ AnswerConcurrent(m) \/ AnswerSerial(m)
      PROVE  layer \in LayerIndices /\ n \in Layer
    <2>1. m = n
        BY <1>0, <1>3 DEF Retry, AnswerConcurrent, AnswerSerial, SettleNode, Report, NodesOK
    <2>2. running[n] > 0
        BY <1>3, <2>1 DEF Retry, AnswerConcurrent, AnswerSerial
    <2> QED BY <1>0, <2>2 DEF StartsAreReady
<1>4. ASSUME NEW m \in Nodes,
             \/ SkipNode(m) \/ SelectCase(m) \/ SelectNothing(m)
             \/ EvaluateGate(m) \/ EvaluateApproval(m)
      PROVE  layer \in LayerIndices /\ n \in Layer
    <2>1. AtNode(m) /\ \E s : SettleNode(m, s)
        BY <1>4 DEF SkipNode, SelectCase, SelectNothing, EvaluateGate, EvaluateApproval, CanEvaluate
    <2>2. m = n
        BY <1>0, <2>1 DEF SettleNode, Report, NodesOK
    <2> QED BY <1>0, <2>1, <2>2 DEF AtNode, IsNext, Shape
<1>5. CASE \/ StartQueued \/ SerialLayerDone \/ ReturnReport \/ RequestCancel
           \/ UNCHANGED vars
           \/ \E m \in Nodes : StartSerial(m)
    BY <1>5 DEF StartQueued, SerialLayerDone, ReturnReport, RequestCancel, vars, StartSerial
<1> QED BY <1>1, <1>2, <1>3, <1>4, <1>5 DEF Next, ExecutorStep, NodeStep

\* Neither a later layer nor a cancellation reaches back: what was decided and
\* reported of an earlier layer is what the report of the pass says.
THEOREM PastDecisionsStand == Spec => DecisionsStand
<1>1. ASSUME IInv, [Next]_vars, pass' = pass, NEW i \in LayerIndices, i < layer,
             NEW n \in manifest.layers[i]
      PROVE  status'[n] = status[n] /\ reports'[n] = reports[n]
    <2>0. RunOK /\ PlaceOK /\ NodesOK /\ n \in Nodes
        BY <1>1, LayersPartition DEF IInv, TypeOK, RunOK
    <2>1. CASE ReturnCancelled
        <3>1. status[n] # "none"
            BY <1>1 DEF IInv, PastIsDecided
        <3> QED BY <2>0, <2>1, <3>1 DEF ReturnCancelled, Undecided, NodesOK
    <2>2. CASE Resume
        BY <1>1, <2>0, <2>2 DEF Resume, RunOK
    <2>3. CASE ~ReturnCancelled /\ ~Resume
        <3>1. ~(layer \in LayerIndices /\ n \in Layer)
            BY <1>1, <2>0, LayersPartition DEF Layer, RunOK, PlaceOK
        <3> QED BY <1>1, <2>0, <2>3, <3>1, StepsStayInLayer
    <2> QED BY <2>1, <2>2, <2>3
<1>2. IInv /\ [Next]_vars =>
        [pass' = pass =>
            \A i \in LayerIndices : i < layer => \A n \in manifest.layers[i] :
                status'[n] = status[n] /\ reports'[n] = reports[n]]_vars
    BY <1>1
<1> QED BY <1>2, Inductive, PTL DEF Spec, DecisionsStand

\* A report for each call, and one for what was replayed: the handler of a node
\* is called no more often than its retry policy says, whatever it answers and
\* also if its result is in the checkpoint.
CallsAreBounded ==
    \A n \in Nodes :
        Len(reports[n]) <= manifest.attempts[n] + (IF replay[n] = "none" THEN 0 ELSE 1)

\* What it counts: n has reports from the checkpoint only, or one from each
\* attempt before the current one.
ReplayedReports(n) == IF replay[n] = "none" THEN 0 ELSE 1
CallsCounted ==
    /\ CallsAreBounded
    /\ \A n \in Nodes :
        /\ running[n] > 0 =>
            running[n] <= manifest.attempts[n] /\ Len(reports[n]) < running[n] + ReplayedReports(n)
        /\ phase # "returned" /\ n \in queue /\ running[n] = 0 =>
            Len(reports[n]) <= ReplayedReports(n)

LEMMA CountedReport ==
    ASSUME NodesOK, NEW n \in Nodes, NEW s \in Statuses, Report(n, s)
    PROVE  /\ Len(reports'[n]) = Len(reports[n]) + 1
           /\ \A m \in Nodes : m # n => reports'[m] = reports[m]
           /\ \A m \in Nodes : Len(reports[m]) \in Nat
<1>1. \A m \in Nodes : reports[m] \in Seq(Statuses)
    BY DEF NodesOK
<1>2. reports'[n] = Append(reports[n], s) /\ \A m \in Nodes : m # n => reports'[m] = reports[m]
    BY DEF Report, NodesOK
<1> QED BY <1>1, <1>2

\* Nodes that are entered have no reports but from the checkpoint.
LEMMA CountedEntry ==
    ASSUME IInv, CallsCounted, SkipReplayedLayer \/ EnterConcurrent \/ EnterSerial
    PROVE  CallsCounted'
<1> USE DEF run, checkpoint
<1>0. RunOK /\ PlaceOK /\ NodesOK /\ Shape /\ FutureIsOpen
    BY DEF IInv, TypeOK
<1>1. /\ phase = "layer" /\ layer \in LayerIndices /\ ReplayLayer
      /\ queue' \subseteq queue \cup Layer
      /\ UNCHANGED <<manifest, replay, running>>
    BY <1>0 DEF SkipReplayedLayer, EnterConcurrent, EnterSerial, BeforeLayer, PlaceOK, Remaining
<1>2. \A n \in Layer : reports[n] = <<>> /\ n \in Nodes
    BY <1>0, <1>1, LayersPartition DEF FutureIsOpen, Layer, RunOK
<1>3. \A n \in Nodes : reports[n] \in Seq(Statuses) /\ manifest.attempts[n] \in Nat \ {0}
    BY <1>0, ManifestFacts, AttemptsAssumption DEF NodesOK, RunOK
<1>4. \A n \in Nodes :
        /\ n \notin Replayed => reports'[n] = reports[n]
        /\ n \in Replayed => reports'[n] = Append(reports[n], replay[n]) /\ replay[n] # "none"
    BY <1>0, <1>1 DEF ReplayLayer, Replayed, NodesOK
<1>5. ASSUME NEW n \in Layer PROVE Len(reports'[n]) <= ReplayedReports(n)
    <2>1. CASE n \in Replayed
        <3>1. reports'[n] = Append(<<>>, replay[n]) /\ replay[n] # "none"
            BY <1>2, <1>4, <2>1
        <3> QED BY <3>1 DEF ReplayedReports
    <2>2. CASE n \notin Replayed
        BY <1>2, <1>4, <2>2 DEF ReplayedReports
    <2> QED BY <2>1, <2>2
<1>6. ASSUME NEW n \in Nodes \ Layer PROVE reports'[n] = reports[n]
    BY <1>4, <1>6 DEF Replayed
<1>7. \A n \in Nodes : running[n] = 0
    BY <1>0, <1>1 DEF Shape
<1>8. ASSUME NEW n \in Nodes
      PROVE  /\ Len(reports'[n]) <= manifest.attempts[n] + ReplayedReports(n)
             /\ n \in queue' => Len(reports'[n]) <= ReplayedReports(n)
    <2>0. reports'[n] \in Seq(Statuses) /\ ReplayedReports(n) \in {0, 1}
        <3>1. n \in Replayed => replay[n] \in Statuses
            BY <1>0 DEF RunOK, Replayed
        <3> QED BY <1>3, <1>4, <3>1 DEF ReplayedReports
    <2>1. CASE n \in Layer
        BY <1>3, <1>5, <2>0, <2>1
    <2>2. CASE n \notin Layer
        BY <1>1, <1>3, <1>6, <1>7, <2>0, <2>2 DEF CallsCounted, CallsAreBounded, ReplayedReports
    <2> QED BY <2>1, <2>2
<1> QED BY <1>1, <1>7, <1>8 DEF CallsCounted, CallsAreBounded, ReplayedReports

LEMMA CountedStep ==
    ASSUME IInv, CallsCounted, [Next]_vars
    PROVE  CallsCounted'
<1> USE DEF run, checkpoint, progress, ReplayedReports, CallsCounted, CallsAreBounded
<1>0. RunOK /\ PlaceOK /\ NodesOK /\ Shape /\ StartsAreReady
    BY DEF IInv, TypeOK
<1>a. \A n \in Nodes : /\ Len(reports[n]) \in Nat /\ running[n] \in Nat
                       /\ manifest.attempts[n] \in Nat \ {0}
    BY <1>0, ManifestFacts, AttemptsAssumption DEF NodesOK, RunOK
<1>1. CASE SkipReplayedLayer \/ EnterConcurrent \/ EnterSerial
    BY <1>1, CountedEntry
<1>2. CASE StartQueued
    <2>1. PICK n \in Nodes : IsNext(n) /\ running' = [running EXCEPT ![n] = 1] /\ queue' = queue \ {n}
        BY <1>2 DEF StartQueued
    <2>2. n \in queue /\ running[n] = 0
        BY <1>0, <1>2, <2>1 DEF StartQueued, IsNext, Shape, NodesOK
    <2>3. UNCHANGED <<manifest, replay, reports, phase>>
        BY <1>2 DEF StartQueued
    <2>4. phase # "returned" /\ running'[n] = 1 /\ \A m \in Nodes : m # n => running'[m] = running[m]
        BY <1>0, <1>2, <2>1 DEF StartQueued, NodesOK
    <2>5. Len(reports[n]) < running'[n] + ReplayedReports(n)
        BY <1>a, <2>2, <2>4
    <2> QED BY <1>a, <2>1, <2>3, <2>4, <2>5
<1>3. ASSUME NEW n \in Nodes, Retry(n) PROVE CallsCounted'
    <2>1. PICK s \in PossibleAnswers(n) : Retried(n, s) /\ Report(n, s)
        BY <1>3 DEF Retry
    <2>2. s \in Statuses /\ running[n] > 0 /\ running[n] < manifest.attempts[n]
        BY <1>3, <2>1, AnswerType DEF Retry, Retried
    <2>3. /\ running'[n] = running[n] + 1 /\ UNCHANGED <<manifest, replay, queue>>
          /\ \A m \in Nodes : m # n => running'[m] = running[m]
        BY <1>0, <1>3 DEF Retry, NodesOK
    <2>4. Len(reports'[n]) = Len(reports[n]) + 1 /\ \A m \in Nodes : m # n => reports'[m] = reports[m]
        BY <1>0, <2>1, <2>2, CountedReport
    <2>5. /\ Len(reports'[n]) < running'[n] + ReplayedReports(n)
          /\ Len(reports'[n]) <= manifest.attempts[n] + ReplayedReports(n)
          /\ running'[n] <= manifest.attempts[n] /\ running'[n] > 0
        BY <1>a, <2>2, <2>3, <2>4
    <2>6. UNCHANGED phase
        BY <1>3 DEF Retry
    <2> QED BY <2>3, <2>4, <2>5, <2>6
<1>4. ASSUME NEW n \in Nodes, AnswerConcurrent(n) \/ AnswerSerial(n) PROVE CallsCounted'
    <2>1. PICK s \in PossibleAnswers(n) : Report(n, s)
        BY <1>4 DEF AnswerConcurrent, AnswerSerial, SettleNode
    <2>2. s \in Statuses /\ running[n] > 0
        BY <1>4, <2>1, AnswerType DEF AnswerConcurrent, AnswerSerial
    <2>3. /\ running'[n] = 0 /\ UNCHANGED <<manifest, replay>> /\ queue' \subseteq queue
          /\ \A m \in Nodes : m # n => running'[m] = running[m]
          /\ phase \in {"concurrent", "serial"}
        BY <1>0, <1>4 DEF AnswerConcurrent, AnswerSerial, SettleNode, NodesOK
    <2>5. n \notin queue'
        BY <1>0, <1>4, <2>2 DEF AnswerConcurrent, AnswerSerial, SettleNode, Shape
    <2>4. Len(reports'[n]) = Len(reports[n]) + 1 /\ \A m \in Nodes : m # n => reports'[m] = reports[m]
        BY <1>0, <2>1, <2>2, CountedReport
    <2>6. Len(reports'[n]) <= manifest.attempts[n] + ReplayedReports(n)
        BY <1>a, <2>2, <2>4
    <2> QED BY <2>3, <2>4, <2>5, <2>6
<1>5. ASSUME NEW n \in Nodes,
             \/ SkipNode(n) \/ SelectCase(n) \/ SelectNothing(n)
             \/ EvaluateGate(n) \/ EvaluateApproval(n)
      PROVE  CallsCounted'
    <2>1. AtNode(n) /\ UNCHANGED running /\ \E s \in Statuses : SettleNode(n, s)
        BY <1>5 DEF SkipNode, SelectCase, SelectNothing, EvaluateGate, EvaluateApproval, CanEvaluate,
           ErrorStatus
    <2>2. n \in queue /\ running[n] = 0
        BY <1>0, <2>1 DEF AtNode, IsNext, Running, NodesOK
    <2>3. /\ UNCHANGED <<manifest, replay, running>> /\ queue' = queue \ {n}
          /\ phase = "serial"
        BY <2>1 DEF SettleNode, AtNode
    <2>4. Len(reports'[n]) = Len(reports[n]) + 1 /\ \A m \in Nodes : m # n => reports'[m] = reports[m]
        BY <1>0, <2>1, CountedReport DEF SettleNode
    <2> QED BY <1>a, <2>2, <2>3, <2>4
<1>6. ASSUME NEW n \in Nodes, StartSerial(n) PROVE CallsCounted'
    <2>1. n \in queue /\ running[n] = 0 /\ UNCHANGED <<manifest, replay, reports, queue, phase>>
        BY <1>0, <1>6 DEF StartSerial, CanEvaluate, AtNode, IsNext, Running, NodesOK
    <2>2. running'[n] = 1 /\ \A m \in Nodes : m # n => running'[m] = running[m]
        BY <1>0, <1>6 DEF StartSerial, NodesOK
    <2>3. phase # "returned" /\ Len(reports[n]) < running'[n] + ReplayedReports(n)
        BY <1>a, <1>6, <2>1, <2>2 DEF StartSerial, CanEvaluate, AtNode
    <2> QED BY <1>a, <2>1, <2>2, <2>3
<1>7. CASE ReturnCancelled
    <2>1. /\ \A n \in Nodes : running[n] = 0
          /\ UNCHANGED <<manifest, replay, running>> /\ phase' = "returned"
          /\ phase \in {"layer", "serial"} /\ layer \in LayerIndices
        BY <1>0, <1>7 DEF ReturnCancelled, Return, Shape, Running, NodesOK, PlaceOK
    <2>2. ASSUME NEW n \in Nodes, Undecided(n) PROVE Len(reports[n]) <= ReplayedReports(n)
        <3>1. PICK i \in LayerIndices : n \in manifest.layers[i]
            BY <1>0, LayersPartition DEF RunOK
        <3>2. i \in Nat /\ layer \in Nat /\ ~(i < layer)
            BY <2>1, <2>2, <3>1 DEF IInv, PastIsDecided, Undecided
        <3>3. CASE phase = "serial" /\ i = layer
            <4>1. n \in queue
                BY <2>2, <3>1, <3>3 DEF IInv, PresentIsKnown, Undecided, Layer
            <4> QED BY <2>1, <3>3, <4>1
        <3>4. CASE ~(phase = "serial" /\ i = layer)
            <4>1. reports[n] = <<>>
                BY <2>1, <3>1, <3>2, <3>4 DEF IInv, FutureIsOpen
            <4> QED BY <4>1
        <3> QED BY <3>3, <3>4
    <2>3. ASSUME NEW n \in Nodes
          PROVE  Len(reports'[n]) <= manifest.attempts[n] + ReplayedReports(n)
        <3>1. CASE Undecided(n)
            <4>1. reports'[n] = Append(reports[n], "skipped") /\ reports[n] \in Seq(Statuses)
                BY <1>0, <1>7, <3>1 DEF ReturnCancelled, NodesOK
            <4>2. Len(reports'[n]) = Len(reports[n]) + 1
                BY <4>1
            <4> QED BY <1>a, <2>2, <3>1, <4>2
        <3>2. CASE ~Undecided(n)
            BY <1>0, <1>7, <3>2 DEF ReturnCancelled, NodesOK
        <3> QED BY <3>1, <3>2
    <2> QED BY <2>1, <2>3
<1>8. CASE Resume
    <2>1. UNCHANGED manifest /\ queue' = {} /\ running' = Idle /\ reports' = NoReports
        BY <1>8 DEF Resume
    <2>2. \A n \in Nodes : running'[n] = 0 /\ Len(reports'[n]) = 0
        BY <2>1 DEF Idle, NoReports
    <2> QED BY <1>a, <2>1, <2>2
<1>9. CASE \/ CollectLayer \/ SerialLayerDone \/ ReturnReport \/ RequestCancel \/ UNCHANGED vars
    <2>1. /\ UNCHANGED <<manifest, replay, queue, running, reports>>
          /\ phase' = "returned" \/ phase # "returned" \/ UNCHANGED phase
        BY <1>9 DEF CollectLayer, SerialLayerDone, ReturnReport, RequestCancel, vars
    <2> QED BY <2>1
<1> QED BY <1>1, <1>2, <1>3, <1>4, <1>5, <1>6, <1>7, <1>8, <1>9 DEF Next, ExecutorStep, NodeStep

LEMMA CallsCountedAlways == Spec => []CallsCounted
<1>1. ASSUME Init PROVE CallsCounted
    <2>1. \A n \in Nodes : running[n] = 0 /\ Len(reports[n]) = 0 /\ queue = {}
        BY <1>1 DEF Init, Idle, NoReports
    <2>2. \A n \in Nodes : manifest.attempts[n] \in Nat
        BY <1>1, ManifestFacts DEF Init
    <2> QED BY <2>1, <2>2 DEF CallsCounted, CallsAreBounded
<1> QED BY <1>1, CountedStep, Inductive, PTL DEF Spec

\* In every pass, whatever handlers answer and the checkpoint holds, no handler
\* is called beyond its retry policy.
THEOREM RetriesAreBounded == Spec => []CallsAreBounded
<1>1. CallsCounted => CallsAreBounded
    BY DEF CallsCounted
<1> QED BY <1>1, CallsCountedAlways, PTL

\* What is left to do for a node of the layer: its calls, and to settle it.
WorkLeft(n) ==
    IF running[n] > 0 THEN manifest.attempts[n] - running[n] + 1
    ELSE IF n \in queue THEN manifest.attempts[n] + 1 ELSE 0

\* Every step of the executor gets a pass further: it returns, goes on to the
\* next layer, enters one, or leaves one node less to do and the others no more.
\* Layers and attempts are numbered, so that no pass goes on for ever.
Advances ==
    \/ phase' = "returned"
    \/ layer' = layer + 1
    \/ layer' = layer /\ phase = "layer" /\ phase' \in {"concurrent", "serial"}
    \/ /\ UNCHANGED <<layer, phase>>
       /\ \E n \in Nodes : WorkLeft(n)' < WorkLeft(n)
                           /\ \A m \in Nodes \ {n} : WorkLeft(m)' = WorkLeft(m)

PassesAdvance ==
    [][/\ ExecutorStep => Advances
       /\ RequestCancel => UNCHANGED <<phase, layer>> /\ \A n \in Nodes : WorkLeft(n)' = WorkLeft(n)]_vars

\* The measure is a number, so that it cannot shrink for ever.
WorkIsCounted == \A n \in Nodes : WorkLeft(n) \in Nat

\* A node has less left to do when it is called, called again or settled.
LEMMA WorkShrinks ==
    ASSUME NEW n \in Nodes, running[n] \in Nat, manifest.attempts[n] \in Nat,
           running[n] <= manifest.attempts[n], UNCHANGED manifest,
           \/ running[n] = 0 /\ n \in queue /\ running'[n] = 1
           \/ running[n] > 0 /\ running'[n] = running[n] + 1
           \/ (running[n] > 0 \/ n \in queue) /\ running'[n] = 0 /\ n \notin queue'
    PROVE  WorkLeft(n)' < WorkLeft(n)
<1>1. CASE running[n] = 0 /\ n \in queue /\ running'[n] = 1
    <2>1. WorkLeft(n) = manifest.attempts[n] + 1 /\ WorkLeft(n)' = manifest.attempts[n] - 1 + 1
        BY <1>1 DEF WorkLeft
    <2> QED BY <2>1
<1>2. CASE running[n] > 0 /\ running'[n] = running[n] + 1
    <2>1. WorkLeft(n) = manifest.attempts[n] - running[n] + 1
        BY <1>2 DEF WorkLeft
    <2>2. running'[n] > 0
        BY <1>2
    <2>3. WorkLeft(n)' = manifest.attempts[n] - (running[n] + 1) + 1
        BY <1>2, <2>2 DEF WorkLeft
    <2> QED BY <2>1, <2>3
<1>3. CASE (running[n] > 0 \/ n \in queue) /\ running'[n] = 0 /\ n \notin queue'
    <2>1. WorkLeft(n)' = 0
        BY <1>3 DEF WorkLeft
    <2>2. CASE running[n] > 0
        <3>1. WorkLeft(n) = manifest.attempts[n] - running[n] + 1
            BY <2>2 DEF WorkLeft
        <3> QED BY <2>1, <3>1
    <2>3. CASE ~(running[n] > 0)
        <3>1. WorkLeft(n) = manifest.attempts[n] + 1
            BY <1>3, <2>3 DEF WorkLeft
        <3> QED BY <2>1, <3>1
    <2> QED BY <2>2, <2>3
<1> QED BY <1>1, <1>2, <1>3

\* Of the steps of a node, each brings one node further.
LEMMA NodeAdvances ==
    ASSUME IInv, CallsCounted, NEW n \in Nodes, StartQueued \/ NodeStep(n)
    PROVE  Advances
<1> USE DEF run, checkpoint, progress
<1>0. RunOK /\ PlaceOK /\ NodesOK /\ Shape
    BY DEF IInv, TypeOK
<1>a. \A m \in Nodes : /\ running[m] \in Nat /\ manifest.attempts[m] \in Nat \ {0}
                       /\ running[m] <= manifest.attempts[m]
    BY <1>0, ManifestFacts, AttemptsAssumption DEF NodesOK, RunOK, CallsCounted
<1>1. CASE StartQueued
    <2>1. PICK m \in Nodes : IsNext(m) /\ running' = [running EXCEPT ![m] = 1] /\ queue' = queue \ {m}
        BY <1>1 DEF StartQueued
    <2>2. m \in queue /\ running[m] = 0
        BY <1>0, <1>1, <2>1 DEF StartQueued, IsNext, Shape, NodesOK
    <2>3. UNCHANGED <<manifest, layer, phase>>
        BY <1>1 DEF StartQueued
    <2>4. running'[m] = 1 /\ \A k \in Nodes : k # m => running'[k] = running[k]
        BY <1>0, <2>1 DEF NodesOK
    <2>5. WorkLeft(m)' < WorkLeft(m)
        BY <1>a, <2>2, <2>3, <2>4, WorkShrinks
    <2>6. \A k \in Nodes \ {m} : WorkLeft(k)' = WorkLeft(k)
        BY <2>1, <2>3, <2>4 DEF WorkLeft
    <2> QED BY <2>3, <2>5, <2>6 DEF Advances
<1>2. CASE Retry(n)
    <2>1. running[n] > 0 /\ running[n] < manifest.attempts[n]
        BY <1>2 DEF Retry, Retried
    <2>2. /\ UNCHANGED <<manifest, layer, phase, queue>>
          /\ running'[n] = running[n] + 1 /\ \A k \in Nodes : k # n => running'[k] = running[k]
        BY <1>0, <1>2 DEF Retry, NodesOK
    <2>3. WorkLeft(n)' < WorkLeft(n)
        BY <1>a, <2>1, <2>2, WorkShrinks
    <2>4. \A k \in Nodes \ {n} : WorkLeft(k)' = WorkLeft(k)
        BY <2>2 DEF WorkLeft
    <2> QED BY <2>2, <2>3, <2>4 DEF Advances
<1>3. CASE AnswerConcurrent(n)
    <2>1. running[n] > 0 /\ n \notin queue
        BY <1>0, <1>3 DEF AnswerConcurrent, Shape
    <2>2. /\ UNCHANGED <<manifest, layer, phase, queue>>
          /\ running'[n] = 0 /\ \A k \in Nodes : k # n => running'[k] = running[k]
        BY <1>0, <1>3 DEF AnswerConcurrent, NodesOK
    <2>3. WorkLeft(n)' < WorkLeft(n)
        BY <1>a, <2>1, <2>2, WorkShrinks
    <2>4. \A k \in Nodes \ {n} : WorkLeft(k)' = WorkLeft(k)
        BY <2>2 DEF WorkLeft
    <2> QED BY <2>2, <2>3, <2>4 DEF Advances
<1>4. CASE AnswerSerial(n)
    <2>1. running[n] > 0 /\ UNCHANGED <<manifest, layer>> /\ queue' = queue \ {n}
            /\ (phase' = "returned" \/ UNCHANGED phase)
        BY <1>4 DEF AnswerSerial, SettleNode, Return
    <2>2. running'[n] = 0 /\ \A k \in Nodes : k # n => running'[k] = running[k]
        BY <1>0, <1>4 DEF AnswerSerial, NodesOK
    <2>3. WorkLeft(n)' < WorkLeft(n)
        BY <1>a, <2>1, <2>2, WorkShrinks
    <2>4. \A k \in Nodes \ {n} : WorkLeft(k)' = WorkLeft(k)
        BY <2>1, <2>2 DEF WorkLeft
    <2> QED BY <2>1, <2>3, <2>4 DEF Advances
<1>5. CASE \/ SkipNode(n) \/ SelectCase(n) \/ SelectNothing(n)
           \/ EvaluateGate(n) \/ EvaluateApproval(n)
    <2>1. AtNode(n) /\ UNCHANGED running /\ \E s : SettleNode(n, s)
        BY <1>5 DEF SkipNode, SelectCase, SelectNothing, EvaluateGate, EvaluateApproval, CanEvaluate
    <2>2. /\ n \in queue /\ running[n] = 0
          /\ UNCHANGED <<manifest, layer, running>> /\ queue' = queue \ {n}
          /\ phase' = "returned" \/ UNCHANGED phase
        BY <1>0, <2>1 DEF AtNode, IsNext, Running, NodesOK, SettleNode, Return
    <2>3. WorkLeft(n)' < WorkLeft(n)
        BY <1>a, <2>2, WorkShrinks
    <2>4. \A k \in Nodes \ {n} : WorkLeft(k)' = WorkLeft(k)
        BY <2>2 DEF WorkLeft
    <2> QED BY <2>2, <2>3, <2>4 DEF Advances
<1>6. CASE StartSerial(n)
    <2>1. n \in queue /\ running[n] = 0 /\ UNCHANGED <<manifest, layer, phase, queue>>
        BY <1>0, <1>6 DEF StartSerial, CanEvaluate, AtNode, IsNext, Running, NodesOK
    <2>2. running'[n] = 1 /\ \A k \in Nodes : k # n => running'[k] = running[k]
        BY <1>0, <1>6 DEF StartSerial, NodesOK
    <2>3. WorkLeft(n)' < WorkLeft(n)
        BY <1>a, <2>1, <2>2, WorkShrinks
    <2>4. \A k \in Nodes \ {n} : WorkLeft(k)' = WorkLeft(k)
        BY <2>1, <2>2 DEF WorkLeft
    <2> QED BY <2>1, <2>3, <2>4 DEF Advances
<1> QED BY <1>1, <1>2, <1>3, <1>4, <1>5, <1>6 DEF NodeStep

\* No pass goes on without getting further: what EveryPassReturns needs besides
\* fairness and a step to take.
THEOREM EveryStepAdvances == Spec => []WorkIsCounted /\ PassesAdvance
<1>1. ASSUME IInv, CallsCounted PROVE WorkIsCounted
    <2>1. \A n \in Nodes : /\ running[n] \in Nat /\ manifest.attempts[n] \in Nat
                           /\ running[n] > 0 => running[n] <= manifest.attempts[n]
        BY <1>1, ManifestFacts, AttemptsAssumption DEF IInv, TypeOK, NodesOK, RunOK, CallsCounted
    <2> SUFFICES ASSUME NEW n \in Nodes PROVE WorkLeft(n) \in Nat
        BY DEF WorkIsCounted
    <2>2. /\ running[n] \in Nat /\ manifest.attempts[n] \in Nat
          /\ running[n] > 0 => running[n] <= manifest.attempts[n]
        BY <2>1
    <2>3. CASE running[n] > 0
        <3>1. manifest.attempts[n] - running[n] + 1 \in Nat
            BY <2>2, <2>3
        <3> QED BY <2>3, <3>1 DEF WorkLeft
    <2>4. CASE ~(running[n] > 0)
        BY <2>2, <2>4 DEF WorkLeft
    <2> QED BY <2>3, <2>4
<1>2. ASSUME IInv, CallsCounted, ExecutorStep PROVE Advances
    <2>1. CASE \/ SkipReplayedLayer \/ EnterConcurrent \/ EnterSerial
               \/ CollectLayer \/ SerialLayerDone \/ ReturnReport \/ ReturnCancelled
        BY <2>1 DEF SkipReplayedLayer, EnterConcurrent, EnterSerial, CollectLayer, SerialLayerDone,
           ReturnReport, ReturnCancelled, BeforeLayer, NextLayer, Return, Advances
    <2>2. CASE StartQueued
        <3>1. \E n \in Nodes : TRUE
            BY <2>2 DEF StartQueued
        <3> QED BY <1>2, <2>2, <3>1, NodeAdvances
    <2> QED BY <1>2, <2>1, <2>2, NodeAdvances DEF ExecutorStep
<1>3. ASSUME RequestCancel
      PROVE  UNCHANGED <<phase, layer>> /\ \A n \in Nodes : WorkLeft(n)' = WorkLeft(n)
    BY <1>3 DEF RequestCancel, run, progress, WorkLeft
<1>4. IInv /\ CallsCounted /\ [Next]_vars =>
        [/\ ExecutorStep => Advances
         /\ RequestCancel => UNCHANGED <<phase, layer>>
                /\ \A n \in Nodes : WorkLeft(n)' = WorkLeft(n)]_vars
    BY <1>2, <1>3
<1> QED BY <1>1, <1>4, Inductive, CallsCountedAlways, PTL DEF Spec, PassesAdvance
=============================================================================
