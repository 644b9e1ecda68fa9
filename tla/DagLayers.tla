----------------------------- MODULE DagLayers -----------------------------
(***************************************************************************)
(* DagManifest::execution_layers: peel off the nodes without remaining     *)
(* dependencies, layer after layer, until none is left or a cycle is.      *)
(* A layer is sorted by manifest order before it is pushed; nodes are      *)
(* numbered in that order, so that the set of its nodes says it all.       *)
(***************************************************************************)
EXTENDS DagManifest

VARIABLES
    deps,       \* the edges of the manifest, by target
    remaining,  \* for each node not placed yet, its dependencies not placed yet
    layers,     \* the layers so far
    outcome     \* "open", then what the function returns: "ok" or "cycle"

vars == <<deps, remaining, layers, outcome>>

Unplaced == DOMAIN remaining

TypeOK ==
    /\ deps \in [Nodes -> SUBSET Nodes]
    /\ Unplaced \subseteq Nodes
    /\ remaining \in [Unplaced -> SUBSET Nodes]
    /\ layers \in Seq(SUBSET Nodes)
    /\ outcome \in {"open", "ok", "cycle"}

\* Edges come from a validated manifest; nothing keeps them from forming cycles.
Init ==
    /\ deps \in [Nodes -> SUBSET Nodes]
    /\ remaining = deps
    /\ layers = <<>>
    /\ outcome = "open"

Ready == {n \in Unplaced : remaining[n] = {}}

\* Mutant of Without: the dependencies of the other nodes are not updated.
WithoutEntries(S) == [n \in Unplaced \ S |-> remaining[n]]

\* Nodes of S leave the map, and the dependency sets of the others.
Without(S) == [n \in Unplaced \ S |-> remaining[n] \ S]

\* Mutant of TakeLayer: one ready node at a time.
TakeNode ==
    /\ outcome = "open"
    /\ Ready # {}
    /\ \E n \in Ready :
        /\ layers' = Append(layers, {n})
        /\ remaining' = Without({n})
    /\ UNCHANGED <<deps, outcome>>

TakeLayer ==
    /\ outcome = "open"
    /\ Ready # {}
    /\ layers' = Append(layers, Ready)
    /\ remaining' = Without(Ready)
    /\ UNCHANGED <<deps, outcome>>

\* Mutant of Return: the loop has no test for a cycle.
ReturnWhenEmpty ==
    /\ outcome = "open"
    /\ Unplaced = {}
    /\ outcome' = "ok"
    /\ UNCHANGED <<deps, remaining, layers>>

\* Mutant of Return: a cycle ends the loop like an empty map.
ReturnLayers ==
    /\ outcome = "open"
    /\ Ready = {}
    /\ outcome' = "ok"
    /\ UNCHANGED <<deps, remaining, layers>>

\* The map is empty, or no node left in it is ready.
Return ==
    /\ outcome = "open"
    /\ Ready = {}
    /\ outcome' = IF Unplaced = {} THEN "ok" ELSE "cycle"
    /\ UNCHANGED <<deps, remaining, layers>>

Next == TakeLayer \/ Return

Spec == Init /\ [][Next]_vars
FairSpec == Spec /\ WF_vars(Next)

-----------------------------------------------------------------------------
(* Properties                                                              *)

\* A set of nodes each of which waits for another one of the set.
Cyclic == \E S \in SUBSET Nodes : S # {} /\ \A n \in S : deps[n] \cap S # {}

\* A manifest is rejected if and only if its edges form a cycle.
CyclesAreRejected ==
    /\ outcome = "cycle" => Cyclic
    /\ outcome = "ok" => ~Cyclic

\* The layers of an accepted manifest are what the executor relies on.
LayersAreExecutable == outcome = "ok" => LayersRespectEdges(deps, layers)

\* No node waits longer than its dependencies make it: every node of a later
\* layer has a dependency in the layer just before.
LayersAreEarliest ==
    \A i \in DOMAIN layers : i > 1 =>
        \A n \in layers[i] : deps[n] \cap layers[i - 1] # {}

\* The loop ends for every manifest.
LayeringEnds == <>(outcome # "open")

=============================================================================
