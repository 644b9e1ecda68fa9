---------------------------- MODULE DagManifest ----------------------------
(***************************************************************************)
(* What the layering of a manifest hands to its execution.  Nodes are      *)
(* numbered in the order the manifest lists them; deps[n] are the nodes    *)
(* with an edge to n.                                                      *)
(***************************************************************************)
EXTENDS Naturals, Sequences

CONSTANT NumNodes

ASSUME NodesAssumption == NumNodes \in Nat \ {0}

Nodes == 1..NumNodes

\* Every node that is in one of the first k layers.
PlacedBefore(layers, k) == UNION {layers[j] : j \in 1..(k - 1)}

\* Layers hold every node once, and edges lead from a layer to a later one.
LayersRespectEdges(deps, layers) ==
    /\ UNION {layers[i] : i \in DOMAIN layers} = Nodes
    /\ \A i, j \in DOMAIN layers : i # j => layers[i] \cap layers[j] = {}
    /\ \A i \in DOMAIN layers :
        /\ layers[i] # {}
        /\ \A n \in layers[i] : deps[n] \subseteq PlacedBefore(layers, i)

=============================================================================
