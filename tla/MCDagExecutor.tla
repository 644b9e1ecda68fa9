--------------------------- MODULE MCDagExecutor ---------------------------
(* Manifests for DagExecutor.                                              *)
EXTENDS DagExecutor

NodeCount == 5

\* Independent required handlers, to be overridden.
Plain ==
    [kind |-> [n \in 1..NodeCount |-> "handler"],
     deps |-> [n \in 1..NodeCount |-> {}],
     layers |-> <<1..NodeCount>>,
     required |-> 1..NodeCount,
     attempts |-> [n \in 1..NodeCount |-> 1],
     gated |-> {}, metered |-> {}, limit |-> 0,
     cases |-> [n \in 1..NodeCount |-> {}],
     sources |-> [n \in 1..NodeCount |-> {}],
     minUsable |-> [n \in 1..NodeCount |-> 1]]

\* A layer wider than its two permits: a retried node, an optional one and a
\* tool that needs approval.
Wide ==
    [Plain EXCEPT !.deps = <<{}, {1}, {1}, {1}, {2, 3, 4}>>,
                  !.layers = <<{1}, {2, 3, 4}, {5}>>,
                  !.required = {1, 2, 4, 5},
                  !.attempts = <<1, 2, 1, 1, 1>>,
                  !.gated = {4},
                  !.limit = 2]

\* A branch over a handler and a loop, and a gate behind one of its arms.
Routed ==
    [Plain EXCEPT !.kind = <<"branch", "handler", "composite", "gate", "handler">>,
                  !.deps = <<{}, {1}, {1}, {2}, {4}>>,
                  !.layers = <<{1}, {2, 3}, {4}, {5}>>,
                  !.required = {2, 4, 5},
                  !.cases[1] = {{2}, {3}},
                  !.sources[4] = {2, 3},
                  !.minUsable[4] = 2]

\* An approval node in the layer of a handler, and a metered tool.
Mixed ==
    [Plain EXCEPT !.kind[2] = "approval",
                  !.deps = <<{}, {}, {1, 2}, {1}, {3, 4}>>,
                  !.layers = <<{1, 2}, {3, 4}, {5}>>,
                  !.attempts[1] = 2,
                  !.required = {1, 2, 3, 5},
                  !.gated = {3},
                  !.metered = {4}]

AllManifests == {Wide, Routed, Mixed}
OnlyMixed == {Mixed}
OnlyWide == {Wide}

=============================================================================
