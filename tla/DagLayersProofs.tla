-------------------------- MODULE DagLayersProofs --------------------------
(***************************************************************************)
(* Layering is right for every manifest: what it returns is what the       *)
(* executor relies on, and it rejects the manifests with a cycle, exactly. *)
(***************************************************************************)
EXTENDS DagLayers, FiniteSetTheorems, TLAPS

\* The nodes placed so far.
Placed == UNION {layers[j] : j \in DOMAIN layers}

\* The map holds the nodes not placed, with what they still wait for.
MapIsExact ==
    /\ Unplaced = Nodes \ Placed
    /\ \A n \in Unplaced : remaining[n] = deps[n] \ Placed

\* Layers are disjoint and not empty, and lie behind their dependencies.
LayersAreOrdered ==
    /\ \A i, j \in DOMAIN layers : i # j => layers[i] \cap layers[j] = {}
    /\ \A i \in DOMAIN layers :
        /\ layers[i] # {}
        /\ \A n \in layers[i] : deps[n] \subseteq PlacedBefore(layers, i)

\* No set of placed nodes is a cycle.
PlacedIsAcyclic ==
    \A S \in SUBSET Placed : S # {} => \E n \in S : deps[n] \cap S = {}

\* The loop stops when the map is empty, or when nothing in it is ready.
OutcomeIsJustified ==
    /\ outcome = "ok" => Unplaced = {}
    /\ outcome = "cycle" => Unplaced # {} /\ Ready = {}

\* A node became ready because the last layer was placed.
ReadyWaitedForLast ==
    layers # <<>> => \A n \in Ready : deps[n] \cap layers[Len(layers)] # {}

IInv ==
    /\ TypeOK
    /\ MapIsExact
    /\ LayersAreOrdered
    /\ PlacedIsAcyclic
    /\ ReadyWaitedForLast
    /\ LayersAreEarliest
    /\ OutcomeIsJustified

-----------------------------------------------------------------------------

\* What one more layer adds to the nodes placed.
LEMMA AppendedLayer ==
    ASSUME NEW s \in Seq(SUBSET Nodes), NEW S \in SUBSET Nodes
    PROVE  LET t == Append(s, S)
           IN  /\ t \in Seq(SUBSET Nodes)
               /\ DOMAIN t = DOMAIN s \cup {Len(s) + 1}
               /\ t[Len(s) + 1] = S
               /\ \A i \in DOMAIN s : t[i] = s[i]
               /\ UNION {t[j] : j \in DOMAIN t}
                    = (UNION {s[j] : j \in DOMAIN s}) \cup S
               /\ \A i \in DOMAIN s : PlacedBefore(t, i) = PlacedBefore(s, i)
               /\ PlacedBefore(t, Len(s) + 1) = UNION {s[j] : j \in DOMAIN s}
<1> DEFINE t == Append(s, S)
<1>1. t \in Seq(SUBSET Nodes) /\ DOMAIN t = DOMAIN s \cup {Len(s) + 1}
      /\ t[Len(s) + 1] = S /\ \A i \in DOMAIN s : t[i] = s[i]
  OBVIOUS
<1>2. UNION {t[j] : j \in DOMAIN t} = (UNION {s[j] : j \in DOMAIN s}) \cup S
  <2>1. {t[j] : j \in DOMAIN t} = {s[j] : j \in DOMAIN s} \cup {S}
    BY <1>1
  <2> QED BY <2>1
<1>3. ASSUME NEW i \in DOMAIN s PROVE PlacedBefore(t, i) = PlacedBefore(s, i)
  <2>1. \A j \in 1..(i - 1) : j \in DOMAIN s
    OBVIOUS
  <2>2. {t[j] : j \in 1..(i - 1)} = {s[j] : j \in 1..(i - 1)}
    BY <1>1, <2>1
  <2> QED BY <2>2 DEF PlacedBefore
<1>4. PlacedBefore(t, Len(s) + 1) = UNION {s[j] : j \in DOMAIN s}
  <2>1. 1..((Len(s) + 1) - 1) = DOMAIN s
    OBVIOUS
  <2>2. {t[j] : j \in DOMAIN s} = {s[j] : j \in DOMAIN s}
    BY <1>1
  <2> QED BY <2>1, <2>2 DEF PlacedBefore
<1> QED BY <1>1, <1>2, <1>3, <1>4

LEMMA InitEstablishesIInv == Init => IInv
<1> SUFFICES ASSUME Init PROVE IInv
  OBVIOUS
<1>1. DOMAIN layers = {} /\ Placed = {} /\ Unplaced = Nodes
  BY DEF Init, Placed, Unplaced
<1>2. TypeOK
  BY <1>1 DEF Init, TypeOK, Unplaced
<1> QED BY <1>1, <1>2 DEF Init, IInv, MapIsExact, LayersAreOrdered,
     PlacedIsAcyclic, ReadyWaitedForLast, LayersAreEarliest, OutcomeIsJustified,
     Unplaced

\* A layer of ready nodes extends what was placed, and nothing waits for it.
LEMMA TakeLayerStep ==
    ASSUME IInv, TakeLayer
    PROVE  IInv'
<1> USE DEF TakeLayer
<1>1. Ready \subseteq Unplaced /\ Ready \in SUBSET Nodes /\ Ready # {}
  BY DEF IInv, TypeOK, Ready
<1>2. Placed' = Placed \cup Ready
  BY <1>1, AppendedLayer DEF IInv, TypeOK, Placed
<1>3. Unplaced' = Unplaced \ Ready
      /\ \A n \in Unplaced' : remaining'[n] = remaining[n] \ Ready
  BY <1>1 DEF Without, Unplaced
<1>4. \A n \in Ready : deps[n] \subseteq Placed
  BY DEF IInv, MapIsExact, Ready
<1>5. TypeOK'
  <2>1. layers' \in Seq(SUBSET Nodes)
    BY <1>1, AppendedLayer DEF IInv, TypeOK
  <2>2. remaining' \in [Unplaced' -> SUBSET Nodes]
    BY <1>1 DEF IInv, TypeOK, Without, Unplaced
  <2> QED BY <1>3, <2>1, <2>2 DEF IInv, TypeOK
<1>6. MapIsExact'
  BY <1>2, <1>3 DEF IInv, MapIsExact
<1>7. LayersAreOrdered'
  <2> DEFINE k == Len(layers) + 1
  <2>1. /\ DOMAIN layers' = DOMAIN layers \cup {k} /\ layers'[k] = Ready
        /\ \A i \in DOMAIN layers : layers'[i] = layers[i]
        /\ \A i \in DOMAIN layers : PlacedBefore(layers', i) = PlacedBefore(layers, i)
    <3>1. layers \in Seq(SUBSET Nodes) /\ layers' = Append(layers, Ready)
      BY DEF IInv, TypeOK
    <3> QED BY <1>1, <3>1, AppendedLayer
  <2>2. PlacedBefore(layers', k) = Placed
    BY <1>1, AppendedLayer DEF IInv, TypeOK, Placed
  <2>3. \A i \in DOMAIN layers : layers[i] \cap Ready = {}
    BY <1>1 DEF IInv, MapIsExact, Placed
  <2>4. \A i, j \in DOMAIN layers' : i # j => layers'[i] \cap layers'[j] = {}
    BY <2>1, <2>3 DEF IInv, LayersAreOrdered
  <2>5. ASSUME NEW i \in DOMAIN layers'
        PROVE  /\ layers'[i] # {}
               /\ \A n \in layers'[i] : deps'[n] \subseteq PlacedBefore(layers', i)
    <3>1. CASE i \in DOMAIN layers
      BY <3>1, <2>1 DEF IInv, LayersAreOrdered
    <3>2. CASE i = k
      BY <3>2, <1>1, <1>4, <2>1, <2>2
    <3> QED BY <2>1, <3>1, <3>2
  <2> HIDE DEF k
  <2> QED BY <2>4, <2>5 DEF LayersAreOrdered
<1>8. PlacedIsAcyclic'
  <2> SUFFICES ASSUME NEW S \in SUBSET Placed', S # {}
               PROVE  \E n \in S : deps[n] \cap S = {}
    BY DEF PlacedIsAcyclic
  <2>1. CASE S \cap Placed = {}
    BY <2>1, <1>2, <1>4
  <2>2. CASE S \cap Placed # {}
    <3>1. PICK n \in S \cap Placed : deps[n] \cap (S \cap Placed) = {}
      BY <2>2 DEF IInv, PlacedIsAcyclic
    <3>2. deps[n] \subseteq Placed
      <4>1. PICK i \in DOMAIN layers : n \in layers[i]
        BY <3>1 DEF Placed
      <4>2. deps[n] \subseteq PlacedBefore(layers, i)
        BY <4>1 DEF IInv, LayersAreOrdered
      <4>3. 1..(i - 1) \subseteq DOMAIN layers
        BY <4>1 DEF IInv, TypeOK
      <4> QED BY <4>2, <4>3 DEF PlacedBefore, Placed
    <3> QED BY <3>1, <3>2
  <2> QED BY <2>1, <2>2
<1>9. OutcomeIsJustified'
  BY DEF OutcomeIsJustified
<1>10. ReadyWaitedForLast'
  <2>1. Len(layers') = Len(layers) + 1 /\ layers'[Len(layers) + 1] = Ready
    BY <1>1 DEF IInv, TypeOK
  <2>2. ASSUME NEW n \in Ready' PROVE deps[n] \cap Ready # {}
    <3>1. n \in Unplaced /\ n \notin Ready /\ remaining[n] \ Ready = {}
      BY <1>3, <2>2 DEF Ready, Unplaced
    <3>2. remaining[n] # {} /\ remaining[n] \subseteq deps[n]
      BY <3>1 DEF IInv, MapIsExact, Ready
    <3> QED BY <3>1, <3>2
  <2> QED BY <2>1, <2>2 DEF ReadyWaitedForLast
<1>11. LayersAreEarliest'
  <2> DEFINE k == Len(layers) + 1
  <2>1. layers \in Seq(SUBSET Nodes) /\ layers' = Append(layers, Ready)
    BY DEF IInv, TypeOK
  <2>2. DOMAIN layers' = DOMAIN layers \cup {k} /\ layers'[k] = Ready
        /\ \A i \in DOMAIN layers : layers'[i] = layers[i]
    BY <1>1, <2>1, AppendedLayer
  <2>3. ASSUME NEW i \in DOMAIN layers', i > 1, NEW n \in layers'[i]
        PROVE  deps[n] \cap layers'[i - 1] # {}
    <3>1. i - 1 \in DOMAIN layers
      BY <2>1, <2>2, <2>3
    <3>2. CASE i \in DOMAIN layers
      BY <2>2, <2>3, <3>1, <3>2 DEF IInv, LayersAreEarliest
    <3>3. CASE i = k
      BY <2>1, <2>2, <2>3, <3>1, <3>3 DEF IInv, ReadyWaitedForLast
    <3> QED BY <2>2, <3>2, <3>3
  <2> QED BY <2>3 DEF LayersAreEarliest
<1> QED BY <1>5, <1>6, <1>7, <1>8, <1>9, <1>10, <1>11 DEF IInv

LEMMA ReturnStep ==
    ASSUME IInv, Return
    PROVE  IInv'
<1>1. Unplaced' = Unplaced /\ Placed' = Placed /\ Ready' = Ready
  BY DEF Return, Unplaced, Placed, Ready
<1>2. OutcomeIsJustified'
  BY <1>1 DEF Return, OutcomeIsJustified
<1>3. TypeOK' /\ MapIsExact' /\ LayersAreOrdered' /\ PlacedIsAcyclic'
  BY <1>1 DEF IInv, Return, TypeOK, MapIsExact, LayersAreOrdered, PlacedIsAcyclic
<1>4. ReadyWaitedForLast' /\ LayersAreEarliest'
  BY <1>1 DEF IInv, Return, ReadyWaitedForLast, LayersAreEarliest
<1> QED BY <1>2, <1>3, <1>4 DEF IInv

\* The invariant of the loop of execution_layers.
THEOREM Inductive == Spec => []IInv
<1>1. ASSUME IInv, UNCHANGED vars PROVE IInv'
  <2>1. Unplaced' = Unplaced /\ Placed' = Placed /\ Ready' = Ready
    BY <1>1 DEF vars, Unplaced, Placed, Ready
  <2>2. TypeOK' /\ MapIsExact' /\ OutcomeIsJustified'
    BY <1>1, <2>1 DEF vars, IInv, TypeOK, MapIsExact, OutcomeIsJustified
  <2>3. LayersAreOrdered' /\ PlacedIsAcyclic'
    BY <1>1, <2>1 DEF vars, IInv, LayersAreOrdered, PlacedIsAcyclic
  <2>4. ReadyWaitedForLast' /\ LayersAreEarliest'
    BY <1>1, <2>1 DEF vars, IInv, ReadyWaitedForLast, LayersAreEarliest
  <2> QED BY <2>2, <2>3, <2>4 DEF IInv
<1>2. IInv /\ [Next]_vars => IInv'
  BY <1>1, TakeLayerStep, ReturnStep DEF Next
<1> QED BY <1>2, InitEstablishesIInv, PTL DEF Spec

-----------------------------------------------------------------------------

\* The layers of an accepted manifest hold every node exactly once, each behind
\* all of its dependencies: the assumption DagExecutor makes of its manifests.
THEOREM AcceptedLayersAreExecutable == Spec => []LayersAreExecutable
<1>1. ASSUME IInv, outcome = "ok" PROVE LayersRespectEdges(deps, layers)
  <2>1. Placed = Nodes
    <3>1. Placed \subseteq Nodes
      BY <1>1 DEF IInv, TypeOK, Placed
    <3> QED BY <1>1, <3>1 DEF IInv, MapIsExact, OutcomeIsJustified
  <2> QED BY <1>1, <2>1 DEF IInv, LayersAreOrdered, LayersRespectEdges, Placed
<1>2. IInv => LayersAreExecutable
  BY <1>1 DEF LayersAreExecutable
<1> QED BY <1>2, Inductive, PTL

\* A manifest is rejected if and only if its edges form a cycle.
THEOREM RejectsExactlyCycles == Spec => []CyclesAreRejected
<1>1. ASSUME IInv, outcome = "cycle" PROVE Cyclic
  <2>1. Unplaced \in SUBSET Nodes /\ Unplaced # {}
    BY <1>1 DEF IInv, TypeOK, OutcomeIsJustified
  <2>2. \A n \in Unplaced : deps[n] \cap Unplaced # {}
    <3> SUFFICES ASSUME NEW n \in Unplaced PROVE deps[n] \cap Unplaced # {}
      OBVIOUS
    <3>1. remaining[n] # {}
      BY <1>1 DEF IInv, OutcomeIsJustified, Ready
    <3>2. remaining[n] = deps[n] \ Placed /\ deps[n] \subseteq Nodes
      BY <1>1, <2>1 DEF IInv, TypeOK, MapIsExact
    <3> QED BY <1>1, <3>1, <3>2 DEF IInv, MapIsExact
  <2> QED BY <2>1, <2>2 DEF Cyclic
<1>2. ASSUME IInv, outcome = "ok" PROVE ~Cyclic
  <2>1. Nodes \subseteq Placed
    BY <1>2 DEF IInv, MapIsExact, OutcomeIsJustified
  <2> QED BY <1>2, <2>1 DEF IInv, PlacedIsAcyclic, Cyclic
<1>3. IInv => CyclesAreRejected
  BY <1>1, <1>2 DEF CyclesAreRejected
<1> QED BY <1>3, Inductive, PTL

\* No node is placed later than its dependencies require.
THEOREM LayersAreMinimal == Spec => []LayersAreEarliest
<1>1. IInv => LayersAreEarliest
  BY DEF IInv
<1> QED BY <1>1, Inductive, PTL

\* The loop makes at most one turn per node: what LayeringEnds needs besides
\* fairness, for every manifest, with a cycle or without.
TurnsAreBounded == Len(layers) <= NumNodes

\* Every layer takes a node away from the ones not placed.
TurnsAreCounted == IsFiniteSet(Unplaced) /\ Len(layers) + Cardinality(Unplaced) <= NumNodes

LEMMA TurnsStep ==
    ASSUME IInv, TurnsAreCounted, TakeLayer
    PROVE  TurnsAreCounted'
<1>1. Ready \subseteq Unplaced /\ Ready # {} /\ layers \in Seq(SUBSET Nodes)
  BY DEF IInv, TypeOK, Ready, TakeLayer
<1>2. Unplaced' = Unplaced \ Ready
  BY DEF TakeLayer, Without, Unplaced
<1>3. PICK n \in Ready : TRUE
  BY <1>1
<1>4. /\ IsFiniteSet(Unplaced \ {n}) /\ Cardinality(Unplaced \ {n}) = Cardinality(Unplaced) - 1
  BY <1>1, <1>3, FS_RemoveElement DEF TurnsAreCounted
<1>5. IsFiniteSet(Unplaced') /\ Cardinality(Unplaced') <= Cardinality(Unplaced \ {n})
  <2>1. Unplaced' \subseteq Unplaced \ {n}
    BY <1>2, <1>3
  <2> QED BY <1>4, <2>1, FS_Subset
<1>6. Cardinality(Unplaced) \in Nat /\ Cardinality(Unplaced') \in Nat /\ NumNodes \in Nat
  BY <1>5, FS_CardinalityType, NodesAssumption DEF TurnsAreCounted
<1>7. Len(layers') = Len(layers) + 1 /\ Len(layers) \in Nat
  <2>1. layers' = Append(layers, Ready)
    BY DEF TakeLayer
  <2> QED BY <1>1, <2>1
<1> QED BY <1>4, <1>5, <1>6, <1>7 DEF TurnsAreCounted

\* Every turn of the loop places a node, whatever the graph, cycles included.
THEOREM LayeringIsBounded == Spec => []TurnsAreBounded
<1>1. ASSUME Init PROVE TurnsAreCounted
  <2>1. Unplaced = 1..NumNodes /\ Len(layers) = 0
    BY <1>1 DEF Init, Unplaced, Nodes
  <2>2. IsFiniteSet(1..NumNodes) /\ Cardinality(1..NumNodes) = NumNodes
    BY FS_Interval, NodesAssumption
  <2> QED BY <2>1, <2>2, NodesAssumption DEF TurnsAreCounted
<1>2. ASSUME IInv, TurnsAreCounted, [Next]_vars PROVE TurnsAreCounted'
  <2>1. CASE TakeLayer
    BY <1>2, <2>1, TurnsStep
  <2>2. CASE Return \/ UNCHANGED vars
    <3>1. UNCHANGED <<layers, remaining>>
      BY <2>2 DEF Return, vars
    <3> QED BY <1>2, <3>1 DEF TurnsAreCounted, Unplaced
  <2> QED BY <1>2, <2>1, <2>2 DEF Next
<1>3. ASSUME IInv, TurnsAreCounted PROVE TurnsAreBounded
  <2>1. Cardinality(Unplaced) \in Nat /\ Len(layers) \in Nat /\ NumNodes \in Nat
    BY <1>3, FS_CardinalityType, NodesAssumption DEF TurnsAreCounted, IInv, TypeOK
  <2> QED BY <1>3, <2>1 DEF TurnsAreCounted, TurnsAreBounded
<1> QED BY <1>1, <1>2, <1>3, Inductive, PTL DEF Spec
=============================================================================
