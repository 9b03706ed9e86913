------------------------ MODULE ExecutionGraphProofs ------------------------
(***************************************************************************)
(* What the operators on a plan return, for every plan: which node comes   *)
(* next, and what a failure skips.                                         *)
(***************************************************************************)
EXTENDS ExecutionGraph, WellFoundedInduction, TLAPS

(* A set of naturals that is not empty has a least member.                 *)
LEMMA LeastOf ==
    ASSUME NEW S \in SUBSET Nat, S # {}
    PROVE  \E k \in S : \A j \in S : k <= j
  <1>1. PICK k \in S : \A j \in S : <<j, k>> \notin OpToRel(<, Nat)
    <2>1. IsWellFoundedOn(OpToRel(<, Nat), Nat)
      BY NatLessThanWellFounded
    <2> DEFINE R == OpToRel(<, Nat)
    <2> HIDE DEF R
    <2>2. IsWellFoundedOn(R, Nat)
      BY <2>1 DEF R
    <2>3. \E k \in S : \A j \in S : ~ (<<j, k>> \in R)
      BY <2>2, WFMin
    <2> QED
      BY <2>3 DEF R
  <1>2. ASSUME NEW j \in S
        PROVE  k <= j
    <2>1. ~ (j < k)
      BY <1>1 DEF OpToRel
    <2> QED
      BY <2>1
  <1> QED
    BY <1>2

LEMMA NodesAreNumbers == Nodes \subseteq Nat
  BY PlanAssumption DEF Nodes

LEMMA DependenciesAreNodes ==
    ASSUME NEW n \in Nodes
    PROVE  DependsOn[n] \subseteq Nodes
  BY PlanAssumption

(* The node that comes next is ready.                                      *)
LEMMA NextIsReady ==
    ASSUME NEW graph \in Graphs, Ready(graph) # {}
    PROVE  NextPendingNode(graph) \in Ready(graph)
  <1>1. Ready(graph) \in SUBSET Nat
    BY NodesAreNumbers DEF Ready, With
  <1>2. \E n \in Ready(graph) : \A m \in Ready(graph) : n <= m
    BY <1>1, LeastOf
  <1> QED
    BY <1>2, Zenon DEF NextPendingNode

(* If no pending node rests on what will never be committed, one is ready. *)
LEMMA PendingCanFollow ==
    ASSUME NEW graph \in Graphs,
           \A n \in With(graph, "pending") : \A d \in DependsOn[n] :
              graph[d] \in {"pending", "committed"}
    PROVE  ~IsDeadlocked(graph)
  <1> SUFFICES ASSUME With(graph, "pending") # {}
               PROVE  Ready(graph) # {}
    BY DEF IsDeadlocked
  <1>1. PICK rank \in [Nodes -> Nodes] :
           \A n \in Nodes : \A d \in DependsOn[n] : rank[d] < rank[n]
    BY PlanAssumption
  <1> DEFINE ranks == {rank[n] : n \in With(graph, "pending")}
  <1>2. ranks \in SUBSET Nat /\ ranks # {}
    BY <1>1, NodesAreNumbers DEF With
  <1>3. PICK k \in ranks : \A j \in ranks : k <= j
    BY <1>2, LeastOf
  <1>4. PICK n \in With(graph, "pending") : rank[n] = k
    BY <1>3
  <1>5. ASSUME NEW d \in DependsOn[n]
        PROVE  graph[d] = "committed"
    <2>1. d \in Nodes /\ n \in Nodes
      BY <1>4, DependenciesAreNodes DEF With
    <2>2. rank[d] < rank[n] /\ rank[d] \in Nat /\ rank[n] \in Nat
      BY <1>1, <2>1, NodesAreNumbers
    <2>3. graph[d] # "pending"
      BY <1>3, <1>4, <2>1, <2>2 DEF With
    <2> QED
      BY <1>4, <2>3
  <1> QED
    BY <1>4, <1>5 DEF Ready

-----------------------------------------------------------------------------
(* What a failure skips *)

(* Only pending nodes are skipped, and whatever pending node rests on a    *)
(* skipped one, or on the one that failed.                                 *)
LEMMA SkippedIsTheWalk ==
    ASSUME NEW graph \in Graphs, NEW n \in Nodes
    PROVE  /\ Skipped(graph, n) \subseteq With(graph, "pending") \ {n}
           /\ \A m \in With(graph, "pending") \ {n} :
                 DependsOn[m] \cap (Skipped(graph, n) \cup {n}) # {}
                    => m \in Skipped(graph, n)
  BY DEF Skipped

(* Nothing else is: a skipped node rests on one that failed or is skipped. *)
LEMMA SkippedHasReason ==
    ASSUME NEW graph \in Graphs, NEW n \in Nodes, NEW m \in Skipped(graph, n)
    PROVE  \E d \in DependsOn[m] : d = n \/ d \in Skipped(graph, n)
  <1> DEFINE pending == With(graph, "pending") \ {n}
             S == Skipped(graph, n) \ {m}
  <1> SUFFICES ASSUME \A d \in DependsOn[m] : d # n /\ d \notin Skipped(graph, n)
               PROVE  FALSE
    OBVIOUS
  <1>1. S \in SUBSET pending
    BY SkippedIsTheWalk
  <1>2. \A j \in pending : DependsOn[j] \cap (S \cup {n}) # {} => j \in S
    <2> TAKE j \in pending
    <2> HAVE DependsOn[j] \cap (S \cup {n}) # {}
    <2>1. j \in Skipped(graph, n)
      BY SkippedIsTheWalk
    <2> QED
      BY <2>1
  <1>3. m \in S
    BY <1>1, <1>2 DEF Skipped
  <1> QED
    BY <1>3

LEMMA MarkNodeFailedType ==
    ASSUME NEW graph \in Graphs, NEW n \in Nodes
    PROVE  /\ MarkNodeFailed(graph, n) \in Graphs
           /\ MarkNodeFailed(graph, n)[n] = "failed"
           /\ \A m \in Skipped(graph, n) : MarkNodeFailed(graph, n)[m] = "skipped"
           /\ \A m \in Nodes : m # n /\ m \notin Skipped(graph, n) =>
                 MarkNodeFailed(graph, n)[m] = graph[m]
  <1>1. Skipped(graph, n) \subseteq Nodes \ {n}
    BY SkippedIsTheWalk DEF With
  <1> QED
    BY <1>1 DEF MarkNodeFailed, Graphs, Statuses
=============================================================================
