--------------------------- MODULE ExecutionGraph ---------------------------
(***************************************************************************)
(* The plan of a job and what is asked of it: planning/                    *)
(* dependencyAnalyzer.ts and the part of scheduling/scheduler.ts that has  *)
(* no state.  A node is a file to generate, numbered by its place in       *)
(* graph.nodes; an execution of the plan is a function from nodes to       *)
(* statuses.                                                               *)
(***************************************************************************)
EXTENDS Naturals, FiniteSets

CONSTANTS
    Files,      \* how many nodes the plan has
    DependsOn   \* node.dependencies, as a function to sets of nodes

Nodes == 1..Files

(* buildExecutionGraph() draws an edge only from a layer to one it imports *)
(* (LAYER_IMPORTS), and no layer imports itself, directly or not.  The     *)
(* order of the nodes need not follow the edges: a route and a middleware  *)
(* it imports are of the same stage.                                       *)
ASSUME PlanAssumption ==
    /\ Files \in Nat \ {0}
    /\ DependsOn \in [Nodes -> SUBSET Nodes]
    /\ \E rank \in [Nodes -> Nodes] :
          \A n \in Nodes : \A d \in DependsOn[n] : rank[d] < rank[n]

Statuses == {"pending", "generating", "validating", "committed", "failed",
             "skipped"}
Graphs == [Nodes -> Statuses]

Dependents(n) == {m \in Nodes : n \in DependsOn[m]}

With(graph, status) == {n \in Nodes : graph[n] = status}

(* nextPendingNode(): the first pending node all of whose dependencies are *)
(* committed.                                                              *)
Ready(graph) ==
    {n \in With(graph, "pending") : \A d \in DependsOn[n] : graph[d] = "committed"}

NextPendingNode(graph) ==
    CHOOSE n \in Ready(graph) : \A m \in Ready(graph) : n <= m

IsGraphComplete(graph) ==
    \A n \in Nodes : graph[n] \in {"committed", "failed", "skipped"}

IsDeadlocked(graph) == With(graph, "pending") # {} /\ Ready(graph) = {}

(* Mutant: what is stuck is left pending.                                  *)
LeavePending(graph) == graph

ResolveDeadlock(graph) ==
    [n \in Nodes |-> IF graph[n] = "pending" THEN "skipped" ELSE graph[n]]

(* Mutant: only what rests on the node itself is skipped.                  *)
SkippedDirectly(graph, n) == Dependents(n) \cap With(graph, "pending")

(* Mutant: a dependent is skipped whatever has become of it.               *)
SkippedWhatever(graph, n) == Dependents(n)

(* markNodeFailed(): the walk from n to its dependents goes on only through*)
(* the pending ones, which it skips.  So it reaches what is in every set of*)
(* pending nodes that it cannot leave.                                     *)
Skipped(graph, n) ==
    LET pending == With(graph, "pending") \ {n}
        Unleft(S) ==
            \A m \in pending : DependsOn[m] \cap (S \cup {n}) # {} => m \in S
    IN  {m \in pending : \A S \in SUBSET pending : Unleft(S) => m \in S}

MarkNodeFailed(graph, n) ==
    [m \in Nodes |-> IF m = n THEN "failed"
                     ELSE IF m \in Skipped(graph, n) THEN "skipped" ELSE graph[m]]
=============================================================================
