---------------------------- MODULE WorkflowRun ----------------------------
(***************************************************************************)
(* WorkflowEngine.execute: the nodes of a definition are put into layers   *)
(* (Kahn's algorithm), and the nodes of one layer run at once.  A          *)
(* definition comes from a client and nothing but the engine checks it: it *)
(* may have cycles, and edges from or to nodes that it does not have.  How *)
(* a condition turns out is left open.                                     *)
(***************************************************************************)
EXTENDS Naturals, FiniteSets

CONSTANTS Nodes,
          Stranger,   \* a node id that the definition lacks
          EdgeIds     \* the places in a definition's list of edges

VARIABLES edges,      \* the definition; an edge between strangers changes nothing
          inDegree,
          layers,     \* the nodes of each layer; 0 for none yet
          depth,      \* how many layers there are
          current,    \* the layer that runs
          step,       \* what became of each node
          outcome

runVars == <<edges, inDegree, layers, depth, current, step, outcome>>

ASSUME WorkflowAssumption ==
  /\ IsFiniteSet(Nodes)
  /\ Stranger \notin Nodes
  /\ IsFiniteSet(EdgeIds)

Ids == Nodes \cup {Stranger}

Edge == [source : Ids, target : Ids, conditional : BOOLEAN]

RunTypeOK ==
  /\ edges \in [EdgeIds -> Edge]
  /\ inDegree \in [Nodes -> Nat]
  /\ layers \in [Nodes -> Nat]
  /\ depth \in Nat
  /\ current \in Nat
  /\ step \in [Nodes -> {"waiting", "skipped", "running", "success", "failed"}]
  /\ outcome \in {"sorting", "running", "success", "partial_failure", "refused", "error"}

----------------------------------------------------------------------------
(* topological_sort.                                                       *)

Incoming(n) == {i \in EdgeIds : edges[i].target = n}

Layer(k) == {n \in Nodes : layers[n] = k}

Queue == IF depth = 0 THEN {} ELSE Layer(depth)

SeedQueue ==
  /\ outcome = "sorting" /\ depth = 0
  /\ \E n \in Nodes : inDegree[n] = 0
  /\ depth' = 1
  /\ layers' = [n \in Nodes |-> IF inDegree[n] = 0 THEN 1 ELSE 0]
  /\ UNCHANGED <<edges, inDegree, current, step, outcome>>

FromQueue(n) == {i \in Incoming(n) : edges[i].source \in Queue}

\* Variant: a node is queued as soon as one of its edges is done.
NextQueueEarly ==
  LET next == {n \in Nodes : layers[n] = 0 /\ FromQueue(n) # {}}
  IN /\ outcome = "sorting" /\ depth > 0
     /\ FromQueue(Stranger) = {}
     /\ next # {}
     /\ inDegree' = [n \in Nodes |-> inDegree[n] - Cardinality(FromQueue(n))]
     /\ depth' = depth + 1
     /\ layers' = [n \in Nodes |-> IF n \in next THEN depth + 1 ELSE layers[n]]
     /\ UNCHANGED <<edges, current, step, outcome>>

\* One round of the while loop: every edge out of the queue is taken off.
NextQueue ==
  LET left == [n \in Nodes |-> inDegree[n] - Cardinality(FromQueue(n))]
      next == {n \in Nodes : FromQueue(n) # {} /\ left[n] = 0}
  IN /\ outcome = "sorting" /\ depth > 0
     /\ FromQueue(Stranger) = {}
     /\ next # {}
     /\ inDegree' = left
     /\ depth' = depth + 1
     /\ layers' = [n \in Nodes |-> IF n \in next THEN depth + 1 ELSE layers[n]]
     /\ UNCHANGED <<edges, current, step, outcome>>

\* An edge to an unknown node is a KeyError.
UnknownTarget ==
  /\ outcome = "sorting"
  /\ FromQueue(Stranger) # {}
  /\ outcome' = "error"
  /\ UNCHANGED <<edges, inDegree, layers, depth, current, step>>

\* The queue is empty: either every node was visited, or there is a cycle.
Sorted ==
  /\ outcome = "sorting"
  /\ FromQueue(Stranger) = {}
  /\ IF depth = 0 THEN \A n \in Nodes : inDegree[n] # 0
     ELSE \A n \in Nodes : FromQueue(n) # {} => inDegree[n] # Cardinality(FromQueue(n))
  /\ outcome' = IF \A n \in Nodes : layers[n] # 0 THEN "running" ELSE "refused"
  /\ current' = IF \A n \in Nodes : layers[n] # 0 THEN 1 ELSE current
  /\ UNCHANGED <<edges, inDegree, layers, depth, step>>

----------------------------------------------------------------------------
(* execute.                                                                *)

Conditional(n) == \E i \in Incoming(n) : edges[i].conditional

\* _should_execute of each node of the layer, before any of them starts.
StartLayer(executable) ==
  /\ outcome = "running"
  /\ \A n \in Layer(current) : step[n] = "waiting"
  /\ current <= depth
  /\ {n \in Layer(current) : ~Conditional(n)} \subseteq executable
  /\ executable \subseteq Layer(current)
  /\ step' = [n \in Nodes |-> IF n \in executable THEN "running"
                              ELSE IF n \in Layer(current) THEN "skipped" ELSE step[n]]
  /\ UNCHANGED <<edges, inDegree, layers, depth, current, outcome>>

\* A comparison with the result of a node that has none raises, and nothing
\* in execute catches it.
ConditionRaises ==
  /\ outcome = "running"
  /\ \E n \in Layer(current) : step[n] = "waiting" /\ Conditional(n)
  /\ outcome' = "error"
  /\ UNCHANGED <<edges, inDegree, layers, depth, current, step>>

NodeEnds(n, result) ==
  /\ outcome = "running"
  /\ step[n] = "running"
  /\ step' = [step EXCEPT ![n] = result]
  /\ UNCHANGED <<edges, inDegree, layers, depth, current, outcome>>

\* Variant: the next layer starts when the first node of this one has ended.
GatherFirst ==
  /\ outcome = "running"
  /\ \E n \in Layer(current) : step[n] \notin {"waiting", "running"}
  /\ current' = current + 1
  /\ outcome' = IF current < depth THEN outcome
                ELSE IF \E n \in Nodes : step[n] = "failed" THEN "partial_failure"
                ELSE "success"
  /\ UNCHANGED <<edges, inDegree, layers, depth, step>>

\* gather returns when all have ended; a failure stops nothing.
Gather ==
  /\ outcome = "running"
  /\ \A n \in Layer(current) : step[n] \notin {"waiting", "running"}
  /\ current' = current + 1
  /\ outcome' = IF current < depth THEN outcome
                ELSE IF \E n \in Nodes : step[n] = "failed" THEN "partial_failure"
                ELSE "success"
  /\ UNCHANGED <<edges, inDegree, layers, depth, step>>

RunInit ==
  /\ edges \in [EdgeIds -> Edge]
  /\ inDegree = [n \in Nodes |-> Cardinality(Incoming(n))]
  /\ layers = [n \in Nodes |-> 0]
  /\ depth = 0
  /\ current = 0
  /\ step = [n \in Nodes |-> "waiting"]
  /\ outcome = "sorting"

RunNext ==
  \/ SeedQueue
  \/ NextQueue
  \/ UnknownTarget
  \/ Sorted
  \/ \E executable \in SUBSET Nodes : StartLayer(executable)
  \/ ConditionRaises
  \/ \E n \in Nodes, result \in {"success", "failed"} : NodeEnds(n, result)
  \/ Gather

RunSpec == RunInit /\ [][RunNext]_runVars

----------------------------------------------------------------------------

\* Nodes that wait for one another, or for a node that is not there.
Stuck ==
  \E S \in SUBSET Nodes :
    /\ S # {}
    /\ \A n \in S : \E i \in Incoming(n) : edges[i].source \in S \cup {Stranger}

\* A definition is refused when its nodes wait for one another, and only
\* then: parallel edges, self loops, several paths to a node and edges from
\* unknown nodes are counted right (in_degree counts edges, not nodes).
RefusedWhenStuck ==
  /\ outcome = "refused" => Stuck
  /\ outcome \in {"running", "success", "partial_failure"} => ~Stuck

\* No node starts, and no condition is judged, while a node that it comes
\* after may still run, whichever nodes of a layer end first, fail or are
\* skipped; a run that ends has come to all of its nodes.
PredecessorsDone ==
  /\ \A i \in EdgeIds :
       LET e == edges[i]
       IN e.source \in Nodes /\ e.target \in Nodes /\ step[e.target] # "waiting"
            => step[e.source] \notin {"waiting", "running"}
  /\ outcome \in {"success", "partial_failure"}
       => \A n \in Nodes : step[n] \notin {"waiting", "running"}
=============================================================================
