---------------------------- MODULE StrategyGraph ----------------------------
(***************************************************************************)
(* A strategy is a graph of protocol actions (strategy-engine, class       *)
(* StrategyGraphBuilder): nodes and edges are added one by one, build      *)
(* refuses a graph with a cycle after a depth-first visit and orders the   *)
(* others with Kahn's algorithm.  A step is one call of addNode or         *)
(* addEdge, or one turn of a loop of build.                                *)
(***************************************************************************)
EXTENDS Integers, Sequences, FiniteSets

CONSTANTS
  Nodes,      \* node identifiers
  Kinds,      \* what a node may say: protocol, action, assets, risks, metadata
  MaxEdges    \* bound: edges added to one graph

ASSUME GraphAssumption == MaxEdges \in Nat /\ IsFiniteSet(Nodes)

(* NodeRisk, of which only type and severity matter. *)
Severity == [low |-> 1, medium |-> 2, high |-> 3]

ASSUME RiskAssumption ==
  \A k \in Kinds : \A r \in k.risks :
    r = [type |-> r.type, severity |-> r.severity] /\ r.severity \in DOMAIN Severity

VARIABLES
  phase,      \* "adding", "visiting", "sorting", "built" or "thrown"
  nodes,      \* this.nodes: identifiers in the order they were added
  kind,       \* kind[n]: the rest of node n
  edges,      \* this.edges
  visited,    \* hasCycle: nodes seen
  stack,      \* hasCycle: the calls in progress, each with its next edge
  inDegree,   \* topologicalSort: edges into a node not yet taken away
  queue, order, turn   \* its queue, its result and its inner loop

construction == <<nodes, kind, edges>>
visit        == <<visited, stack>>
sorting      == <<inDegree, queue, order, turn>>
graphVars    == <<phase, construction, visit, sorting>>

Members(s) == {s[k] : k \in DOMAIN s}

(* The members of s that are in K, in their order. *)
Only(s, K) ==
  LET first[k \in 0 .. Len(s)] ==
        IF k = 0 THEN <<>>
        ELSE IF s[k] \in K THEN Append(first[k - 1], s[k]) ELSE first[k - 1]
  IN  first[Len(s)]

Edge == [from : Nodes, to : Nodes]
NoTurn == [node |-> "none", next |-> 0]

GraphInit ==
  /\ phase = "adding"
  /\ nodes = <<>> /\ kind \in [{} -> Kinds] /\ edges = <<>>
  /\ visited = {} /\ stack = <<>>
  /\ inDegree = [n \in {} |-> 0] /\ queue = <<>> /\ order = <<>> /\ turn = NoTurn

-----------------------------------------------------------------------------
(* addNode and addEdge throw on a duplicate and on an unknown end.         *)

AddNode(n, k) ==
  /\ phase = "adding"
  /\ IF n \in Members(nodes)
     THEN phase' = "thrown" /\ UNCHANGED <<nodes, kind>>
     ELSE /\ nodes' = Append(nodes, n)
          /\ kind' = [m \in Members(nodes') |-> IF m = n THEN k ELSE kind[m]]
          /\ UNCHANGED phase
  /\ UNCHANGED <<edges, visit, sorting>>

AddEdge(e) ==
  /\ phase = "adding" /\ Len(edges) < MaxEdges
  /\ IF {e.from, e.to} \subseteq Members(nodes)
     THEN edges' = Append(edges, e) /\ UNCHANGED phase
     ELSE phase' = "thrown" /\ UNCHANGED edges
  /\ UNCHANGED <<nodes, kind, visit, sorting>>

Build ==
  /\ phase = "adding"
  /\ phase' = "visiting"
  /\ UNCHANGED <<construction, visit, sorting>>

-----------------------------------------------------------------------------
(* validateDAG: hasCycle, its recursion as a stack *)

Call(n) == visited' = visited \cup {n} /\ stack' = Append(stack, [node |-> n, next |-> 1])
Top     == stack[Len(stack)]
Frames(s) == {s[k].node : k \in DOMAIN s}
Advanced  == [stack EXCEPT ![Len(stack)].next = @ + 1]

(* The first node, in the order of their addition, that no visit reached.  *)
Visit(n) ==
  /\ phase = "visiting" /\ stack = <<>>
  /\ \E k \in DOMAIN nodes :
       /\ nodes[k] = n /\ n \notin visited
       /\ \A j \in 1 .. k - 1 : nodes[j] \in visited
  /\ Call(n)
  /\ UNCHANGED <<phase, construction, sorting>>

(* An edge back into the path being visited closes a cycle.                *)
Refuse ==
  LET e == edges[Top.next]
  IN  /\ phase = "visiting" /\ stack # <<>> /\ Top.next <= Len(edges)
      /\ e.from = Top.node /\ e.to \in Frames(stack)
      /\ phase' = "thrown"
      /\ UNCHANGED <<construction, visit, sorting>>

Explore ==
  LET e == edges[Top.next]
  IN  /\ phase = "visiting" /\ stack # <<>> /\ Top.next <= Len(edges)
      /\ ~(e.from = Top.node /\ e.to \in Frames(stack))
      /\ IF e.from = Top.node /\ e.to \notin visited
         THEN /\ visited' = visited \cup {e.to}
              /\ stack' = Append(Advanced, [node |-> e.to, next |-> 1])
         ELSE stack' = Advanced /\ UNCHANGED visited
      /\ UNCHANGED <<phase, construction, sorting>>

Return ==
  /\ phase = "visiting" /\ stack # <<>> /\ Top.next > Len(edges)
  /\ stack' = SubSeq(stack, 1, Len(stack) - 1)
  /\ UNCHANGED <<phase, construction, visited, sorting>>

-----------------------------------------------------------------------------
(* topologicalSort *)

InDegree(n) == Cardinality({k \in DOMAIN edges : edges[k].to = n})

StartSort ==
  /\ phase = "visiting" /\ stack = <<>> /\ Members(nodes) \subseteq visited
  /\ phase' = "sorting"
  /\ visited' = {}
  /\ inDegree' = [n \in Members(nodes) |-> InDegree(n)]
  /\ queue' = Only(nodes, {n \in Nodes : InDegree(n) = 0})
  /\ UNCHANGED <<construction, stack, order, turn>>

Shift ==
  /\ phase = "sorting" /\ turn = NoTurn /\ queue # <<>>
  /\ queue' = Tail(queue)
  /\ order' = Append(order, Head(queue))
  /\ turn' = [node |-> Head(queue), next |-> 1]
  /\ UNCHANGED <<phase, construction, visit, inDegree>>

ReleaseEarly(e) ==                                               \* mutant
  /\ inDegree' = [inDegree EXCEPT ![e.to] = @ - 1]
  /\ queue' = IF e.to \in Members(queue) \cup Members(order) THEN queue ELSE Append(queue, e.to)

(* One edge less into its end, which is queued after the last of them.     *)
Release(e) ==
  /\ inDegree' = [inDegree EXCEPT ![e.to] = @ - 1]
  /\ queue' = IF inDegree[e.to] = 1 THEN Append(queue, e.to) ELSE queue

Relax ==
  /\ phase = "sorting" /\ turn # NoTurn /\ turn.next <= Len(edges)
  /\ turn' = [turn EXCEPT !.next = @ + 1]
  /\ LET e == edges[turn.next]
     IN  IF e.from = turn.node THEN Release(e) ELSE UNCHANGED <<inDegree, queue>>
  /\ UNCHANGED <<phase, construction, visit, order>>

EndTurn ==
  /\ phase = "sorting" /\ turn # NoTurn /\ turn.next > Len(edges)
  /\ turn' = NoTurn
  /\ UNCHANGED <<phase, construction, visit, inDegree, queue, order>>

Sorted == phase = "sorting" /\ turn = NoTurn /\ queue = <<>>

(* The graph has the nodes that the sort put out. *)
Built ==
  /\ Sorted
  /\ phase' = "built"
  /\ inDegree' = [n \in {} |-> 0]
  /\ UNCHANGED <<construction, visit, queue, order, turn>>

GraphNext ==
  \/ \E n \in Nodes, k \in Kinds : AddNode(n, k)
  \/ \E e \in Edge : AddEdge(e)
  \/ Build
  \/ \E n \in Nodes : Visit(n)
  \/ Explore \/ Refuse \/ Return
  \/ StartSort \/ Shift \/ Relax \/ EndTurn \/ Built

-----------------------------------------------------------------------------
(* propagateRisk: the risks of every node and of its parents, of each type *)
(* the first among the most severe.                                        *)

InheritedOnly(n) ==                                              \* mutant
  UNION {kind[edges[k].from].risks : k \in {j \in DOMAIN edges : edges[j].to = n}}

Inherited(n) ==
  kind[n].risks
    \cup UNION {kind[edges[k].from].risks : k \in {j \in DOMAIN edges : edges[j].to = n}}

PropagateRisk ==
  LET all == UNION {Inherited(n) : n \in Members(order)}
  IN  {r \in all : \A q \in all : q.type = r.type => Severity[q.severity] <= Severity[r.severity]}

-----------------------------------------------------------------------------
(* Properties *)

GraphTypeOK ==
  /\ phase \in {"adding", "visiting", "sorting", "built", "thrown"}
  /\ nodes \in Seq(Nodes) /\ Cardinality(Members(nodes)) = Len(nodes)
  /\ kind \in [Members(nodes) -> Kinds]
  /\ edges \in Seq([from : Members(nodes), to : Members(nodes)])
  /\ visited \subseteq Members(nodes) /\ Frames(stack) \subseteq Members(nodes)
  /\ \A n \in DOMAIN inDegree : inDegree[n] \in 0 .. Len(edges)
  /\ Members(queue) \cup Members(order) \subseteq Members(nodes)

(* A set of nodes each of which has an edge from another node of the set   *)
(* or itself: a graph has a cycle exactly if there is one.                 *)
Cyclic ==
  \E C \in (SUBSET Members(nodes)) \ {{}} :
    \A n \in C : \E k \in DOMAIN edges : edges[k].to = n /\ edges[k].from \in C

(* build refuses the graphs with a cycle and no others ("Detect cycles -   *)
(* invalid for execution ordering"): two branches that meet again are not  *)
(* a cycle, and one that the first roots do not reach is found.            *)
RefusesCyclesOnly ==
  /\ Sorted => ~Cyclic
  /\ (phase = "thrown" /\ visited # {}) => Cyclic

(* The order of execution holds every node once and runs along every edge, *)
(* parallel edges included, so that no node runs before one it feeds on.   *)
OrderFollowsEdges ==
  Sorted =>
    /\ Members(order) = Members(nodes) /\ Len(order) = Len(nodes)
    /\ \A k \in DOMAIN edges : \E i, j \in DOMAIN order :
         i < j /\ order[i] = edges[k].from /\ order[j] = edges[k].to

(* The propagated risks are the worst of each type over the whole graph:   *)
(* inheriting from parents only ("BFS from root nodes") loses none of a    *)
(* grandparent's, and none counts twice.                                   *)
RisksCovered ==
  Sorted =>
    LET own == UNION {kind[n].risks : n \in Members(nodes)}
    IN  /\ \A r \in own : \E q \in PropagateRisk :
             q.type = r.type /\ Severity[q.severity] >= Severity[r.severity]
        /\ PropagateRisk \subseteq own
        /\ \A q, r \in PropagateRisk : q.type = r.type => q = r

(* What build answers for a graph: the cycle, or its order and risks.      *)
GraphSound ==
  /\ GraphTypeOK
  /\ RefusesCyclesOnly
  /\ OrderFollowsEdges
  /\ RisksCovered
=============================================================================
