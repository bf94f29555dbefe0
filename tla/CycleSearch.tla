---------------------------- MODULE CycleSearch ----------------------------
(***************************************************************************)
(* has_cycle of crates/engine/src/lock.rs: the iterative depth-first       *)
(* search that decides whether a wait-for graph has a cycle.  A node may   *)
(* be pushed several times and is then expanded several times; the order   *)
(* of start nodes and of neighbours (hash map and vector order) is open.   *)
(***************************************************************************)
EXTENDS Naturals, Sequences, SequencesExt, FiniteSets

CONSTANT Nodes

VARIABLES
    graph,      \* graph[n]: the out-neighbours of n
    color,      \* color[n]: "white", "gray" or "black"
    starts,     \* the keys of the graph not yet tried as a start node
    stack,      \* stack of <<node, processed>>, top last
    result      \* "searching", "cycle" or "none"

searchVars == <<graph, color, starts, stack, result>>

Keys == {n \in Nodes : graph[n] # {}}

\* Any graph that wait_for_graph can build: no backend waits for itself.
SearchInit ==
    /\ graph \in {g \in [Nodes -> SUBSET Nodes] : \A n \in Nodes : n \notin g[n]}
    /\ color = [n \in Nodes |-> "white"]
    /\ starts = Keys
    /\ stack = <<>>
    /\ result = "searching"

\* MUTANT of OtherStarts: one start node only.
OnlyFirstStart(n) == {}

\* What is left of the outer loop after start node n.
OtherStarts(n) == starts \ {n}

\* The outer loop: a start node that is no longer white is passed over.
NextStart ==
    /\ result = "searching" /\ stack = <<>>
    /\ \E n \in starts :
          /\ starts' = OtherStarts(n)
          /\ stack' = IF color[n] = "white" THEN <<<<n, FALSE>>>> ELSE <<>>
    /\ UNCHANGED <<graph, color, result>>

\* All start nodes are used up.
Exhausted ==
    /\ result = "searching" /\ stack = <<>> /\ starts = {}
    /\ result' = "none"
    /\ UNCHANGED <<graph, color, starts, stack>>

\* MUTANT of Popped: the top stays.
NoPop == stack

Popped == Front(stack)

\* Pop a node whose children are finished.
Close ==
    /\ result = "searching" /\ stack # <<>> /\ Last(stack)[2]
    /\ color' = [color EXCEPT ![Last(stack)[1]] = "black"]
    /\ stack' = Popped
    /\ UNCHANGED <<graph, starts, result>>

\* The colour of a neighbour that ends the search.
BackEdge(c) == c = "gray"

\* What is pushed for a node: itself, to be closed after its children.
Pushed(n, children) ==
    <<<<n, TRUE>>>> \o [i \in DOMAIN children |-> <<children[i], FALSE>>]

\* Pop a node that is to be expanded: it turns gray; a gray neighbour ends the
\* search, otherwise its white neighbours are pushed.
Expand ==
    /\ result = "searching" /\ stack # <<>> /\ ~Last(stack)[2]
    /\ LET n == Last(stack)[1]
           white == {m \in graph[n] : color'[m] = "white"}
       IN  /\ color' = [color EXCEPT ![n] = "gray"]
           /\ \/ /\ \E m \in graph[n] : BackEdge(color'[m])
                 /\ result' = "cycle"
                 /\ stack' = Front(stack)
              \/ /\ ~\E m \in graph[n] : BackEdge(color'[m])
                 /\ \E children \in SetToSeqs(white) :
                        stack' = Front(stack) \o Pushed(n, children)
                 /\ UNCHANGED result
    /\ UNCHANGED <<graph, starts>>

SearchNext == NextStart \/ Exhausted \/ Close \/ Expand

SearchSpec == SearchInit /\ [][SearchNext]_searchVars /\ WF_searchVars(SearchNext)

-----------------------------------------------------------------------------
\* The nodes that n reaches by one or more edges; as many rounds as there are
\* nodes are enough.
Reachable(n) ==
    LET reach[k \in 0..Cardinality(Nodes)] ==
            IF k = 0 THEN graph[n]
            ELSE reach[k-1] \cup UNION {graph[m] : m \in reach[k-1]}
    IN  reach[Cardinality(Nodes)]

Cyclic == \E n \in Nodes : n \in Reachable(n)

\* The search returns true exactly for graphs in which some node reaches
\* itself, although nodes are expanded repeatedly and black nodes turn gray
\* again when a stale stack entry is popped.
FindsCycles ==
    /\ result = "cycle" => Cyclic
    /\ result = "none" => ~Cyclic

\* LockManager states the same question as "a nonempty set of nodes, each with
\* an edge that stays in the set"; the search decides that too.
DecidesTraps ==
    result # "searching" =>
        (result = "cycle" <=>
            \E S \in SUBSET Nodes :
                S # {} /\ \A p \in S : graph[p] \cap S # {})

\* has_cycle answers both readings of the question rightly.
AnswerIsRight == FindsCycles /\ DecidesTraps

\* has_cycle returns: repeated pushes do not keep the loop going.
Terminates == <>(result # "searching")
=============================================================================
