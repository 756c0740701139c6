-------------------------- MODULE TopologicalSort --------------------------
(***************************************************************************)
(* The execution order of a definition: _topological_sort of                *)
(* workflows/engine.py, Kahn's algorithm over depends_on and the fallback   *)
(* edges.  A definition's steps are numbered in definition order.           *)
(***************************************************************************)
EXTENDS Integers, Sequences, FiniteSets

CONSTANTS
    N,             \* number of steps
    Definitions    \* the definitions sorted: records [dependsOn, fallback]

Ids == 1..N
NoStep == 0

AllDefinitions == [dependsOn : [Ids -> SUBSET Ids], fallback : [Ids -> Ids \cup {NoStep}]]

VARIABLES
    def,         \* the definition being sorted
    in_degree,   \* edges into a step not yet taken off
    queue,       \* steps with no such edge, in the order they got there
    rest,        \* edges out of the step taken last that are still to be relaxed
    order,       \* the order so far
    result       \* "sorting", "sorted" or "raised"

vars == <<def, in_degree, queue, rest, order, result>>

FallsBack(s) == def.fallback[s] \notin {NoStep, s}

\* The edges of graph: from a dependency to the step that declares it, and from
\* a step to its fallback.  Each is added while the step in "by" is visited.
Edges ==
    {e \in [from : Ids, to : Ids, by : Ids, why : {"depends_on"}] : e.by = e.to /\ e.from \in def.dependsOn[e.to]}
    \cup {e \in [from : Ids, to : Ids, by : Ids, why : {"fallback"}] :
              e.by = e.from /\ FallsBack(e.from) /\ e.to = def.fallback[e.from]}

Into(t) == {e \in Edges : e.to = t}
OutOf(s) == {e \in Edges : e.from = s}

\* The order of graph[s]: by the step that added the edge, dependencies first.
AddedBefore(e, f) == e.by < f.by \/ (e.by = f.by /\ e.why = "depends_on" /\ f.why = "fallback")

\* The steps of S in definition order: there is one such sequence.
InDefinitionOrder(S) ==
    {q \in [1..Cardinality(S) -> S] : \A i, j \in 1..Cardinality(S) : i < j => q[i] < q[j]}

TypeOK ==
    /\ def \in Definitions
    /\ in_degree \in [Ids -> Nat]
    /\ queue \in Seq(Ids)
    /\ rest \subseteq Edges
    /\ order \in Seq(Ids)
    /\ result \in {"sorting", "sorted", "raised"}

\* Every definition, its edges counted and the steps without one queued.
Init ==
    /\ def \in Definitions
    /\ in_degree = [s \in Ids |-> Cardinality(Into(s))]
    /\ queue \in InDefinitionOrder({s \in Ids : in_degree[s] = 0})
    /\ rest = {}
    /\ order = <<>>
    /\ result = "sorting"

Pop ==
    /\ result = "sorting"
    /\ rest = {}
    /\ queue # <<>>
    /\ order' = Append(order, Head(queue))
    /\ queue' = Tail(queue)
    /\ rest' = OutOf(Head(queue))
    /\ UNCHANGED <<def, in_degree, result>>

\* The edge of rest that was added first.
First(e) == e \in rest /\ \A f \in rest \ {e} : AddedBefore(e, f)

\* Mutation: a step is queued at the first of its edges.
RelaxEagerly ==
    \E e \in rest :
        /\ First(e)
        /\ in_degree' = [in_degree EXCEPT ![e.to] = @ - 1]
        /\ queue' = Append(queue, e.to)
        /\ rest' = rest \ {e}
        /\ UNCHANGED <<def, order, result>>

Relax ==
    \E e \in rest :
        /\ First(e)
        /\ in_degree' = [in_degree EXCEPT ![e.to] = @ - 1]
        /\ queue' = IF in_degree[e.to] = 1 THEN Append(queue, e.to) ELSE queue
        /\ rest' = rest \ {e}
        /\ UNCHANGED <<def, order, result>>

Finish ==
    /\ result = "sorting"
    /\ rest = {}
    /\ queue = <<>>
    /\ result' = IF Len(order) = N THEN "sorted" ELSE "raised"
    /\ UNCHANGED <<def, in_degree, queue, rest, order>>

Done == result # "sorting" /\ UNCHANGED vars

Next == Pop \/ Relax \/ Finish \/ Done

Spec == Init /\ [][Next]_vars

(***************************************************************************)
(* Properties                                                               *)
(***************************************************************************)
Precedes(s, t) == s \in def.dependsOn[t] \/ (s # t /\ def.fallback[s] = t)

\* The order names every step once, after every step it depends on and every
\* step it is the fallback of, so that _check_dependencies never meets a
\* dependency that has simply not been reached; and a definition is refused
\* exactly when its edges close a cycle: some steps each wait for another.
OrderIsSound ==
    /\ result = "sorted" =>
        /\ Len(order) = N
        /\ \A i, j \in Ids : Precedes(order[i], order[j]) => i < j
        /\ \A s \in Ids : \E i \in Ids : order[i] = s
    /\ result # "sorting" =>
        (result = "raised" <=> \E S \in (SUBSET Ids) \ {{}} :
                                   \A t \in S : \E s \in S : Precedes(s, t))
=============================================================================
