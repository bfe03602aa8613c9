------------------------------ MODULE FlowModel ------------------------------
(***************************************************************************)
(* The pure algorithms the engine runs over a process definition:          *)
(* navigation (engine/engine_impl.go) and the static fork/join analysis    *)
(* (engine/reapply.go).                                                    *)
(*                                                                         *)
(* A definition g (model.FlowModel) is the record                          *)
(*   nodes : its nodes, in the order of flow.Nodes                         *)
(*   type  : node -> its type, the "snaker:" prefix dropped                *)
(*   succ  : node -> the targets of its outgoing edges, in the order of    *)
(*           flow.Edges                                                    *)
(* Every edge leads to a node of the definition.  The Go code reports an   *)
(* edge to a missing node in the log and goes on as if it were absent.     *)
(***************************************************************************)
EXTENDS Integers, FiniteSets, Sequences

FlowRange(s) == { s[i] : i \in DOMAIN s }

Nodes(g) == FlowRange(g.nodes)
OfType(g, t) == { n \in Nodes(g) : g.type[n] = t }

Position(g, n) == CHOOSE i \in DOMAIN g.nodes : g.nodes[i] = n
FirstIn(g, S) == CHOOSE n \in S : \A m \in S : Position(g, n) <= Position(g, m)

\* findNodeByType: the first node of the type.
startNode(g) == FirstIn(g, OfType(g, "start"))

outgoingTargets(g, n) == FlowRange(g.succ[n])
incomingSources(g, n) == { m \in Nodes(g) : n \in outgoingTargets(g, m) }

isFirstTaskNode(g, n) == /\ OfType(g, "start") # {}
                         /\ n \in outgoingTargets(g, startNode(g))

\* The first successor of start that is of one of the types; the engine stops
\* at the first hit, in edge order.
firstAfterStart(g, types) ==
  LET s == g.succ[startNode(g)]
      hits == { i \in DOMAIN s : g.type[s[i]] \in types }
  IN  { s[i] : i \in { h \in hits : \A k \in hits : h <= k } }

(***************************************************************************)
(* Grow(step, S) is the least set that contains S and is closed under      *)
(* step, the visited-set loops of the code.                                *)
(***************************************************************************)
Grow(g, step, S) ==
  LET G[k \in 0 .. Len(g.nodes)] ==
        IF k = 0 THEN S
        ELSE LET found == G[k-1] IN found \cup UNION { step[n] : n \in found }
  IN  G[Len(g.nodes)]

\* The task and custom nodes met walking backwards from n, stopping at the
\* fork stop (but passing through every other fork).
backwardTaskIDs(g, n, stop) ==
  LET step == [m \in Nodes(g) |-> incomingSources(g, m) \ {stop}]
  IN  { m \in Grow(g, step, step[n]) : g.type[m] \in {"task", "custom"} }

\* With the join blocked, no branch of the fork reaches a node without
\* outgoing edges.
postDominates(g, fork, join) ==
  LET step == [m \in Nodes(g) |-> outgoingTargets(g, m) \ {join}]
  IN  \A m \in Grow(g, step, step[fork]) : outgoingTargets(g, m) # {}

\* The number of hops from the fork at which the join is first met, -1 if it
\* is not.  (The code's name says max; its visited set makes it the minimum.)
maxDistanceToJoin(g, fork, join) ==
  LET N == Len(g.nodes)
      Level[k \in 1 .. N] ==
        IF k = 1 THEN [seen |-> outgoingTargets(g, fork), front |-> outgoingTargets(g, fork)]
        ELSE LET prev == Level[k-1]
                 nxt == UNION { outgoingTargets(g, m) : m \in prev.front } \ prev.seen
             IN  [seen |-> prev.seen \cup nxt, front |-> nxt]
      hits == { k \in 1 .. N : join \in Level[k].front }
  IN  IF hits = {} THEN -1 ELSE CHOOSE k \in hits : TRUE

\* Ties go to the node that comes first in flow.Nodes: the loops keep the
\* current best unless the next candidate is strictly better.
nearestPostDominatingJoin(g, fork) ==
  LET cand == { j \in OfType(g, "join") : /\ postDominates(g, fork, j)
                                          /\ maxDistanceToJoin(g, fork, j) >= 0 }
      d(j) == maxDistanceToJoin(g, fork, j)
  IN  IF cand = {} THEN {} ELSE {FirstIn(g, { j \in cand : \A k \in cand : d(j) <= d(k) })}

findForkForJoin(g, join) ==
  LET cand == { f \in OfType(g, "fork") : nearestPostDominatingJoin(g, f) = {join} }
      d(f) == maxDistanceToJoin(g, f, join)
  IN  IF cand = {} THEN {} ELSE {FirstIn(g, { f \in cand : \A k \in cand : d(f) >= d(k) })}

\* The joins whose branch range (fork, join) contains the node.  A join has at
\* most one fork, so the join alone names the range.
staticScopes(g, n) ==
  { j \in OfType(g, "join") :
      \E f \in findForkForJoin(g, j) : n \in backwardTaskIDs(g, j, f) }

\* Walking back from cur meets parent without passing a fork, join or start.
\* The recursion of the code does not return on a cycle that misses parent;
\* where it returns, this is its answer.
canRejected(g, cur, parent) ==
  LET passable == { m \in Nodes(g) : g.type[m] \notin {"fork", "join", "start"} }
      step == [m \in Nodes(g) |-> incomingSources(g, m) \cap passable]
  IN  \E m \in {cur} \cup Grow(g, step, step[cur]) : parent \in incomingSources(g, m)
=============================================================================
