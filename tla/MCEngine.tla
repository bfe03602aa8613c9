------------------------------- MODULE MCEngine -------------------------------
(***************************************************************************)
(* Instances of Engine for TLC.  The definitions are those of              *)
(* flows/*.json, which the tests of the engine run, and small variations   *)
(* of them; expressions, forms and names are left out.                     *)
(***************************************************************************)
EXTENDS Engine, TLC

\* A definition from its nodes and edges in the order of the file.  Nodes are
\* tasks unless kind says otherwise.
Definition(nodes, kind, edges) ==
  LET N == FlowRange(nodes)
  IN  [ nodes |-> nodes,
        type |-> [n \in N |-> IF n \in DOMAIN kind THEN kind[n] ELSE "task"],
        succ |-> [n \in N |->
                    LET out == SelectSeq(edges, LAMBDA e : e[1] = n)
                    IN  [k \in DOMAIN out |-> out[k][2]]] ]

Ends == "start" :> "start" @@ "end" :> "end"
Fork1 == "fork1" :> "fork" @@ "join1" :> "join"
Fork2 == "fork2" :> "fork" @@ "join2" :> "join"

Plain ==
  [ assignee |-> <<"u1">>, countersign |-> "none", condition |-> "ALL", need |-> 0,
    addSign |-> FALSE, maxRounds |-> 0, collect |-> FALSE, recall |-> FALSE,
    direct |-> FALSE, handler |-> FALSE, guarded |-> {} ]
Direct == [Plain EXCEPT !.direct = TRUE]

\* The properties of the nodes of a definition, given where they are not Plain.
PropsOf(flow, special) ==
  [n \in Nodes(flow) |-> IF n \in DOMAIN special THEN special[n] ELSE Plain]

Nothing == {<< >>}
Signers == {<< >>, <<"u2">>, <<"u2", "u3">>}

\* flows/18, a fork in a branch of a fork, all of whose tasks return to their
\* source; the other branch has two tasks.
ForkFlow ==
  Definition(<<"start", "apply", "fork1", "a", "fork2", "x", "y", "join2", "b", "b2", "join1",
               "c", "end">>, Ends @@ Fork1 @@ Fork2,
    << <<"start", "apply">>, <<"apply", "fork1">>, <<"fork1", "a">>, <<"fork1", "b">>,
       <<"a", "fork2">>, <<"fork2", "x">>, <<"fork2", "y">>, <<"x", "join2">>, <<"y", "join2">>,
       <<"join2", "join1">>, <<"b", "b2">>, <<"b2", "join1">>, <<"join1", "c">>, <<"c", "end">> >>)
ForkProps == [n \in Nodes(ForkFlow) |-> IF n \in {"a", "x", "y", "b", "b2"} THEN Direct ELSE Plain]

\* flows/08-countersign-sequential-approve, its parallel siblings (one is
\* decided by two of three answers) and flows/19, where signers are added; a
\* decision chooses among them, anew in each pass.  Behind them another decision,
\* none of whose edges is without an expression, leads to a third decision, whose
\* default edge hides the one that leads back, and to a record node whose
\* handler can fail.
VoteFlow ==
  Definition(<<"start", "apply", "kind", "each", "all", "two", "review", "approve",
               "route", "again", "note", "end">>,
    Ends @@ "kind" :> "decision" @@ "route" :> "decision" @@ "again" :> "decision"
      @@ "note" :> "custom",
    << <<"start", "apply">>, <<"apply", "kind">>, <<"kind", "each">>, <<"kind", "all">>,
       <<"kind", "two">>, <<"kind", "review">>, <<"each", "approve">>, <<"all", "approve">>,
       <<"two", "approve">>, <<"review", "approve">>, <<"approve", "route">>,
       <<"route", "again">>, <<"route", "note">>,
       <<"again", "end">>, <<"again", "route">>, <<"note", "end">> >>)
Vote == [Plain EXCEPT !.assignee = <<"u1", "u2", "u3">>]
VoteProps ==
  PropsOf(VoteFlow, "kind" :> [Plain EXCEPT !.guarded = {1, 2, 3}]
    @@ "route" :> [Plain EXCEPT !.guarded = {1, 2}]
    @@ "again" :> [Plain EXCEPT !.guarded = {2}]
    @@ "note" :> [Plain EXCEPT !.handler = TRUE]
    @@ "each" :> [Vote EXCEPT !.countersign = "SEQUENTIAL", !.condition = "VETO"]
    @@ "all" :> [Vote EXCEPT !.countersign = "PARALLEL", !.condition = "VETO"]
    @@ "two" :> [Vote EXCEPT !.countersign = "PARALLEL", !.condition = "GE", !.need = 2]
    @@ "review" :> [Plain EXCEPT !.addSign = TRUE, !.maxRounds = 2])

\* What an engine without transactions does half: a node of a type it does not
\* know, a handler that fails, returns to the source where the engine cannot do
\* one; a decision that may lead back to the applicant, and a task that may be recalled.
BrokenFlow ==
  Definition(<<"start", "apply", "a", "route", "vote", "note", "b", "sub", "end">>,
    Ends @@ "route" :> "decision" @@ "note" :> "custom" @@ "sub" :> "subProcess",
    << <<"start", "apply">>, <<"apply", "a">>, <<"a", "route">>, <<"route", "vote">>,
       <<"route", "note">>, <<"route", "apply">>, <<"note", "b">>, <<"vote", "sub">>,
       <<"b", "end">>, <<"sub", "end">> >>)
BrokenProps ==
  PropsOf(BrokenFlow, "route" :> [Plain EXCEPT !.guarded = {1, 2, 3}]
    @@ "note" :> [Plain EXCEPT !.handler = TRUE] @@ "apply" :> Direct
    @@ "a" :> [Plain EXCEPT !.recall = TRUE]
    @@ "vote" :> [Direct EXCEPT !.assignee = <<"u1", "u2">>, !.countersign = "PARALLEL"])

ASSUME RecallsAreApart == RecallsApart
ASSUME ForksAreJoined == Flow = ForkFlow => BranchesMeet /\ ForksBegin
ASSUME BranchesAreApart ==
  Flow = ForkFlow => TokensApart /\ \A n \in Shared : ScopesOfNode[n] = {}
ASSUME TokensDoLand == Flow \in {ForkFlow, VoteFlow} => TokensLand
=============================================================================
