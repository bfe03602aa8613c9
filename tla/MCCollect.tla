------------------------------- MODULE MCCollect -------------------------------
(***************************************************************************)
(* Instances of Collect for TLC.                                           *)
(***************************************************************************)
EXTENDS Collect, MCEngine

Asking == [Direct EXCEPT !.collect = TRUE, !.maxRounds = 2]

\* The fixture of facade/collect_247_test.go with its node in a branch.
AskFlow ==
  Definition(<<"start", "apply", "fork1", "review", "b", "join1", "final", "end">>, Ends @@ Fork1,
    << <<"start", "apply">>, <<"apply", "fork1">>, <<"fork1", "review">>, <<"fork1", "b">>,
       <<"review", "join1">>, <<"b", "join1">>, <<"join1", "final">>, <<"final", "end">> >>)
AskProps == PropsOf(AskFlow, "review" :> Asking @@ "b" :> Direct)

ASSUME AskFlowAsksAhead == AsksAhead
ASSUME AskFlowKeepsApart == TokensApart /\ \A n \in Shared \ HostNode : ScopesOfNode[n] = {}
=============================================================================
