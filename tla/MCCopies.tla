------------------------------- MODULE MCCopies --------------------------------
(***************************************************************************)
(* Instances of Copies for TLC.                                            *)
(***************************************************************************)
EXTENDS Copies, TLC

Spelled == "u1" :> "u1" @@ " u1 " :> "u1" @@ "u2" :> "u2" @@ "" :> ""

\* One person in two spellings, one after another, and nobody.
Submitted == {<<"u1">>, <<" u1 ", "u1">>, <<"u2", " u1 ">>, <<"">>}
OnePerson == {<<"u1">>}

\* The listener in the middle panics.
Three == <<"leg", "panic", "leg">>
Forwarding == <<"forward", "leg">>

Symmetric == Permutations(Client)
=============================================================================
