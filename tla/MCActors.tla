------------------------------- MODULE MCActors --------------------------------
(***************************************************************************)
(* Instances of Actors for TLC.                                            *)
(***************************************************************************)
EXTENDS Actors, TLC

\* u1 is also found with blanks around the name, and there are empty rows.
Spelled == "u1" :> "u1" @@ "u2" :> "u2" @@ " u1 " :> "u1" @@ "" :> ""

Rows0 == { [t \in Task |-> IF t = "t1" THEN {" u1 ", ""} ELSE {"u2"}],
           [t \in Task |-> IF t = "t1" THEN {" u1 ", "u2"} ELSE {"u1", "u2"}] }

\* Bound: requests that are overtaken, and what follows their writes, are
\* explored for the requests that write the ledger, and a request that is
\* overtaken writes before the others begin their next.
OvertakenWritesFirst ==
  \A c \in Client :
    /\ disturbed => job[c].op \in {"-", "transfer", "execute"}
    /\ job[c].overtaken =>
         /\ job[c].op \in {"transfer", "execute"}
         /\ \A d \in Client : job[d].overtaken \/ job[d].pc \in {"idle", "write"}

Symmetric == Permutations(Client)
=============================================================================
