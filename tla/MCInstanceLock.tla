---------------------------- MODULE MCInstanceLock ----------------------------
(***************************************************************************)
(* Instances of InstanceLock for TLC: a fork of two branches and the       *)
(* requests that meet on it.                                               *)
(***************************************************************************)
EXTENDS InstanceLock, TLC

Branches == {"a", "b"}

\* Both branches are finished, one of them twice, and one is sent back.
Rush(boundary, conns) ==
  [ kind |-> "r1" :> "agree" @@ "r2" :> "agree" @@ "r3" :> "agree" @@ "r4" :> "return",
    target |-> "r1" :> "a" @@ "r2" :> "a" @@ "r3" :> "b" @@ "r4" :> "b",
    boundary |-> boundary, conns |-> conns ]

\* The commands without the mutex beside those that have it.
Mixed(boundary, conns) ==
  [ kind |-> "r1" :> "agree" @@ "r2" :> "reject" @@ "r3" :> "withdraw" @@ "r4" :> "return",
    target |-> "r1" :> "a" @@ "r2" :> "b" @@ "r3" :> "b" @@ "r4" :> "a",
    boundary |-> boundary, conns |-> conns ]

\* The mutex is held beyond the end of the transaction; or the transactions
\* overlap, and the pool has a connection more than the requests hold that still
\* need a second one.
AllScenes == {Rush("none", 1), Rush("engine", 2),
              Rush("facade", 5), Mixed("facade", 3), Mixed("engine", 2)}
ThroughFacade == {Rush("facade", 5)}
=============================================================================
