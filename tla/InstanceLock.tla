----------------------------- MODULE InstanceLock -----------------------------
(***************************************************************************)
(* Requests that run at the same time on one instance, which stands at a   *)
(* fork with one open task row in each branch: the instance mutex of       *)
(* lockInstanceByTask, the transaction of InTx and WithTx, and the         *)
(* repository calls of a command in the order it makes them.  What a       *)
(* command does when it is alone is the subject of Engine; here a command  *)
(* is what it reads and writes.                                            *)
(*                                                                         *)
(* A cell of the store is the state column of the instance or of a task    *)
(* row.  saveInstance writes every row of the aggregate it loaded, as it   *)
(* was loaded, so a request that loads too early writes old states back.   *)
(*                                                                         *)
(* A definition F_Bug is F with the bug its name tells; the properties are *)
(* tried on the model with one of them in the place of F.                  *)
(***************************************************************************)
EXTENDS Integers, FiniteSets

CONSTANTS
  Request,     \* the requests, each served by a goroutine of its own
  Branch,      \* the branches of the fork
  Scenes,      \* who asks for what, and in which deployment
  Nobody

Kinds == {"agree", "return", "reject", "withdraw"}
Boundaries == {"none", "engine", "facade"}

\* kind: what each request does; target: the branch whose row it is about;
\* boundary: where the transaction begins and ends, see below; conns: the
\* connections in the pool.
Scene == [ kind : [Request -> Kinds], target : [Request -> Branch],
           boundary : Boundaries, conns : Nat \ {0} ]

ASSUME SceneAssumption == Scenes \subseteq Scene
ASSUME BranchAssumption == Branch # {}
ASSUME NobodyAssumption == Nobody \notin Request

VARIABLES
  scene,    \* one of Scenes
  pc,       \* request -> the call it makes next
  lock,     \* the holder of the mutex of the instance
  store,    \* the committed cells
  dirty,    \* request -> the cells its transaction has written
  copy,     \* request -> the aggregate it has loaded
  open      \* the requests whose transaction holds a connection

vars == <<scene, pc, lock, store, dirty, copy, open>>

Kind == scene.kind
Target == scene.target
Boundary == scene.boundary

(***************************************************************************)
(* Where the transaction is:                                               *)
(*   none    a repository without WithTx (memory): every call is on its    *)
(*           own and what it wrote stays                                   *)
(*   engine  the command is called directly: it locks, opens the           *)
(*           transaction, commits and unlocks                              *)
(*   facade  the command is called through Flow, whose transaction is      *)
(*           opened before the lock is taken and committed after it is     *)
(*           given back                                                    *)
(***************************************************************************)
InTx == Boundary # "none"

\* The cells: the instance, the row of each branch, and the rows a request may
\* insert, the applicant's row and the row behind the join.
Instance == <<"instance", Nobody>>
Row(b) == <<"row", b>>
Apply(r) == <<"apply", r>>
Behind(r) == <<"behind", r>>
InRound == { Row(b) : b \in Branch } \cup { Apply(r) : r \in Request }
Rows == InRound \cup { Behind(r) : r \in Request }
Cell == {Instance} \cup Rows

Locked_Never(r) == FALSE

\* lockInstanceByTask is called by ExecuteProcessTask, by
\* ExecuteAndJumpToFirstTaskNode and by RecallTask, and by no other command.
Locked(r) == Kind[r] \in {"agree", "return"}

Empty == [c \in {} |-> "absent"]

Free == scene.conns - Cardinality(open)
Ended(r) == pc[r] \in {"ok", "failed"}

\* What request r sees: what is committed under what it has written itself.
Over(f, g) == [c \in Cell |-> IF c \in DOMAIN f THEN f[c] ELSE g[c]]
Seen(r) == Over(dirty[r], store)

\* The database lets one transaction at a time write a cell.
Blocked(r, cells) ==
  \E q \in Request \ {r} : DOMAIN dirty[q] \cap cells # {}

Write(r, f) ==
  /\ ~ Blocked(r, DOMAIN f)
  /\ IF InTx
     THEN /\ dirty' = [dirty EXCEPT ![r] =
                        [c \in DOMAIN @ \cup DOMAIN f |-> IF c \in DOMAIN f THEN f[c] ELSE @[c]]]
          /\ UNCHANGED store
     ELSE store' = Over(f, store) /\ UNCHANGED dirty

Goto(r, call) == pc' = [pc EXCEPT ![r] = call]
Only(D, f) == [c \in D |-> f[c]]

\* What a command that has succeeded does next.
Leave(r) == IF Boundary # "facade" /\ InTx THEN "commit"
            ELSE IF Locked(r) THEN "unlock"
            ELSE IF InTx THEN "commit" ELSE "ok"

-----------------------------------------------------------------------------
(* The calls of a request. *)

\* Flow or the engine's entry; the facade's transaction takes its connection.
start(r) ==
  /\ pc[r] = "new"
  /\ IF Boundary = "facade" THEN Free > 0 /\ open' = open \cup {r} ELSE UNCHANGED open
  /\ Goto(r, IF Locked(r) THEN "peek" ELSE IF Boundary = "engine" THEN "begin" ELSE "check")
  /\ UNCHANGED <<lock, store, dirty, copy>>

\* lockInstanceByTask looks the instance of the row up outside the
\* transaction, over a connection of its own.
peek(r) ==
  /\ pc[r] = "peek"
  /\ InTx => Free > 0
  /\ Goto(r, "lock")
  /\ UNCHANGED <<lock, store, dirty, copy, open>>

lockInstance(r) ==
  /\ pc[r] = "lock"
  /\ lock = Nobody
  /\ lock' = r
  /\ Goto(r, IF Boundary = "engine" THEN "begin" ELSE "check")
  /\ UNCHANGED <<store, dirty, copy, open>>

beginTx(r) ==
  /\ pc[r] = "begin"
  /\ Free > 0
  /\ open' = open \cup {r}
  /\ Goto(r, "check")
  /\ UNCHANGED <<lock, store, dirty, copy>>

checkRow_Nothing(r) ==
  /\ pc[r] = "check"
  /\ Goto(r, "load")
  /\ UNCHANGED <<lock, store, dirty, copy, open>>

\* loadAndCheck, its first half: the row itself.  withdraw has no such call.
checkRow(r) ==
  /\ pc[r] = "check"
  /\ Goto(r, IF Kind[r] = "withdraw" \/ Seen(r)[Row(Target[r])] = "DOING" THEN "load" ELSE "rollback")
  /\ UNCHANGED <<lock, store, dirty, copy, open>>

\* FindInstanceByID: the instance and all its rows.
loadInstance(r) ==
  /\ pc[r] = "load"
  /\ copy' = [copy EXCEPT ![r] = Seen(r)]
  /\ Goto(r, IF Kind[r] = "withdraw" THEN "list" ELSE "update")
  /\ UNCHANGED <<lock, store, dirty, open>>

updateTask_NoSync(r) ==
  /\ pc[r] = "update"
  /\ Write(r, [c \in {Row(Target[r])} |-> "DONE"])
  /\ Goto(r, "save")
  /\ UNCHANGED <<lock, copy, open>>

\* The row is DONE, in the store and in the aggregate (UpdateTask,
\* syncTaskToAggregate).
updateTask(r) ==
  /\ pc[r] = "update"
  /\ Write(r, [c \in {Row(Target[r])} |-> "DONE"])
  /\ copy' = [copy EXCEPT ![r][Row(Target[r])] = "DONE"]
  /\ Goto(r, "save")
  /\ UNCHANGED <<lock, open>>

\* saveInstance: the instance and every row of the aggregate.
Aggregate(r) == Only({ c \in Cell : copy[r][c] # "absent" }, copy[r])

saveInstance(r) ==
  /\ pc[r] = "save"
  /\ Write(r, Aggregate(r))
  /\ Goto(r, "follow")
  /\ UNCHANGED <<lock, copy, open>>

\* mergeReady over the aggregate: no open row in the round, and no applicant
\* who edits for a branch of it.
mergeReady(r) ==
  \A c \in InRound : copy[r][c] # "DOING"

agreed(r) ==
  /\ pc[r] = "follow" /\ Kind[r] = "agree"
  /\ IF mergeReady(r) THEN Write(r, [c \in {Behind(r)} |-> "DOING"])
     ELSE UNCHANGED <<store, dirty>>
  /\ Goto(r, Leave(r))
  /\ UNCHANGED <<lock, copy, open>>

returned(r) ==
  /\ pc[r] = "follow" /\ Kind[r] = "return"
  /\ Write(r, [c \in {Apply(r)} |-> "DOING"])
  /\ Goto(r, Leave(r))
  /\ UNCHANGED <<lock, copy, open>>

rejected(r) ==
  /\ pc[r] = "follow" /\ Kind[r] = "reject"
  /\ Write(r, [Aggregate(r) EXCEPT ![Instance] = "REJECT"])
  /\ Goto(r, Leave(r))
  /\ UNCHANGED <<lock, copy, open>>

\* withdraw: the open rows are listed anew, and only they are written with the
\* instance, whose state was read before.
withdrawn(r) ==
  /\ pc[r] = "list"
  /\ IF copy[r][Instance] = "DOING"
     THEN /\ Write(r, [c \in {Instance} \cup { i \in Rows : Seen(r)[i] = "DOING" } |-> "WITHDRAW"])
          /\ Goto(r, Leave(r))
     ELSE Goto(r, "rollback") /\ UNCHANGED <<store, dirty>>
  /\ UNCHANGED <<lock, copy, open>>

\* The deferred Unlock.
unlock(r) ==
  /\ pc[r] = "unlock"
  /\ lock' = Nobody
  /\ Goto(r, IF Boundary = "facade" THEN "commit" ELSE "ok")
  /\ UNCHANGED <<store, dirty, copy, open>>

commit(r) ==
  /\ pc[r] = "commit"
  /\ store' = Over(dirty[r], store)
  /\ dirty' = [dirty EXCEPT ![r] = Empty]
  /\ open' = open \ {r}
  /\ Goto(r, IF Boundary = "engine" /\ Locked(r) THEN "unlock" ELSE "ok")
  /\ UNCHANGED <<lock, copy>>

rollback_KeepsLock(r) ==
  /\ pc[r] = "rollback"
  /\ dirty' = [dirty EXCEPT ![r] = Empty]
  /\ open' = open \ {r}
  /\ Goto(r, "failed")
  /\ UNCHANGED <<lock, store, copy>>

\* The command returns an error: lock and connection are given back and the
\* transaction is undone.
rollback(r) ==
  /\ pc[r] = "rollback"
  /\ lock' = IF lock = r THEN Nobody ELSE lock
  /\ dirty' = [dirty EXCEPT ![r] = Empty]
  /\ open' = open \ {r}
  /\ Goto(r, "failed")
  /\ UNCHANGED <<store, copy>>

\* The database ends a transaction that waits for a cell another one holds.
lockTimeout(r) ==
  /\ InTx
  /\ \/ pc[r] = "update" /\ Blocked(r, {Row(Target[r])})
     \/ pc[r] = "save" /\ Blocked(r, DOMAIN Aggregate(r))
     \/ pc[r] = "list" /\ Blocked(r, {Instance} \cup { i \in Rows : Seen(r)[i] = "DOING" })
  /\ Goto(r, "rollback")
  /\ UNCHANGED <<lock, store, dirty, copy, open>>

Serve(r) ==
  \/ start(r) \/ peek(r) \/ lockInstance(r) \/ beginTx(r)
  \/ checkRow(r) \/ loadInstance(r) \/ updateTask(r) \/ saveInstance(r)
  \/ agreed(r) \/ returned(r) \/ rejected(r) \/ withdrawn(r)
  \/ unlock(r) \/ commit(r) \/ rollback(r)

Next == (\E r \in Request : Serve(r) \/ lockTimeout(r)) /\ UNCHANGED scene

Init ==
  /\ scene \in Scenes
  /\ pc = [r \in Request |-> "new"]
  /\ lock = Nobody
  /\ store = [c \in Cell |-> IF c = Instance \/ c \in { Row(b) : b \in Branch } THEN "DOING" ELSE "absent"]
  /\ dirty = [r \in Request |-> Empty]
  /\ copy = [r \in Request |-> store]
  /\ open = {}

Spec == Init /\ [][Next]_vars

\* Every request is served by a goroutine the scheduler does not forget, the
\* mutex of Go is fair to those who wait for it, and the database lets nobody
\* wait for a cell for ever.
FairSpec ==
  /\ Spec
  /\ \A r \in Request : /\ WF_vars(Serve(r) /\ UNCHANGED scene)
                        /\ SF_vars(lockInstance(r) /\ UNCHANGED scene)
                        /\ WF_vars(lockTimeout(r) /\ UNCHANGED scene)

-----------------------------------------------------------------------------
(* Properties. *)

\* Every request takes the mutex and keeps it until its transaction has ended.
Serialised == Boundary # "facade" /\ \A r \in Request : Kind[r] \in {"agree", "return"}

\* The join lets the round through once, whichever of the last branches finish
\* together ("the join releases once", the comment on instLocks).
JoinReleasesOnce == Cardinality({ r \in Request : store[Behind(r)] # "absent" }) <= 1

\* However the last branches, a return among them, come in together: the join
\* lets the round through once; when it has, no branch of it is open and no
\* applicant edits for one ("a return interleaved with another branch's
\* arrival", the comment on instLocks); and when all requests are answered, an
\* instance that still runs has an open row.
JoinSound ==
  Serialised =>
    /\ JoinReleasesOnce
    /\ (\E r \in Request : store[Behind(r)] # "absent") => \A c \in InRound : store[c] # "DOING"
    /\ (\A r \in Request : Ended(r)) /\ store[Instance] = "DOING" =>
         \E c \in Rows : store[c] = "DOING"

\* A row is handled by one request: of several that complete the same row at
\* the same time one succeeds ("the same task handled twice", the comment on
\* instLocks).
HandledOnce ==
  Serialised =>
    \A r, q \in Request : pc[r] = "ok" /\ pc[q] = "ok" /\ Target[r] = Target[q] => r = q

\* No request writes an old state of a row back over the one another request
\* has settled (the cascade of UpdateInstance).
SettledRowsStay ==
  [][Serialised => \A c \in Rows : store[c] \in {"DONE", "WITHDRAW"} => store'[c] = store[c]]_vars

\* Every request is answered: nobody waits for ever for the mutex, for a
\* connection of the pool or for a cell of the database.
RequestsEnd == \A r \in Request : <>Ended(r)
=============================================================================
