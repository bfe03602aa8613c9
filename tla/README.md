# Verification of jeeflow-go

TLA+ models of the workflow engine in this repository, TLC runs that check them
on small instances, and TLAPS proofs of what holds for every process definition.
Paths are relative to the repository.

## The system

jeeflow-go executes process definitions (JSON graphs of start, task, decision,
fork, join, custom and end nodes) and keeps their state as one *instance* and
its *task rows* in a repository.

| Part | State it keeps | Operations | Where |
|---|---|---|---|
| Flow analysis | none (pure) | successors, branch ranges between fork and join, reachability for a rollback | `engine/reapply.go`, `engine/engine_impl.go` |
| Engine commands | instance state, variables, task rows | start, execute (submitType 0, 1, 20), reject (2), roll back (3), jump (4), return (6) | `engine/engine_impl.go`, `model/instance.go` |
| Return to source | `_reapplyContext` and `_branchCtx` in the variables of a row | return with a way back (6), resubmit (5), the merge test of a join | `engine/reapply.go` |
| Recall | history of recalls | take back one's own completed row | `engine/recall.go` |
| Added signers | round per node, history | name further signers on completion | `engine/add_sign.go` |
| Dynamic countersign | member rows below a host row | launch, answer, revoke | `engine/collect.go`, `facade/collect.go` |
| Concurrency control | a mutex per instance, a database transaction | `lockInstanceByTask`, `InTx`, `WithTx`, `AfterCommit` | `engine/reapply.go`, `engine/engine_impl.go`, `repository/jdbc/jdbc.go` |
| Facade | none | `Flow` dispatches action names to the engine in one transaction; withdraw, start and execute | `facade/facade.go` |
| Participants of a task | participant rows, in whatever spelling they were stored; the ledger of transfers in a row's variables | add, transfer, remove; a completion writes back what it loaded | `facade/facade.go`, `spi/ccactors.go`, both repositories |
| Definitions and designs | definitions with name, version and state; designs with a mark "deployed"; snapshots of a design | deploy, redeploy, remove, up and down; save, update, publish, remove a design; start | `facade/facade.go`, both repositories |
| Carbon copies | copy rows, read or not | copies by a start, an execution or on request; mark as read | `engine/interceptor.go`, `facade/facade.go`, both repositories |
| Events and legs | the legs a transaction carries until it has committed | dispatch to the listeners, `RunAfterCommit`, `AfterCommit` | `engine/interceptor.go`, `repository/jdbc/jdbc.go` |
| Lists | none | the seven paged lists with their conditions, as each repository answers them | `facade/facade.go`, `memory/`, `repository/jdbc/` |
| Delegations | delegation rows with a scope, a window and a switch | save, update, remove; the lookup for each participant of a new task | `facade/facade.go`, `engine/surrogate.go`, both repositories |
| Repositories | all tables | load an instance with its rows; `UpdateInstance` writes it back *with* its rows | `memory/`, `repository/jdbc/` |
| Extensions | none | interceptors, deadlines, assignment handlers | `engine/interceptor.go`, `expire_time.go` |
| Form persistence | business tables | writes form fields on completion | `persist/` |

A request enters through `Facade.Flow` (or calls the engine directly), which
opens a transaction if the repository has one. The engine command takes the
mutex of the instance (some commands do not), loads the row, the instance and
all its rows, completes the row, saves the instance with the cascade over its
rows, and walks the definition depth first from the completed node, inserting
rows at the tasks it meets.

What is hard here, and the reason for the properties below:

* a token's way back (return, resubmission, rollback, recall) crosses forks and
  countersigns, whose counting is spread over the variables of many rows;
* several commands meet on the same join or the same row, and the copy each has
  loaded is written back as a whole;
* a command can fail half way, after the row was completed;
* the handlers of participants, definitions, copies and delegations read, decide
  and write in several calls without a mutex, and the two repositories
  answer the same call in different ways;
* what is to happen after a commit must not happen before it, nor be lost, through nested transactions;
* the variables of the instance remember earlier passes over a node.

What makes each part correct: an instance in progress always has an open row;
a branch has one token; a join releases a round once, complete; a
countersign asks everybody, in order if sequential; added signers release the
token once; a settled row is never reopened; a row is handled by one request;
every request is answered. A design that says so was published, and a definition in use
stays; a row keeps somebody who may act on it; who is copied has one copy
and the listeners hear of it once; nobody is shown another's list; a
delegation works exactly as long as it is in force.

## Modules

| Module | Models | Checked by |
|---|---|---|
| `FlowModel` | the pure algorithms over a definition | every Engine run |
| `Engine` | one instance, the commands one at a time | `MCEngine` |
| `EngineProofs` | theorems about `Engine` | TLAPS |
| `Collect` | the dynamic countersign on top of `Engine`, one request at a time | `MCCollect` |
| `CollectProofs` | theorems about `Collect` | TLAPS |
| `InstanceLock` | concurrent requests on one instance: mutex, transaction, loaded copies | `MCInstanceLock` |
| `InstanceLockProofs` | theorems about `InstanceLock` | TLAPS |
| `Designs` | concurrent requests on definitions and designs | `MCDesigns` |
| `DesignsProofs` | theorems about `Designs` | TLAPS |
| `Membership` | abstract: who may act on a row, each request in one step | by `Actors` |
| `Actors` | concurrent requests on participant rows; implements `Membership` | `MCActors` |
| `ActorsProofs` | theorems about `Actors`, with the refinement | TLAPS |
| `Copies` | carbon copies, events and after-commit legs over nested transactions | `MCCopies` |
| `CopiesProofs` | theorems about `Copies` | TLAPS |
| `Pages` | the lists, as the two repositories answer them | `MCPages` |
| `PagesProofs` | theorems about `Pages` | TLAPS |
| `Surrogates` | delegations edited while the engine looks agents up | `MCSurrogates` |
| `SurrogatesProofs` | theorems about `Surrogates` | TLAPS |

The state machines cut the system at the command. `Engine` and `Collect` say what a
command does when it is alone; `InstanceLock` what goes wrong when the reads and
writes of several commands on one instance interleave, and there a command is reduced to the cells
it reads and writes. The other modules take one table, or two that depend on each
other, with every handler that writes it, call by call. What connects them to the engine is in
them as a handler: the start that uses a definition, the completion that writes participants back,
the execution that copies people, the creation of a task that asks for agents.

Several modules have a constant `Stores`. The first state picks one of the repositories, and the
actions differ where the repositories do: over memory a write is seen at once and
stays, over JDBC the writes of a request appear together when its transaction
commits (a request in `pc = "write"` has the tables to itself).

History variables record what the code does not: they are read by properties only.

### FlowModel

A definition is a record of the node sequence, the types and the successor
sequences, in file order, because ties are broken by it. Visited-set loops are
least fixed points (`Grow`). `maxDistanceToJoin` computes a minimum number of
hops, as the code does, although its comment says maximum.
`nearestPostDominatingJoin`, `findForkForJoin` and `staticScopes` give each node the joins
whose range it is in.

### Engine

State: `state`, `task`, `ivars` are the instance, its rows and the instance
variables the engine reads back; `last` is the newest row id; `work` is what the
recursion of `executeNode` has still to do; `cmd` what the running command
carries (operator, `tf_nextNodeOperator`, the node whose assignee was
overwritten with the applicant); `saved` what the transaction would restore;
`ends` counts end events.

One action per command and one per node type. A command is two kinds of steps:
the first completes the row, passes the gates of the node and pushes its
successors; each further step pops a node. Nothing else runs while `work` is not empty.
The gates of `executeProcessTaskInner` split it into four actions:
`ExecuteWait`, `ExecuteNextMember`, `ExecuteAddSign`, `ExecuteAdvance`.

A row's variables are kept where the engine reads them: `scopes` (`_branchCtx`),
`back` (`_reapplyContext`), `cs` (`operatorList_`, `loopCounter_`), `round`
(`addSignRound_`), `owner` (`u_userId`). Merging row and instance variables on
completion, and what leaks from one pass to the next through it, is modelled.

Free choices: which expression of a decision is true, and whether a custom handler fails.
Left out: forms, texts, times, surrogates, interceptors, carbon copies, edges to missing nodes.
A caller always gives a submitType, and a user provider is configured.

### Collect

EXTENDS `Engine` and adds three facade operations: `tryDynamicCountersign` (ask),
`gateDynamicCountersign` (no command on a host's row while a member is asked)
and `taskRevokeCountersign`. `Submission` is every command of the engine
with that gate in front of it. There is no new kind of row: a member is
recognised, as in the code, by its parent being a row of the same node
(`IsCollectMemberRow`), and the gate behind a member, which keeps the token, is
an action of `Engine`. The only new state is `ledger`, the rounds in a row's
`tf_addSignHistory`. Left out: the combination with `tf_nextNodeOperator`, and the
projection of the members for display.

### InstanceLock

An instance at a fork with an open row per branch, and requests `agree`,
`return`, `reject` and `withdraw`. A cell is the state column of the instance or
a row. Each request goes through the repository calls of its command in order.
`scene`, chosen among the constant `Scenes`, says what each request wants of which row, the
deployment and the size of the connection pool. The deployment is memory (`none`), jdbc with the engine
called directly (`engine`), or jdbc through `Flow` (`facade`). The database is modelled as: one
writer per cell until commit, reads see committed data and one's own, a waiting
writer may time out, and no conflict detection at commit (read committed). A
lookup outside the transaction needs a free connection for the duration of the call.

The safety properties are about scenes that are `Serialised`: every request takes the mutex
and the transaction ends before it is given back, which is not so through the
facade (a finding), and not so for rejections and withdrawals, which take no mutex.

### Designs

State: the three tables, the definitions that have an instance, the next ids, and for each
caller its request: the next call, what has been read and the writes that are planned.
A handler is an action that enters (`deploy`, `redeploy`, `removeDefine`,
`upAndDown`, `startAndExecute`, `designSave`, ...), the reads it makes, each named after the
repository call (`FindDesign`, `ListDesignHis`, `FindName`, `FindDefine`,
`HasInstancesByDefineID`), and the writes in their order. The content of a definition is a value
of which only the name it carries is known. `published` holds what was ever deployed.

No handler takes a lock. A request is *overtaken* when something it has read is
changed before it writes; what it then writes can break every property here, in the code as
in the model: a start beside a removal leaves an instance without a definition, a redeployment writes
back the state from before an `upAndDown`. `UsedIsKept` and `StateByUpAndDown` exempt that one write, of the request
that was itself overtaken, and hold of every other write before and after it. `UsedIsKept` says two things: a write
takes no instance's definition away and starts none without one, and a removal that is
writing has found everything it has still to remove unused, so a batch with one definition in use
removes none. `disorder` records that an overtaken request has written, and also a redeployment that renames a
definition or brings a removed one back, after which the repositories find different rows for a name.
`DeployedIsPublished` is claimed until the former, `LatestAgrees` until either.

### Actors and Membership

`Membership` is what a user of the facade may think: rows have members; one request adds, hands over,
removes, completes, in one step, whichever repository and spelling. In `Actors` a participant
row holds a spelling, the same person may be there as `"u1"` and `" u1 "`, a blank row belongs to nobody, and each
handler is a sequence of calls; the completion by the engine loads the rows of the
instance and writes them all back. The mapping trims and drops blanks
(`People`), and between the writes of a transfer gives the row the members it will have. `Implements` is the refinement: every
step is the abstract action of the request whose first write it is, or changes nothing abstract,
up to the first write of an overtaken request (`disturbed`), and so is `OneRowEach`: two additions of one person that
both read before the other inserted give that person two rows over JDBC. Two transfers, or a transfer and a completion, that
both loaded the row do lose entries of the ledger; `LedgerGrows` exempts the write of the request that was
itself overtaken and nothing else, so the others only append, also to a row some overtaken request has written.
It names the abstract action of that very request, which is more than
`Abstract!Spec` says.

### Copies

An action is a script of entering and leaving `WithTx`, copying and other work,
so nesting is the one the code has: `Flow` around the commands of the engine, and three
transactions in a start. `HandleCcActors` normalises the list, inserts the missing (over JDBC two reads
and an insert) and fires an event per person, one listener after the other. A list of people is a function
from positions, which has gaps where the normalisation drops a blank or a repetition. The constant `Listeners` says what each listener does: panic, hand
a leg to `RunAfterCommit`, or hand over a leg that copies somebody else. `told` counts the legs that have run, `owed` those
that should have. Any piece of work can fail, which rolls the outermost transaction back.

### Pages

The first state is a table and a question: a list, an operator, through the facade or of the
repository, a condition, a page size. The steps turn the pages. `MemoryRows` follows the predicates of the memory
repository, `JdbcRows` the joins, the whitelist of columns and the WHERE of
the JDBC repository. Memory's unsorted lists come in any order, another one for
each page. `DefaultSize` is 2 and not 10, so that three rows make two pages.
Nothing is written meanwhile.

### Surrogates

Rows are saved, updated in two calls and removed by editors; the clock goes on; and the engine builds the
participants of a task: it takes the time once, and asks for one participant
after the other, over JDBC for the scope of the process and then for all processes, where a
query may fail. `granted` holds the agents some deciding row named at some time of the
lookups, `lasting` those named all the time.

## Runs

Properties are stated with a comment in the modules. A definition `F_Bug` is a
plausible wrong version of `F`; each property of a passing run is violated when its
version replaces `F`.

A run puts several nodes of one kind side by side, or several deployments, when it asks the same of all of them.

| Run | Instance | Shows |
|---|---|---|
| `EngineFork` | a fork in a branch of a fork; execute, reject, rollback, return, withdraw; one user, 12 rows | each join releases a round once and complete, scopes of the two ranges do not mix, one token per branch |
| `EngineVote` | behind a decision: a sequential, two parallel countersigns (one by two of three) and a node with added signers, then decisions that fail or lead back and a handler that fails; three users, vetoes, rollback and return; 9 rows, under transactions, fair | all members asked, in order, one release; a token is not lost; every command ends |
| `EngineBroken` | unknown node type, returns that cannot be, jump, recall; no transaction; 7 rows | lineage and settled rows survive failed commands, and a recall undoes what followed |
| `CollectHost` | a dynamic countersign in a branch of a fork; three users; execute, reject, rollback, return, withdraw; 9 rows | the host decides, last; nobody is asked in vain or twice; ledger and rows agree |
| `Lock` | four requests: three agree and one returns, two of them on one row, over memory, jdbc on the engine (2 connections) and through the facade (5); and agree, reject, withdraw, return through the facade (3) and on the engine (2); fair | where serialised: join once, one handler per row, no stale write, no instance without a row; everywhere: every request is answered |
| `Designs` | two callers, two contents; at most 2 definitions, 1 design, 2 snapshots; three sets of handlers | a design marked deployed was published; whoever was not overtaken takes no instance's definition away, removes nothing of a batch with one in use, and changes a state by up and down only; all lookups mean the same newest row |
| `Actors` | two callers, two rows, two users, one of them in two spellings, and blank rows; one transfer per row | `Membership` is implemented; nobody is on a row twice; the ledger of transfers grows but by the write of a request that was overtaken |
| `Copies` | two callers, two people, lists with repetitions and blanks; listeners leg, panic, leg | one copy and one notice per person; no notice before the commit or after a rollback; read marks stay |
| `Pages` | tables of up to three rows of four kinds, every list, page sizes 0 and 2 | nobody sees another's rows; each row on one page; the repositories agree |
| `Surrogates` | two editors, three rows, three edits, six submissions, two clock values, one or two participants | only deciding rows give agents, and lasting ones do; a removed delegation stays removed |

Runs that are expected to find a violation; each is a finding in `PROJECT.json` with the
line it contradicts:

| Run | The code |
|---|---|
| `LockFacade` | the facade commits after the mutex was given back, so two requests can both pass the join |
| `LegLost` | a leg that copies somebody makes an event whose own leg is handed to the committed transaction, which drops it |

Other disagreements met while modelling, not given a run of their own:

* a recalled row can be recalled again, giving two open rows, against "the only open row" of `engine/recall.go:51`; on a node with both `dynamicCountersign` and `allowRecall` a member can recall an answer after the host has decided;
* a sequential countersign in a branch of a fork is skipped after its first member, because its gate counts the open rows of the whole instance (`engine/engine_impl.go:217`, `:1206`);
* a second pass over a node creates a round of added signers beyond `addSignMaxRounds` (`engine/add_sign.go:68`);
* where the token comes back to a node with a dynamic countersign from the node itself, the next host is taken for a member of the last one (`engine/collect.go:23`); a revocation there also loses the token;
* a rejection and a jump leave the open rows of other branches alone, where `docs/engine-api.md:51` and `:61` have them abandoned;
* a rollback to a countersign reopens its last member only; through a loop a sequential countersign can be rolled back in a way that skips a member, and on some loops `canRejected` does not return (`engine/engine_impl.go:825`);
* a command on another row that has loaded the rows before a rejection writes the rejection away, and a withdrawal beside a rejection overwrites it, since neither takes the mutex (`facade/facade.go:453`);
* a member can reject, jump or return, which `engine/collect.go:17` leaves to the host;
* two requests that each leave one participant can together leave none, and a transfer beside a completion can reopen the row (`facade/facade.go:1926`, `:2061`);
* `internal/surrparity/surrparity.go:18` says that one scope does not fall back on another, where the lookup goes from the process to all processes; a delegation that is moved from all processes to this one between the two queries is found by neither;
* the memory repository brings a delegation back that was removed during an update, does not page or filter designs, and returns unsorted lists in another order each time; `pageSize` 0 with rows to show divides by zero (`facade/facade.go:2324`);
* the id generator of the JDBC repository is not synchronised (`repository/jdbc/jdbc.go:195`).

### Bounds

`MaxTask` bounds the rows: no command starts that could create more than
`Burst` rows beyond it. Deadlock checking is off, because an instance that has
ended, or has used up its rows, stops, and so do requests that are answered and tables that are full. The values let the nodes in question be passed
at least twice, which is what the leftovers of an earlier pass need:
12 rows are two rounds of the nested fork with returns in the branches, 9
two or three passes over a vote, or the fork with two rounds of asking, 7 a failed and a
repeated pass. Two branches, two or three members and two nesting levels suffice for the relations
the properties speak of (a branch and another one, a member and the
next). `NextOps`, `SignOps`, `JumpTargets` and `Commands` restrict a run to
the inputs its question is about; between them the runs use every command.

In `InstanceLock` four requests put two on one row, one on the other and one
return between them. The pools have, where transactions overlap, one connection more than
the requests hold that still need a second one; with fewer they wait for each other for ever (a hazard).

Elsewhere two callers suffice for an overtaking, as the properties relate one request
to another, and callers are symmetric. `MaxDefine`, `MaxDesign` and `MaxHis` count the rows
ever inserted: two definitions can have the same name, or two names,
and a design a first and a second snapshot; `Mixes` keeps the handlers of definitions
and those of designs apart but for one mixture, which meets
them where a design is published. `MaxHops` lets each row be transferred once, and be
transferred, or refused, at the bound. `Designs` has no constraint: every overtaken request, its writes and
what follows them are explored. `Actors` has one, `OvertakenWritesFirst`: requests that are overtaken, and
what follows their writes, are explored for transfers and completions, which write the ledger, and an overtaken request
writes before the other begins its next. An addition or a removal that is overtaken is left out: its write
exempts `Implements` and `OneRowEach` and does not touch the ledger, and the proof of `Ledger` covers it.
`Pages` really exercises positive page sizes only: with size 0 there is an answer only where nothing matches (else the division
panics), and negative sizes are not in the run. Three delegations are what it takes
to have one superseded in the scope of the process and a fallback; `MaxTime` 1 has a time before and after each end of a window.

### Fairness

`Engine!FairSpec`: weak fairness of the walk's steps; a command runs in one
goroutine that nothing stops. Commands themselves are not fair: users need not act.
`InstanceLock!FairSpec`: weak fairness of each request's next call, strong
fairness of taking the mutex (Go's mutex hands over to a starving waiter after
1 ms), and of the database's lock timeout. Commits and
connections need no more than weak fairness, as long as a free connection is not always taken by
others: the number of requests is finite.

`CommandEnds` (run `EngineVote`) is checked on a definition whose decisions cannot lead back to
themselves with expressions that stay true for ever; a definition with such a loop does not
end, in the code as in the model. `RequestsEnd` is checked in `Lock`. The other modules state no liveness: their
requests are straight lines of calls.

## Proofs

| Module | Theorem | States |
|---|---|---|
| `EngineProofs` | `Inductive` | `Spec => []IInv({})` |
| | `TypeCorrect`, `Lineage`, `Scopes` | `TypeOK`, `LineageSound`, `ScopeSound` always |
| | `Settled` | `SettledRowsStay` |
| | `RecallInductive`, `TakenBack` | the invariant of recalls, and `RecallUndoes` from it |
| | `JoinInductive`, `LetThroughOnce`, `LetThroughWhole` | the invariant of joins, and `JoinOnce` and `JoinComplete` from it |
| | `TokensKept`, `SomebodyCanAct` | the invariant of tokens that are not lost, and `NoZombie` from it |
| | `ApartInductive`, `NothingLeftBehind`, `SoleToken` | the invariant of tokens kept apart, and `EndIsClean` and `OneTokenPerBranch` from it |
| | `BranchesBegun`, `LetThroughCounted` | the invariant of branches begun, and `AllBranchesCounted` from it |
| `CollectProofs` | `CollectInductive` | the invariant of hosts, members and ledger |
| | `CollectTyped`, `HostAlone`, `Members`, `Ledger` | `CollectTypeOK`, `HostDecides`, `MembersSound`, `LedgerSound` always |
| | `HostsApart`, `OneHost`, `NobodyLeftAsked` | the invariant of tokens kept apart, and `OneHostPerBranch` and `EndIsClean` from it |
| `InstanceLockProofs` | `MutexInductive` | the invariant of the mutex holder |
| | `JoinSafe`, `Handled` | `JoinSound`, `HandledOnce` always |
| | `SettledStay` | `SettledRowsStay` |
| `DesignsProofs` | `Inductive` | until an overtaken request writes, the tables are sound and each handler knows what its guards established |
| | `MarkIsEarned`, `NewestIsOne` | `DeployedIsPublished`, `LatestAgrees` always |
| | `ReadyAlways` | whatever was overtaken before: each request that is not overtaken finds what it has read and planned still true |
| | `DefinitionKept`, `StateSwitched` | `UsedIsKept` and `StateByUpAndDown`, from it |
| `ActorsProofs` | `Inductive` | until an overtaken request writes, each request can rely on what it has read |
| | `Refinement` | `Implements`: `Actors` implements `Membership` |
| | `OnceEach`, `Ledger`, `SomebodyStays` | `OneRowEach` always, `LedgerGrows`, and through the refinement `Membership`'s `SomebodyLeft` |
| `CopiesProofs` | `Inductive` | the invariant of the scripts, the copies and the accounts of notices |
| | `CopiedAndTold`, `ToldWhenSeen`, `ReadOnce` | `AsCopied` always, `LegsSeeCopies`, `ReadStays` |
| `PagesProofs` | `Ownership`, `Agreement`, `Paging` | `OwnRowsOnly`, `SameAnswer`, `EachRowOnce` always |
| `SurrogatesProofs` | `Inductive` | `Spec => [](RowsOK /\ JobOK)` |
| | `Delegates`, `Working`, `Removed` | `OnlyDelegates`, `DelegatesJoin`, `RemovedStays` always |

The assumptions on the constants are declared with them and evaluated by TLC in every run. No bound is used
but as a number.

**EngineProofs**, for every definition, set of users, inputs and bound, assumes
`FlowAssumption` (every edge leads to a node, there is a start node),
`PropsAssumption` (node properties have their type and pass
`validateAddSignFlow`), `UserAssumption` and `InputAssumption`.

`TypeOK` is not inductive by itself: a new row's scopes are read from the row
its parent field names, so this has to be a row; a rollback reopens the parent for
`by` or `owner`, so a parent must have been completed by a user. `IInv` adds that every row
refers to older rows and its parent is completed (`RefsOK`), that its scopes are
rooted in a row of the same branch (`ScopesOK`), the same of the rows a transaction
would restore, that every pending token comes from such a row (`PendingOK`), and that a walk has an operator.

The argument is one idea used for every command: it *evolves* the table
(`Evolves`): it settles open rows without touching what lineage and scopes are read
from, and appends fresh rows whose references are sound. `EvolvesSound` shows that this keeps the
invariant, each action gets a lemma `...Keeps` showing that it evolves, and only `abort`,
which restores the saved table, is separate. `Settled` follows from the same fact.

The set `H` that `IInv(H)` takes are the nodes at which an open row may have rows of its own node below it: none in the
engine, those with a dynamic countersign in `Collect`. So each lemma about a command serves both. `JInv` and `SInv` below take it too.

`RecallUndoes` needs a second invariant, `RInv`, and a hypothesis, `RecallsApart`: from one node a task with allowRecall is
met along one edge only before the next tasks come, and no added signer stands at one. The code does not enforce it; without it an open row
there can have an older one beside it that no recall has undone. TLC evaluates it of every definition the runs of `MCEngine` use. `RInv` says that such an
open row with an older one of its node and parent has one among them that is `Void`: completed, everything below it dropped, and no token coming from it; and
that two tokens of a walk do not lead to the same such task, nor one to a task that has its row from it (`Parted`).
The proof turns on a `Void` row not coming back to life: a row gets new ones below it when its own open row is completed, when a token comes from it,
or next to a row below it that was not dropped (`Source`), and a `Void` row is none of these. What a recall drops is closed under "below":
`recallDescendants`, a recursion over the rows, is shown to compute the least set with that property (`RecallHeirs`).

`JoinOnce` and `JoinComplete` need a third, `JInv`, and a hypothesis, `BranchesMeet`, on the shape of the definition, which the code does not
enforce either: from a task in the range of a join the token meets tasks of the range, the join, or the applicant, and behind the join none of
the range; where a token is split no join comes before the next task (such a join would see no open row of the other branches and let
its round through early); the applicant, and tasks with allowRecall, lie in no range, since their new rows are made without scopes; a rollback
leads into ranges that it leads out of; a sequential member is not rolled back to another; and nobody jumps, since a jump puts a token
anywhere. TLC evaluates it of the nested fork of `EngineFork`. `JInv` says three things. The scopes of a row are what its node and its parent imply, and
a round starts at a completed row (`Suits`). All tokens of a walk come from one row, and of each range that row lies in they are either all inside, and the
round is not through, or all behind the join, and it is through in the name of that row (`Walks`). And a round that
is through, is through in the name of one row, and no open row lies in it or is to bring one back into it (`Passes`).
The last is kept because an open row keeps its own rounds from being let through (`Hampered`), and a command gives a new row no rounds but those
of the open row it completes and one that starts there; the walk passes a join only when `mergeReady` has found that no open row keeps the round.

`NoZombie` needs a fourth, `ZInv`, and a hypothesis, `TokensLand`, each part of which leaves out a way in which the code strands an
instance: a node of a type the engine does not know, or one without an outgoing edge that is neither a decision nor an end; an edge or a jump to
the start; a countersign that waits for more answers than it has members, by its own or an incoming roster, or as the first task, which asks the initiator alone, or for exactly so many, when an earlier pass
can leave more behind; and, over a repository without transactions, a handler that fails, a decision without a route, and a return to the source
where none is possible. TLC evaluates it of the definitions of `EngineVote` and `EngineFork`. A walk ends with a row or an end node, unless a join
waits, which it does for an open row; a failure goes back to where somebody could act, which `ZInv` says of the saved rows too. What
is hard is a countersign that an expression decides, `nrOfCompletedInstances >= k`: its gate counts the answers of all passes and may stop the token
with no row of *this* command's left. `Enough` says that the node has its `k` answers, or each row there that is open or
answered has `k` such rows under its parent. It is kept because a row that a rollback makes joins such a team, because what the
node drops when it has been decided no longer matters, and because a recall drops a team whole or not at all (`RecallHeirs` again).

`EndIsClean` and `OneTokenPerBranch` need a fifth, `SInv`, and a hypothesis, `TokensApart`, which adds to `BranchesMeet`: nobody recalls; wherever
a token splits, all its edges lead into a range that it was not in; a range is left through its join alone, by returns and rollbacks too; those start at no task
that leaves other signers or members behind, unless a return to the source is direct; and sequential members and the shared first task stand outside. Each
part leaves out a way in which two tokens of one branch come about, and so the way in which an instance ends over an open row. `OneTokenPerBranch`
moreover supposes that the nodes in a range have neither several members nor added signers, who lie in the same branches; `EndIsClean` does
not. TLC evaluates both hypotheses of the definition of `EngineFork`. `SInv` says that any two open rows are `Clear` of each other: there is a join in whose
round they are in two branches (an applicant is counted where its source is), or they are `Fellows`, signers of one node, or two rows of a node with a dynamic countersign one of which is below a row of that node; of a token of a walk, that each open row either
stands in another branch of a round the token is still in, or is the first of its branch in a round that starts at the row the token comes from and
that the token enters too (`Passing`); and of two tokens of a walk, that they enter one range (`Parting`). A walk keeps this because the node it executes splits only into a range that is
new to it (`Splits`), because rows made from one another keep the branches they lie in, and because the join lets a token out only when no row is open in the round, which is
what `JInv`, a conjunct, says. At the end node no join can be passed any more, so nothing else is open.

`AllBranchesCounted` needs a sixth, `BInv`, and a hypothesis, `ForksBegin`, which adds to `BranchesMeet`: each edge of the fork of a join leads to a
task of the range, on whatever route; from a task outside the range the token comes into it through that fork alone; sequential members stand outside; and
over a repository without transactions no decision lacks a route and no handler fails, since a command that stops half way through a fork leaves a round with
some of its branches, which the join then takes for all. The last is what a transaction is for: with one, decisions and handlers may fail anywhere. Recall is allowed here, and so are
added signers and members within a branch. TLC evaluates the hypothesis of the definition of `EngineFork`. A round is counted by its `Roots`, the rows its branches start with. `BInv` says that every round that has a root
has as many as its fork has edges (`Counted`), in the saved rows too, and of the one round that the walk under way is filling that its roots and the tokens that are to start a branch (`Due`) together
are as many, once the fork has been executed (`Filling`). `Due` names a token by its height on the stack, which it keeps while the walk is busy above it. That no other command starts a branch follows from the scopes: a row that
is completed has one in each range of its node (`Seated`), so the rows made from it inherit. `AllBranchesCounted` follows with `JInv`: the rows of the round that is being filled
are open, so it has not been let through.

**CollectProofs**, for every set of users, rosters and every bound, assumes the above, `SignOpsAssumption` (nobody is named twice in
one request, as `addSignOperatorsFrom` folds them) and, as a hypothesis of each theorem, `AsksAhead`: behind a node with a dynamic
countersign, or where a jump or a return puts the token, another task comes before that node, no rollback leads from there, or from the node itself, to
the node, and the node does not allow recall. The code does not enforce this; without it the properties
fail, as told above (the next host is taken for a member; a member takes its answer back). TLC evaluates it of the definition of `CollectHost`.

A member is known by its parent and its node alone, so the invariant `CInv` has to say of every row, open or not, where it lies: `Placed` says
that a member's parent is no member, and that a row that is not a member lies at another node than a host or a member it is
below, behind a member only where a jump or a return has put it. The same is said of the nodes a walk has still to execute (`Coming`): which nodes
can still be met is a closure over the definition (`Met`), which each step of the walk stays in. `Hosted` (the host of an open member row is open) is kept
because `gateDynamicCountersign` stops the host's own commands, because commands that drop rows drop all that are open at a node, and because what a
recall drops is closed under "below" (`RecallHeirs`, above). `Apart` and `Numbered` are the properties themselves over all rows, and what a failed transaction
restores satisfies them too (`Restorable`).

`OneHostPerBranch` needs the tokens kept apart, `SInv(HostNode)`, and so `TokensApart` and `AsksAhead` as hypotheses, and that no node in a range but those with a
dynamic countersign has several members or added signers; TLC evaluates all three of the definition of `CollectHost`. The commands of the engine keep it as they do in
`EngineProofs`. A member has the seat of its host (`MemberSeat`): the host has a scope in each range of its node and is nobody's applicant, so
`buildScopes` reads all of the member's scopes from the host's row, and whoever is in another branch than the host is in another than the member.
Asking therefore brings no round back that is through, and starts none. Of two `Fellows` at such a node one is taken for a
member, so two hosts of one branch would have to diverge. `NobodyLeftAsked` is `EndIsClean` for this specification: neither a host nor a member is open when the instance has ended.

**InstanceLockProofs**, for any number of requests and branches, in scenes that are `Serialised`; it assumes
`SceneAssumption`, `BranchAssumption` and `NobodyAssumption`. The properties speak of the store between commands, but a command
writes in four calls. The invariant `Stage` says, for each call the holder of the mutex is about to make, what it
finds: until it writes, the store is what the last holder left and its own row is still
open; while it writes, its aggregate is what it sees, and the round is not released; before the commit what it sees is sound and has an open row. Everybody else has written
nothing that is not committed. From this `JoinSound` is what every holder leaves behind, `HandledOnce` holds because a row
found open can be settled by one holder only, and a stale write cannot
happen because a loaded aggregate is never old.

**DesignsProofs**, for any number of callers, contents, definitions, designs and snapshots; assumes `StoresAssumption` and
`BoundsAssumption`. There are two invariants. The one behind `MarkIsEarned` and `NewestIsOne` is only claimed until an overtaken request has written, which is what
these properties exempt. Then a request that has not been overtaken finds the tables as it read them, and the
invariant gives, for each handler and each call it is about to make, what its guards have
established: a removal that no instance uses the definition, a publication which snapshot
is the newest, a redeployment that its version is next. The tables themselves are sound: ids are below the next one, of one name the higher id has
the higher version, a deployed design has its newest snapshot in `published`. A write shows that both parts are kept, by the
request itself and for everybody else, who is overtaken if the write changes what they have read.
The other (`AlwaysInv`) holds whatever was overtaken and written, and speaks of each request that is not overtaken by itself: what it has
read of what it will write is what the tables hold: what a removal has still to remove no instance uses, what a start names
is there, what a redeployment writes has the state that is there. Of the tables it needs only that their ids have been given out, as an overtaken write may have spoilt the rest, and it
gives `DefinitionKept` and `StateSwitched`, whose exemption is per request.

**ActorsProofs**, for any rows, people, spellings and callers; assumes `StoresAssumption`, `SpellingAssumption` and
`InitialAssumption`. The same idea: what a request has read is still so when it writes, or it is marked overtaken. A
transfer over memory writes three times, and others see the table in between; the invariant has what is left to be written
and who will be on the row (`Before1`, `Before2`, `Before3`), which is what the refinement mapping shows of the row
meanwhile. So the first write is the abstract action of that very request and the others are stutters. `Ledger` rests on an
invariant of its own, which no overtaken write ends: a request that is not overtaken holds the row as the table has it,
so what it writes back is no shorter. `OnceEach` is under `ApartAtFirst`: in the first tables nobody is on a row in two spellings.

**CopiesProofs**, for any callers, people, lists and listeners; assumes `ListenersAssumption`, `StoresAssumption`,
`ForwardAssumption` and `SpellingAssumption`. `IInv` has the place of each request in its script and the depth of its transactions; that
whoever an event or a leg is about has a copy, which everybody sees once the transaction has committed; and the accounts: the notices
given and those that requests still owe are together one for each copy and listener. `CopiedAndTold` is for listeners whose
legs make no copies: with one that does, the code loses a leg (run `LegLost`). `ToldWhenSeen` and `ReadOnce` are for all.

**PagesProofs**, for any rows, users and set of conditions; assumes the shape of the constants. What has been shown was
selected by the query, in every repository (an invariant over the turning of pages); that what is selected
belongs to the caller, and that both repositories select the same, is shown by the columns of each
list. `SameAnswer` is on the conditions both repositories know. `Paging` is for page sizes that are not negative. In a sorted list a row
has one place whatever order it is computed from, one more than the rows before it (a count over a bijection), and the invariant says
that a row has been shown, once, when the pages turned so far reach its place.

**SurrogatesProofs**, for any submissions, processes and participants; assumes `FormAssumption`, `SubmissionAssumption`,
`BaseAssumption` and `StoresAssumption`. `RowsOK`: ids are below the next one, half-done updates are of rows that were there,
and over JDBC a removed id is not in the table. `JobOK`: the
participants are the head of the result, behind them are agents in `granted`, and each lasting delegation
is of a participant that was skipped, is served, or is still to be asked about;
`Between` says what the first of the two queries has left to the second. The attempt to prove `DelegatesJoin`
in a first form, for rows that decide all the time in whatever scope, failed at that point,
and TLC then showed the case: the row that is moved between the queries.

Only model-checked: of `Engine` who is asked at countersign and add-sign nodes (`MembersAsked`, `MembersInOrder`, `SignersReleaseOnce`), which speak of
particular kinds of definition or of the whole history of a node; the liveness properties, since fairness and ENABLED are beyond the prover.

## Not modelled

* Read-only projections (details, highlighting, progress, candidates, statistics), error texts, SQL, the demo: no control of the engine depends on them.
* Interceptors: code of the host application, as is what listeners do beyond panicking, handing over a leg and copying.
* Deadlines (`engine/expire_time.go`) and the built-in assignment handlers: pure functions that no control depends on.
* Form persistence: an INSERT or UPDATE in tables of the host, in the transaction of the command.
* The permission codes of actions (`spi/action_permission.go`), a table the host asks before it calls.
* Rollback, jump and recall in `InstanceLock`, and the gate of the dynamic countersign beside a command. The first two take no mutex, as the rejection that is there; a recall through a fork can open a second token already when it is alone.
* A panic inside a leg, which nothing in the code would catch; row ids as JSON numbers; ids drawn twice.
* `canRejected` on a definition where its recursion does not return: the model gives the answer where it does.

## Plan

In order of importance:

1. `InstanceLock` with recall and the gate of the dynamic countersign, and more connections in demand than the pool has.
2. An abstract specification of an instance (tokens, not rows) that `Engine` implements for linear definitions.
3. `FlowModel` against reference definitions (paths) over all small graphs, and the recursion of `canRejected` as the code does it.
4. Proofs: the countersign and add-sign gates of `Engine`, and one host per branch in `Collect`.
5. The highlighting of a flow against the rows it is computed from.
