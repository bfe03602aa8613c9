-------------------------------- MODULE Engine --------------------------------
(***************************************************************************)
(* One process instance driven by the commands of the workflow engine      *)
(* (src/engine), one command at a time: what each command does to the      *)
(* instance and to its task rows.  The interleaving of commands is the     *)
(* subject of InstanceLock.                                                *)
(*                                                                         *)
(* A command that moves a token walks the definition depth first           *)
(* (executeNode).  The walk is a stack `work' of nodes still to be         *)
(* executed; the action of one node pops it and pushes its successors.     *)
(*                                                                         *)
(* A definition F_Bug is F with the bug its name tells; the properties are *)
(* tried on the engine with one of them in the place of F.                 *)
(***************************************************************************)
EXTENDS FlowModel, Integers, Sequences, FiniteSets

CONSTANTS
  Flow,           \* the process definition, see FlowModel
  Props,          \* node -> the properties the engine reads, see PropType
  User,           \* user ids
  Initiator,      \* inst.Operator, who started the instance
  Privileged,     \* flow.auto and flow.admin, allowed on every row
  NoUser,
  Submits,        \* the submitType values ExecuteProcessTask is called with
  NextOps,        \* the rosters tf_nextNodeOperator may carry, << >> for absent
  SignOps,        \* the rosters tf_addSignOperators may carry, << >> for absent
  JumpTargets,    \* the nodes a named jump may aim at
  Commands,       \* the commands the callers of the run issue
  Transactional,  \* TRUE: repository with WithTx (jdbc); FALSE: memory
  MaxTask,        \* bound: no command starts that could create more rows
  Burst           \* bound on the rows one command creates

Node == Nodes(Flow)
Join == OfType(Flow, "join")
Roster == Seq(User)
CommandNames == {"execute", "reject", "rollback", "jump", "return", "recall", "withdraw"}

\* The node properties: assignee (a roster), countersignType (with performType
\* countersign), countersignCompletionCondition (need is the right-hand side of
\* an expression over nrOfCompletedInstances), allowAddSign and
\* addSignMaxRounds (0 for no limit), dynamicCountersign, allowRecall,
\* reapplyMode = RETURN_TO_SOURCE, a registered custom handler, and for a
\* decision which outgoing edges carry an expr.
PropType ==
  [ assignee : Roster,
    countersign : {"none", "SEQUENTIAL", "PARALLEL", "OTHER"},
    condition : {"ALL", "VETO", "EQ", "GE"}, need : Nat,
    addSign : BOOLEAN, maxRounds : Nat, collect : BOOLEAN,
    recall : BOOLEAN, direct : BOOLEAN, handler : BOOLEAN,
    guarded : SUBSET Nat ]

Sequential == { n \in Node : Props[n].countersign = "SEQUENTIAL" }
AddSign == { n \in Node : Props[n].addSign }

\* validateAddSignFlow: what a definition must satisfy to be executed at all.
validateAddSignFlow ==
  \A n \in OfType(Flow, "task") :
    /\ Props[n].addSign \/ Props[n].recall \/ Props[n].collect
         => Props[n].countersign = "none" /\ ~ isFirstTaskNode(Flow, n)
    /\ ~ (Props[n].addSign /\ Props[n].collect)

ASSUME FlowAssumption ==
  /\ Flow.nodes \in Seq(Node)
  /\ Flow.type \in [Node -> STRING]
  /\ Flow.succ \in [Node -> Seq(Node)]
  /\ OfType(Flow, "start") # {}
  /\ startNode(Flow) \in Node
ASSUME PropsAssumption ==
  /\ Props \in [Node -> PropType]
  /\ validateAddSignFlow
ASSUME UserAssumption ==
  /\ Initiator \in User
  /\ Privileged \subseteq User
  /\ NoUser \notin User
ASSUME InputAssumption ==
  /\ Submits \subseteq {"agree", "disagree", "reject"}
  /\ NextOps \subseteq Roster
  /\ SignOps \subseteq Roster
  /\ JumpTargets \subseteq Node
  /\ Commands \subseteq CommandNames
  /\ Transactional \in BOOLEAN
\* addSignOperatorsFrom folds those who are named twice (NormalizeActors).
ASSUME SignOpsAssumption ==
  \A ops \in SignOps : \A a, b \in DOMAIN ops : ops[a] = ops[b] => a = b
ASSUME BoundAssumption == MaxTask \in Nat /\ Burst \in Nat

\* The static analysis of the definition, computed once.
ScopesOfNode == [n \in Node |-> staticScopes(Flow, n)]
CanReject == [n \in Node |-> { p \in Node : canRejected(Flow, n, p) }]
ForkOf == [j \in Join |-> findForkForJoin(Flow, j)]
FirstTaskNode == { n \in Node : isFirstTaskNode(Flow, n) }

VARIABLES
  state,   \* inst.State, "NONE" before the instance exists
  last,    \* the id of the newest task row
  task,    \* the task rows, by id in order of creation
  ivars,   \* the instance variables the engine itself reads back
  ends,    \* PROCESS_INSTANCE_END events fired so far
  work,    \* the nodes executeNode has still to execute, first one first
  cmd,     \* what the running command carries to the nodes it executes
  saved    \* what the transaction would roll back to

vars == <<state, last, task, ivars, ends, work, cmd, saved>>

-----------------------------------------------------------------------------
(* Task rows and what their variables carry. *)

\* A branchScope: the round is the parent of the branch roots, the root is the
\* row the branch started with.  Root 0 for a row outside the range of a join.
NoScope == [round |-> 0, root |-> 0]
Scope == [round : Nat, root : Nat]
NoScopes == [j \in Join |-> NoScope]

\* The _reapplyContext of an apply row; src 0 for a row without one.
NoBack == [src |-> 0, branch |-> NoScopes]
Back == [src : Nat, branch : [Join -> Scope]]

\* operatorList_<node> and loopCounter_<node>; no members for absent keys.
NoMembers == [members |-> << >>, idx |-> 0]
NoCs == [n \in Sequential |-> NoMembers]
CsVars == [Sequential -> [members : Roster, idx : Nat]]

\* addSignRound_<node>; 0 for an absent key, as addSignRoundOf reads it.
NoRound == [n \in AddSign |-> 0]
RoundVars == [AddSign -> Nat]

Submit == {"none", "agree", "disagree", "reject", "rollback", "jump", "return", "reapply"}
RowState == {"DOING", "DONE", "WITHDRAW", "ABANDONED"}
Row == [ node : Node, st : RowState, parent : Nat, actors : SUBSET User,
         by : User \cup {NoUser},       \* ActorID, who completed the row
         owner : User \cup {NoUser},    \* u_userId
         scopes : [Join -> Scope],      \* _branchCtx
         submit : Submit, back : Back, cs : CsVars, round : RoundVars ]

InstanceState == {"NONE", "DOING", "DONE", "REJECT", "WITHDRAW"}
InstanceVars == [cs : CsVars, round : RoundVars, submit : Submit]

NoCmd == [user |-> NoUser, next |-> << >>, home |-> {}]
\* next: tf_nextNodeOperator.  home: the node whose assignee the command has
\* overwritten with the initiator in its copy of the definition.
Command == [user : User \cup {NoUser}, next : Roster, home : SUBSET Node]
WorkItem == [node : Node, parent : Nat]

Snapshot == [state |-> state, last |-> last, task |-> task, ivars |-> ivars, ends |-> ends]
NoSnapshot == [state |-> "NONE", last |-> 0, task |-> << >>,
               ivars |-> [cs |-> NoCs, round |-> NoRound, submit |-> "none"], ends |-> 0]

Id == 1 .. last
DoingIn(rows) == { i \in DOMAIN rows : rows[i].st = "DOING" }
DoingAt(rows, n) == { i \in DoingIn(rows) : rows[i].node = n }
Idle == work = << >>

-----------------------------------------------------------------------------
(* Creating and completing rows. *)

NewRow(n, parent, who) ==
  [ node |-> n, st |-> "DOING", parent |-> parent, actors |-> who,
    by |-> NoUser, owner |-> NoUser, submit |-> "none", scopes |-> NoScopes, back |-> NoBack,
    cs |-> NoCs, round |-> NoRound ]

buildScopes_Swapped(n, parent, self) ==
  [j \in Join |->
     IF j \notin ScopesOfNode[n] THEN NoScope ELSE [round |-> self, root |-> parent]]
buildScopes_NoInheritance(n, parent, self) ==
  [j \in Join |->
     IF j \notin ScopesOfNode[n] THEN NoScope ELSE [round |-> parent, root |-> self]]

\* A new row at n inherits the scope its parent has in each range that contains
\* n; where the parent has none it starts a branch of the round `parent'.
buildScopes(n, parent, self) ==
  [j \in Join |->
     IF j \notin ScopesOfNode[n] THEN NoScope
     ELSE IF parent # 0 /\ task[parent].scopes[j].root # 0 THEN task[parent].scopes[j]
     ELSE [round |-> parent, root |-> self]]

Appended_LosesLast(rows, new) ==
  [i \in 1 .. last + Len(new) - 1 |-> IF i <= last THEN rows[i] ELSE new[i - last]]

Appended(rows, new) ==
  [i \in 1 .. last + Len(new) |-> IF i <= last THEN rows[i] ELSE new[i - last]]

\* The variables the engine works with: those of the row over those of the
\* instance.  A completed row keeps them all, and the instance takes them over.
MergedCs(t) ==
  [n \in Sequential |-> IF task[t].cs[n].members # << >> THEN task[t].cs[n] ELSE ivars.cs[n]]
MergedRound(t) ==
  [n \in AddSign |-> IF task[t].round[n] # 0 THEN task[t].round[n] ELSE ivars.round[n]]

\* u_userId is the real user who acted, else the one inherited from the row or
\* the instance.
ActingUser(t, u) ==
  IF u \notin Privileged THEN u
  ELSE IF task[t].owner # NoUser THEN task[t].owner ELSE Initiator

Completed_StaysOpen(t, u, submit) ==
  [task EXCEPT ![t] =
     [task[t] EXCEPT !.by = u, !.submit = submit, !.owner = ActingUser(t, u),
                     !.cs = MergedCs(t), !.round = MergedRound(t)]]

\* Row t completed by u (ProcessTask.Finish).
Completed(t, u, submit) ==
  [task EXCEPT ![t] =
     [task[t] EXCEPT !.st = "DONE", !.by = u, !.submit = submit,
                     !.owner = ActingUser(t, u),
                     !.cs = MergedCs(t), !.round = MergedRound(t)]]

\* loadAndCheck and the other guards every command on a row shares; the state
\* of the instance is not among them.
Allowed(t, u) ==
  /\ task[t].st = "DOING"
  /\ u \in task[t].actors \cup Privileged

Room == last + Burst <= MaxTask

\* The instance variables after the command (mergeExecIntoInstance, which the
\* row-level keys do not pass; tf_ keys do not reach the stored copy).
mergeExecIntoInstance(t, submit) ==
  ivars' = [cs |-> MergedCs(t), round |-> MergedRound(t), submit |-> submit]

Children(n, parent) ==
  [k \in 1 .. Len(Flow.succ[n]) |-> [node |-> Flow.succ[n][k], parent |-> parent]]

\* The command goes on with the stack w, or ends when nothing is left on it.
Run(w, c) ==
  /\ work' = w
  /\ IF w = << >> THEN cmd' = NoCmd /\ saved' = NoSnapshot
     ELSE /\ cmd' = c
          /\ saved' = IF Idle /\ Transactional THEN Snapshot ELSE saved

-----------------------------------------------------------------------------
(* executeNode: one action per type of the node on top of the stack. *)

Current == Head(work)
Executing(t) == ~ Idle /\ Flow.type[Current.node] = t
PushChildren(n, parent) == Run(Children(n, parent) \o Tail(work), cmd)
Unwind == Run(Tail(work), cmd)

\* resolveActors: tf_nextNodeOperator, else the assignee.
resolveActors(n) ==
  IF cmd.next # << >> THEN cmd.next
  ELSE IF n \in cmd.home THEN <<Initiator>>
  ELSE Props[n].assignee

\* Who shares each row created at n: nobody to act makes one row without
\* actors, a countersign node has one row per member (the first member only,
\* if sequential), any other node one row for everybody.
Teams(n, roster) ==
  IF roster = << >> THEN <<{}>>
  ELSE IF Props[n].countersign = "none" THEN <<FlowRange(roster)>>
  ELSE IF Props[n].countersign = "SEQUENTIAL" THEN <<{roster[1]}>>
  ELSE [k \in 1 .. Len(roster) |-> {roster[k]}]

CsStart_AtSecond(n, roster) ==
  [m \in Sequential |-> IF m = n /\ roster # << >> THEN [members |-> roster, idx |-> 1]
                        ELSE NoMembers]

CsStart(n, roster) ==
  [m \in Sequential |-> IF m = n /\ roster # << >> THEN [members |-> roster, idx |-> 0]
                        ELSE NoMembers]

createTask ==
  /\ Executing("task")
  /\ LET n == Current.node
         roster == resolveActors(n)
         teams == Teams(n, roster)
         new == [k \in 1 .. Len(teams) |->
                  [NewRow(n, Current.parent, teams[k]) EXCEPT
                     !.scopes = buildScopes(n, Current.parent, last + k),
                     !.cs = CsStart(n, roster)]]
     IN  /\ task' = Appended(task, new)
         /\ last' = last + Len(new)
  /\ Unwind
  /\ UNCHANGED <<state, ivars, ends>>

\* A record node: a DONE row of the operator, outside every branch range, and
\* the token moves on with the parent it came with.
execCustomNode ==
  /\ Executing("custom")
  /\ task' = Appended(task, << [NewRow(Current.node, Current.parent, {cmd.user}) EXCEPT
                                  !.st = "DONE", !.by = cmd.user] >>)
  /\ last' = last + 1
  /\ PushChildren(Current.node, Current.parent)
  /\ UNCHANGED <<state, ivars, ends>>

DecisionTargets_AnyEdge(n) == outgoingTargets(Flow, n)

\* The first edge without expr, or one with a true expr before it.
DecisionTargets(n) ==
  { Flow.succ[n][k] : k \in { i \in 1 .. Len(Flow.succ[n]) :
                                \A h \in 1 .. i-1 : h \in Props[n].guarded } }
NoRoute(n) == 1 .. Len(Flow.succ[n]) \subseteq Props[n].guarded

evaluateDecision ==
  /\ Executing("decision")
  /\ \E m \in DecisionTargets(Current.node) :
       Run(<<[node |-> m, parent |-> Current.parent]>> \o Tail(work), cmd)
  /\ UNCHANGED <<state, last, task, ivars, ends>>

executeFork ==
  /\ Executing("fork")
  /\ PushChildren(Current.node, Current.parent)
  /\ UNCHANGED <<state, last, task, ivars, ends>>

\* A DOING row blocks the join's round if it is in the round, or if it is the
\* apply row of an applicant whose changes a branch of the round waits for.
Blocks(i, j, round) ==
  \/ task[i].scopes[j].root # 0 /\ task[i].scopes[j].round = round
  \/ task[i].back.src # 0 /\ task[i].back.branch[j].root # 0
     /\ task[i].back.branch[j].round = round

mergeReady_AtOnce(j, arriving) == TRUE
mergeReady_IgnoresApplicants(j, arriving) ==
  \A i \in DoingIn(task) : task[i].scopes[j].round # task[arriving].scopes[j].round
mergeReady(j, arriving) ==
  IF arriving # 0 /\ task[arriving].scopes[j].root # 0
  THEN \A i \in DoingIn(task) : ~ Blocks(i, j, task[arriving].scopes[j].round)
  ELSE DoingIn(task) = {}    \* legacyMergeReady

joinReleases ==
  /\ Executing("join")
  /\ mergeReady(Current.node, Current.parent)
  /\ PushChildren(Current.node, Current.parent)
  /\ UNCHANGED <<state, last, task, ivars, ends>>

joinWaits ==
  /\ Executing("join")
  /\ ~ mergeReady(Current.node, Current.parent)
  /\ Unwind
  /\ UNCHANGED <<state, last, task, ivars, ends>>

executeEnd ==
  /\ Executing("end")
  /\ state' = IF ivars.submit = "reject" THEN "REJECT" ELSE "DONE"
  /\ ends' = ends + 1
  /\ Unwind
  /\ UNCHANGED <<last, task, ivars>>

\* A type the engine does not know (and start): the token stops here.
executeUnknown ==
  /\ ~ Idle
  /\ Flow.type[Current.node] \notin {"task", "custom", "decision", "fork", "join", "end"}
  /\ Unwind
  /\ UNCHANGED <<state, last, task, ivars, ends>>

abort_KeepsWrites ==
  /\ \/ Executing("decision") /\ NoRoute(Current.node)
     \/ Executing("custom") /\ Props[Current.node].handler
  /\ Run(<< >>, NoCmd)
  /\ UNCHANGED <<state, last, task, ivars, ends>>

\* A decision without a route, or a custom handler that returns an error, ends
\* the command.  A transaction takes everything back, the memory repository
\* keeps what the command wrote before.
abort ==
  /\ \/ Executing("decision") /\ NoRoute(Current.node)
     \/ Executing("custom") /\ Props[Current.node].handler
  /\ Run(<< >>, NoCmd)
  /\ IF Transactional
     THEN /\ state' = saved.state /\ last' = saved.last /\ task' = saved.task
          /\ ivars' = saved.ivars /\ ends' = saved.ends
     ELSE UNCHANGED <<state, last, task, ivars, ends>>

Step == \/ createTask \/ execCustomNode \/ evaluateDecision \/ executeFork
        \/ joinReleases \/ joinWaits \/ executeEnd \/ executeUnknown \/ abort

-----------------------------------------------------------------------------
(* The commands.  Each starts when no other runs. *)

StartProcessInstance ==
  /\ state = "NONE"
  /\ state' = "DOING"
  /\ Run(Children(startNode(Flow), 0), [NoCmd EXCEPT !.user = Initiator])
  /\ UNCHANGED <<last, task, ivars, ends>>

\* What ExecuteProcessTask shares: the command completes row t, which carries
\* no reapply context.
Executes(t, u, submit) ==
  /\ Idle /\ Room
  /\ Allowed(t, u)
  /\ task[t].back.src = 0
  /\ mergeExecIntoInstance(t, submit)

Veto(n, submit) ==
  /\ Props[n].countersign # "none"
  /\ submit = "disagree"
  /\ Props[n].condition = "VETO"

\* The completion condition over the rows of the node, d the rows after t.
CountersignDone(d, n) ==
  LET finished == Cardinality({ i \in DOMAIN d : d[i].node = n /\ d[i].st = "DONE" })
  IN  IF Props[n].condition = "EQ" THEN finished = Props[n].need ELSE finished >= Props[n].need

MoreMembers_OneShort(d, t) ==
  LET s == d[t].cs[d[t].node] IN s.idx + 2 < Len(s.members)

MoreMembers(d, t) ==
  LET s == d[t].cs[d[t].node] IN s.idx + 1 < Len(s.members)

\* The gates a completed row passes before the token leaves its node.
SequentialGate(d, t, submit) ==
  Props[d[t].node].countersign = "SEQUENTIAL" /\ ~ Veto(d[t].node, submit)
ParallelGate(d, t, submit) ==
  Props[d[t].node].countersign = "PARALLEL" /\ ~ Veto(d[t].node, submit)
ParallelOpen(d, n) ==
  IF Props[n].condition \in {"EQ", "GE"} THEN CountersignDone(d, n) ELSE DoingIn(d) = {}
AddSignGate(n) == Props[n].addSign \/ Props[n].collect

GateHolds_NoSigners(d, t, submit) ==
  \/ SequentialGate(d, t, submit) /\ DoingIn(d) # {}
  \/ ParallelGate(d, t, submit) /\ ~ ParallelOpen(d, d[t].node)

GateHolds(d, t, submit) ==
  LET n == d[t].node
  IN  \/ SequentialGate(d, t, submit) /\ DoingIn(d) # {}
      \/ ParallelGate(d, t, submit) /\ ~ ParallelOpen(d, n)
      \/ AddSignGate(n) /\ DoingAt(d, n) # {}

\* The row is completed and the token stays at the node.
ExecuteWait(t, u, submit) ==
  /\ Executes(t, u, submit)
  /\ GateHolds(Completed(t, u, submit), t, submit)
  /\ task' = Completed(t, u, submit)
  /\ UNCHANGED <<state, last, ends, work, cmd, saved>>

\* The next member of a sequential countersign is asked.
ExecuteNextMember(t, u, submit) ==
  /\ Executes(t, u, submit)
  /\ LET d == Completed(t, u, submit)
         n == task[t].node
         s == d[t].cs[n]
     IN  /\ SequentialGate(d, t, submit) /\ DoingIn(d) = {} /\ MoreMembers(d, t)
         /\ task' = Appended(d, << [NewRow(n, t, {s.members[s.idx + 2]}) EXCEPT
                                      !.cs[n] = [s EXCEPT !.idx = s.idx + 1]] >>)
  /\ last' = last + 1
  /\ UNCHANGED <<state, ends, work, cmd, saved>>

\* The completed row names further signers (validateAddSignSubmission, then
\* execAddSignGate): one row each at the same node.
ExecuteAddSign(t, u, submit, ops) ==
  /\ Executes(t, u, submit)
  /\ ops # << >>
  /\ LET n == task[t].node
         d == Completed(t, u, submit)
         round == d[t].round[n] + 1
     IN  /\ Props[n].addSign
         /\ u \notin FlowRange(ops)
         /\ Props[n].maxRounds = 0 \/ task[t].round[n] + 1 <= Props[n].maxRounds
         /\ task' = Appended(d, [k \in 1 .. Len(ops) |->
                      [NewRow(n, t, {ops[k]}) EXCEPT
                         !.scopes = buildScopes(n, t, last + k), !.round[n] = round]])
  /\ last' = last + Len(ops)
  /\ UNCHANGED <<state, ends, work, cmd, saved>>

AbandonRest_Settled(d, n) ==
  [i \in Id |-> IF Props[n].countersign # "none" /\ d[i].node = n
                THEN [d[i] EXCEPT !.st = "ABANDONED"] ELSE d[i]]

\* The rows a decided countersign still has open are dropped.
AbandonRest(d, n) ==
  [i \in Id |-> IF Props[n].countersign # "none" /\ i \in DoingAt(d, n)
                THEN [d[i] EXCEPT !.st = "ABANDONED"] ELSE d[i]]

\* The token leaves the node.
ExecuteAdvance(t, u, submit, next) ==
  /\ Executes(t, u, submit)
  /\ LET d == Completed(t, u, submit)
         n == task[t].node
     IN  /\ ~ GateHolds(d, t, submit)
         /\ ~ (SequentialGate(d, t, submit) /\ MoreMembers(d, t))
         /\ task' = AbandonRest(d, n)
         /\ Run(Children(n, t), [user |-> u, next |-> next, home |-> {}])
  /\ UNCHANGED <<state, last, ends>>

\* executeReapply: the applicant resubmits and the source node gets a new row
\* in the scopes of the row that sent the form back.
executeReapply(t, u) ==
  /\ Idle /\ Room
  /\ Allowed(t, u)
  /\ LET src == task[t].back.src
         n == task[src].node
     IN  /\ src # 0
         /\ task[src].st = "DONE"
         /\ Flow.type[n] = "task" /\ Props[n].direct
         /\ task[t].node \in FirstTaskNode
         /\ task' = Appended(Completed(t, u, "reapply"),
                      << [NewRow(n, t, FlowRange(Props[n].assignee)) EXCEPT
                            !.scopes = task[t].back.branch] >>)
  /\ last' = last + 1
  /\ mergeExecIntoInstance(t, "reapply")
  /\ UNCHANGED <<state, ends, work, cmd, saved>>

DropOpenAt_NoCollect(d, n) ==
  [i \in Id |-> IF Props[n].addSign /\ i \in DoingAt(d, n)
                THEN [d[i] EXCEPT !.st = "ABANDONED"] ELSE d[i]]

\* Rows left open at a node with addSign or collect are dropped when the
\* instance leaves it backwards (abandonAddSignOnNode).
DropOpenAt(d, n) ==
  [i \in Id |-> IF AddSignGate(n) /\ i \in DoingAt(d, n)
                THEN [d[i] EXCEPT !.st = "ABANDONED"] ELSE d[i]]

\* submitType 2: the instance is rejected; open rows of other nodes stay.
ExecuteAndJumpToEnd(t, u) ==
  /\ Idle
  /\ Allowed(t, u)
  /\ task[t].back.src = 0
  /\ task' = DropOpenAt(Completed(t, u, "reject"), task[t].node)
  /\ mergeExecIntoInstance(t, "reject")
  /\ state' = "REJECT"
  /\ ends' = ends + 1
  /\ UNCHANGED <<last, work, cmd, saved>>

\* submitType 3: the parent row comes to life again as a new row, with the data
\* variables of the old one (lineageVars drops the countersign keys).
rollbackToParent(t, u) ==
  /\ Idle /\ Room
  /\ Allowed(t, u)
  /\ task[t].back.src = 0
  /\ LET p == task[t].parent
         his == task[p]
         actor == IF his.node \in FirstTaskNode THEN his.owner ELSE his.by
     IN  /\ p # 0
         /\ his.node \in CanReject[task[t].node]
         /\ task' = Appended(Completed(t, u, "rollback"),
                      << [NewRow(his.node, his.parent, {actor}) EXCEPT
                            !.owner = his.owner, !.scopes = his.scopes,
                            !.back = his.back, !.round = his.round] >>)
  /\ last' = last + 1
  /\ mergeExecIntoInstance(t, "rollback")
  /\ UNCHANGED <<state, ends, work, cmd, saved>>

\* submitType 4: the token is put on the named node.
ExecuteAndJumpTask(t, u, target, next) ==
  /\ Idle /\ Room
  /\ Allowed(t, u)
  /\ task[t].back.src = 0
  /\ task' = Completed(t, u, "jump")
  /\ mergeExecIntoInstance(t, "jump")
  /\ Run(<<[node |-> target, parent |-> t]>>,
         [user |-> u, next |-> next,
          home |-> {target} \cap FirstTaskNode \cap OfType(Flow, "task")])
  /\ UNCHANGED <<state, last, ends>>

\* submitType 6 at a node that returns to its source: the applicant gets a row
\* that remembers the row that sent the form back and its scopes.
ReturnForChange(t, u) ==
  /\ Idle /\ Room
  /\ Allowed(t, u)
  /\ task[t].back.src = 0
  /\ Props[task[t].node].direct
  /\ Props[task[t].node].countersign = "none"
  /\ task[t].node \notin FirstTaskNode
  /\ \E n \in firstAfterStart(Flow, {"task"}) :
       task' = Appended(DropOpenAt(Completed(t, u, "return"), task[t].node),
                 << [NewRow(n, t, {Initiator}) EXCEPT
                       !.back = [src |-> t, branch |-> task[t].scopes]] >>)
  /\ last' = last + 1
  /\ mergeExecIntoInstance(t, "return")
  /\ UNCHANGED <<state, ends, work, cmd, saved>>

\* submitType 6 at any other node: the first node is executed again for the
\* initiator.
ExecuteAndJumpToFirstTaskNode(t, u) ==
  /\ Idle /\ Room
  /\ Allowed(t, u)
  /\ task[t].back.src = 0
  /\ ~ Props[task[t].node].direct
  /\ task' = DropOpenAt(Completed(t, u, "return"), task[t].node)
  /\ mergeExecIntoInstance(t, "return")
  /\ \E n \in firstAfterStart(Flow, {"task", "custom"}) :
       Run(<<[node |-> n, parent |-> t]>>, [user |-> u, next |-> << >>, home |-> {n}])
  /\ UNCHANGED <<state, last, ends>>

\* The definition asks for a return to the source where the engine cannot do
\* one.  The command fails after the row is completed, which only a transaction
\* undoes.
ReturnFails(t, u) ==
  /\ Idle
  /\ ~ Transactional
  /\ Allowed(t, u)
  /\ task[t].back.src = 0
  /\ Props[task[t].node].direct
  /\ \/ Props[task[t].node].countersign # "none"
     \/ task[t].node \in FirstTaskNode
  /\ task' = DropOpenAt(Completed(t, u, "return"), task[t].node)
  /\ mergeExecIntoInstance(t, "return")
  /\ UNCHANGED <<state, last, ends, work, cmd, saved>>

\* The rows created below row t (recallDescendants).
recallDescendants(t) ==
  LET D[k \in 0 .. last] ==
        IF k = 0 THEN {} ELSE D[k-1] \cup { i \in {k} : task[i].parent \in D[k-1] \cup {t} }
  IN  D[last]

\* validateRecallWindow: nothing below the row has been handled.
RecallWindow_Open(below) == TRUE
RecallWindow(below) == \A i \in below : task[i].st # "DONE"

\* A completed row is taken back: the open rows below it are dropped and its
\* actors get a new row at the node, outside every branch range.
RecallTask(t, u) ==
  /\ Idle /\ Room
  /\ task[t].st = "DONE"
  /\ u \in task[t].actors \cup Privileged
  /\ state = "DOING"
  /\ Flow.type[task[t].node] = "task" /\ Props[task[t].node].recall
  /\ LET below == recallDescendants(t)
     IN  /\ RecallWindow(below)
         /\ task' = Appended(
              [i \in Id |-> IF i \in below \cap DoingIn(task)
                            THEN [task[i] EXCEPT !.st = "ABANDONED"] ELSE task[i]],
              << NewRow(task[t].node, task[t].parent, task[t].actors) >>)
  /\ last' = last + 1
  /\ UNCHANGED <<state, ivars, ends, work, cmd, saved>>

\* facade withdraw: by the initiator, or by an actor of an open row.
canWithdrawInstance(u) ==
  u \in {Initiator} \cup Privileged \cup UNION { task[i].actors : i \in DoingIn(task) }

withdraw(u) ==
  /\ Idle
  /\ state = "DOING"
  /\ canWithdrawInstance(u)
  /\ task' = [i \in Id |-> IF i \in DoingIn(task) THEN [task[i] EXCEPT !.st = "WITHDRAW"]
                           ELSE task[i]]
  /\ state' = "WITHDRAW"
  /\ UNCHANGED <<last, ivars, ends, work, cmd, saved>>

-----------------------------------------------------------------------------
Init ==
  /\ state = "NONE"
  /\ last = 0
  /\ task = << >>
  /\ ivars = NoSnapshot.ivars
  /\ ends = 0
  /\ work = << >>
  /\ cmd = NoCmd
  /\ saved = NoSnapshot

\* What u can do to row t.
Execute(t, u) ==
  \/ \E submit \in Submits :
       \/ ExecuteWait(t, u, submit)
       \/ ExecuteNextMember(t, u, submit)
       \/ \E ops \in SignOps : ExecuteAddSign(t, u, submit, ops)
       \/ \E next \in NextOps : ExecuteAdvance(t, u, submit, next)
  \/ executeReapply(t, u)
Return(t, u) ==
  ReturnForChange(t, u) \/ ExecuteAndJumpToFirstTaskNode(t, u) \/ ReturnFails(t, u)

RowCommand(t, u) ==
  \/ "execute" \in Commands /\ Execute(t, u)
  \/ "reject" \in Commands /\ ExecuteAndJumpToEnd(t, u)
  \/ "rollback" \in Commands /\ rollbackToParent(t, u)
  \/ "jump" \in Commands /\ \E target \in JumpTargets, next \in NextOps :
                                ExecuteAndJumpTask(t, u, target, next)
  \/ "return" \in Commands /\ Return(t, u)
  \/ "recall" \in Commands /\ RecallTask(t, u)

Next == \/ Step
        \/ StartProcessInstance
        \/ \E t \in Id, u \in User : RowCommand(t, u)
        \/ "withdraw" \in Commands /\ \E u \in User : withdraw(u)

Spec == Init /\ [][Next]_vars

\* A command, once begun, is run to its end by the goroutine that called it.
FairSpec == Spec /\ WF_vars(Step)

-----------------------------------------------------------------------------
(* The definitions the properties hold for. *)

\* The nodes a token meets from those in S on, up to the first tasks.
Closed(C) == \A m \in C : Flow.type[m] # "task" => outgoingTargets(Flow, m) \subseteq C
Met(S) == { x \in Node : \A C \in SUBSET Node : S \subseteq C /\ Closed(C) => x \in C }

\* Two edges that a token takes at once do not lead to the same task with
\* allowRecall before another task, and such a task takes no added signers.
\* Otherwise two rows with the same node and the same parent are two tokens, and
\* not one whose work was taken back.
RecallNode == { n \in OfType(Flow, "task") : Props[n].recall }
RecallsApart ==
  \A x \in RecallNode :
    /\ x \notin AddSign
    /\ \A n \in Node \ OfType(Flow, "decision") :
         \A a, b \in DOMAIN Flow.succ[n] :
           x \in Met({Flow.succ[n][a]}) \cap Met({Flow.succ[n][b]}) => a = b

\* The nodes a token meets from node m on, up to the first tasks and to join j.
ClosedBefore(j, C) ==
  \A m \in C : Flow.type[m] # "task" /\ m # j => outgoingTargets(Flow, m) \subseteq C
MetBefore(j, m) ==
  { x \in Node : \A C \in SUBSET Node : m \in C /\ ClosedBefore(j, C) => x \in C }

\* A token at m stays in the range of j until it comes to j, or goes back to the
\* applicant; and one behind j does not come into its range.
Recorded == OfType(Flow, "task") \cup OfType(Flow, "custom")
StaysIn(j, m) ==
  \A x \in MetBefore(j, m) \cap Recorded : j \in ScopesOfNode[x] \/ x \in FirstTaskNode
StaysBehind(j, m) == \A x \in Met({m}) \cap Recorded : j \notin ScopesOfNode[x]

\* The branches of a fork are left through its join alone, which is not met
\* before a task of the branch and leads to no such task; the applicant and tasks
\* with allowRecall are outside, and nobody jumps.
BranchesMeet ==
  /\ "jump" \notin Commands
  /\ firstAfterStart(Flow, {"task", "custom"}) \subseteq OfType(Flow, "task")
  /\ \A n \in FirstTaskNode \cup RecallNode : ScopesOfNode[n] = {}
  /\ \A n \in OfType(Flow, "task") : \A j \in ScopesOfNode[n], m \in outgoingTargets(Flow, n) :
       StaysIn(j, m)
  /\ \A j \in Join : \A m \in outgoingTargets(Flow, j) : StaysBehind(j, m)
  /\ \A n \in Node \ OfType(Flow, "decision") :
       Len(Flow.succ[n]) > 1 => \A m \in outgoingTargets(Flow, n) : Met({m}) \cap Join = {}
  /\ \A m, n \in OfType(Flow, "task") :
       n \in CanReject[m] => ScopesOfNode[n] \subseteq ScopesOfNode[m]
  /\ \A n \in Sequential : n \notin CanReject[n]

\* A countersign that an expression over the answers decides, and the rosters
\* its members can come from.
Ratio == { n \in OfType(Flow, "task") : /\ Props[n].countersign = "PARALLEL"
                                        /\ Props[n].condition \in {"EQ", "GE"} }
Rosters(n) == (NextOps \ {<< >>}) \cup {Props[n].assignee}
Serving == {"task", "custom", "decision", "fork", "join", "end"}

\* No token is lost in the definition: the engine knows the nodes a token comes
\* to and each leads on; a countersign with an expression asks as many as it
\* waits for, and can be over-fulfilled; and where no transaction takes back a
\* command that fails, none can.
TokensLand ==
  /\ \A n \in Node : /\ Flow.type[n] \in Serving \cup {"start"}
                     /\ Flow.succ[n] = << >> => Flow.type[n] \in {"decision", "end"}
  /\ OfType(Flow, "start") \cap (JumpTargets \cup UNION { outgoingTargets(Flow, n) : n \in Node }) = {}
  /\ \A n \in Ratio :
       /\ Props[n].condition = "GE" /\ n \notin FirstTaskNode
       /\ \A roster \in Rosters(n) : Props[n].need <= Len(Teams(n, roster))
  /\ Transactional \/ /\ \A n \in OfType(Flow, "decision") : ~ NoRoute(n)
                      /\ \A n \in OfType(Flow, "custom") : ~ Props[n].handler
                      /\ \A n \in OfType(Flow, "task") :
                           Props[n].direct => Props[n].countersign = "none" /\ n \notin FirstTaskNode

\* The nodes at which several rows of one token can be open, and those a token
\* leaves on several edges.
Shared == { n \in OfType(Flow, "task") : \/ Props[n].countersign \in {"PARALLEL", "OTHER"}
                                        \/ AddSignGate(n) }
Split == { n \in Node \ OfType(Flow, "decision") : Len(Flow.succ[n]) > 1 }

\* A token at m comes into the range of j, or is in it up to j, and does not end
\* there; all the edges of f lead into the range of j.
Within(j, M) == /\ M \cap OfType(Flow, "end") = {}
                /\ \A x \in M \cap Recorded : j \in ScopesOfNode[x]
Enters(j, m) == Within(j, Met({m})) /\ Met({m}) \cap Join = {}
Opens(j, f) == \A m \in outgoingTargets(Flow, f) : Enters(j, m)

\* Wherever a token splits, all its edges lead into a range that it was not in,
\* and a range is left through its join alone, by returns and rollbacks too;
\* those leave no other signer or member behind, and nobody recalls.
TokensApart ==
  /\ BranchesMeet
  /\ "recall" \notin Commands
  /\ \A n \in OfType(Flow, "task") : \A j \in ScopesOfNode[n], m \in outgoingTargets(Flow, n) :
       Within(j, MetBefore(j, m))
  /\ \A n \in OfType(Flow, "task") \cup {startNode(Flow)} :
       \A f \in ({n} \cup Met(outgoingTargets(Flow, n))) \cap Split :
         \E j \in Join \ ScopesOfNode[n] : Opens(j, f)
  /\ \A n \in Sequential : ScopesOfNode[n] = {}
  /\ Shared \cap FirstTaskNode = {}
  /\ "rollback" \in Commands =>
       \A m, n \in OfType(Flow, "task") :
         n \in CanReject[m] => m \notin Shared /\ ScopesOfNode[m] \subseteq ScopesOfNode[n]
  /\ "return" \in Commands =>
       \A n \in OfType(Flow, "task") :
         Props[n].direct \/ (ScopesOfNode[n] = {} /\ (AddSignGate(n) \/ n \notin Shared))

\* A token at m comes into the range of j through fork f alone; one at m starts a
\* branch of j, whatever route it takes.
ByFork(j, f, m) == \A x \in MetBefore(f, m) \cap OfType(Flow, "task") : j \notin ScopesOfNode[x]
Comes(j, m) ==
  /\ Enters(j, m)
  /\ \A x \in Met({m}) : /\ Flow.type[x] \in Serving
                         /\ Flow.succ[x] = << >> => Flow.type[x] \in {"task", "decision"}

\* A range is entered through its fork alone, each edge of which leads to a task
\* of it; sequential members stand outside; and where no transaction takes back
\* a command that fails half way through a fork, none can.
ForksBegin ==
  /\ BranchesMeet
  /\ \A j \in Join : \A f \in ForkOf[j] :
       /\ f \in OfType(Flow, "fork")
       /\ \A m \in outgoingTargets(Flow, f) : Comes(j, m)
       /\ \A n \in OfType(Flow, "task") :
            j \notin ScopesOfNode[n] => \A m \in outgoingTargets(Flow, n) : ByFork(j, f, m)
  /\ \A n \in Sequential : ScopesOfNode[n] = {}
  /\ Transactional \/ /\ \A n \in OfType(Flow, "decision") : ~ NoRoute(n)
                      /\ \A n \in OfType(Flow, "custom") : ~ Props[n].handler

-----------------------------------------------------------------------------
(* Properties. *)

\* Every variable keeps its type; the row ids are 1 .. last.  (The variables of
\* ProcessInstance and ProcessTask, and the pending part of executeNode.)
TypeOK ==
  /\ state \in InstanceState
  /\ last \in Nat
  /\ task \in [Id -> Row]
  /\ ivars \in InstanceVars
  /\ ends \in Nat
  /\ work \in Seq(WorkItem)
  /\ cmd \in Command
  /\ saved \in [state : InstanceState, last : Nat, task : [1 .. saved.last -> Row],
                ivars : InstanceVars, ends : Nat]

\* The lineage a rollback and a recall follow is a forest over completed rows:
\* a row's parent is an older row, completed before it was created and never
\* changed since; so is the row every pending token comes from.
LineageSound ==
  /\ \A i \in Id : task[i].parent # 0 =>
       task[i].parent < i /\ task[task[i].parent].st = "DONE"
  /\ \A k \in DOMAIN work : work[k].parent # 0 =>
       work[k].parent \in Id /\ task[work[k].parent].st = "DONE"

\* The branch scope a row carries names an older row as its round, and a row of
\* the same branch, no younger than itself, as its root; the same holds of the
\* scopes an apply row keeps for the branch that waits for it.  mergeReady
\* counts the branches of a round by these roots.
ScopeSound ==
  \A i \in Id, j \in Join :
    \A s \in {task[i].scopes[j], task[i].back.branch[j]} : s.root # 0 =>
      /\ s.round < s.root
      /\ s.root <= i
      /\ task[s.root].scopes[j] = s

RowsStay ==
  /\ last <= last'
  /\ \A i \in Id \ DoingIn(task) :
       /\ task'[i].st = task[i].st /\ task'[i].by = task[i].by
       /\ task'[i].parent = task[i].parent /\ task'[i].scopes = task[i].scopes

\* A row that is completed, withdrawn or abandoned stays as it is: no later
\* command, of whatever row, brings it back to DOING or changes who completed
\* it (the hazard syncTaskToAggregate is there for).  A rolled back transaction
\* alone removes what the command itself had done.
SettledRowsStay == [][abort \/ RowsStay]_vars

\* Between two commands a running instance has an open row: somebody can always
\* act on it.  (What issues/164 and issues/166 in evaluateDecision call a
\* zombie instance.)
NoZombie == Idle /\ state = "DOING" => DoingIn(task) # {}

\* The rows in whose name round r of join j has been released: they belong to
\* the round and a row behind the join has one of them as its parent.
ReleasedBy(j, r) ==
  { p \in Id : /\ task[p].scopes[j].root # 0 /\ task[p].scopes[j].round = r
               /\ \E i \in Id : /\ task[i].parent = p
                                /\ j \notin ScopesOfNode[task[i].node]
                                /\ task[i].node \notin FirstTaskNode }

\* A join lets a round through once, whatever returns, resubmissions and
\* rollbacks happened in its branches: at most one row of a round has a
\* successor behind the join.
JoinOnce ==
  \A j \in Join, r \in Id : Cardinality(ReleasedBy(j, r)) <= 1

\* Once a round is through the join, no open row of the round is left and no
\* applicant still edits for one of its branches; and it stays so.
JoinComplete ==
  \A j \in Join, r \in Id : ReleasedBy(j, r) # {} =>
    \A i \in DoingIn(task) : ~ Blocks(i, j, r)

\* A round that is through the join had a branch for every edge of the fork.
AllBranchesCounted ==
  \A j \in Join, r \in Id : ReleasedBy(j, r) # {} =>
    \A f \in ForkOf[j] :
      Cardinality({ task[i].scopes[j].root : i \in { k \in Id :
                      task[k].scopes[j].root # 0 /\ task[k].scopes[j].round = r } })
        >= Len(Flow.succ[f])

\* A branch has one token: no two open rows lie in the same branches, an apply
\* row that waits on behalf of its branch included.  (For branches without
\* countersign and added signers.)
OneTokenPerBranch ==
  LET At(x) == IF task[x].back.src # 0 THEN task[x].back.branch ELSE task[x].scopes
  IN  \A i, k \in DoingIn(task) : At(i) # NoScopes /\ At(i) = At(k) => i = k

\* Top[i]: the oldest row of the unbroken lineage of rows at the node of row i
\* that ends with row i.  At a sequential countersign node this is the first
\* member's row, at a node with added signers the row of the first signer.
Top ==
  LET T[i \in 0 .. last] ==
        IF i # 0 /\ task[i].parent # 0 /\ task[task[i].parent].node = task[i].node
        THEN T[task[i].parent] ELSE i
  IN  T

\* The rows of the countersign to which row p belongs: one after the other from
\* the first member's row, or side by side under one parent.
Ballot(p) ==
  { i \in Id : /\ task[i].node = task[p].node
               /\ IF task[p].node \in Sequential THEN Top[i] = Top[p]
                  ELSE task[i].parent = task[p].parent }

\* Row i is open because row p at another node was agreed to or disagreed with.
Follows(i, p) ==
  /\ i \in DoingIn(task)
  /\ p # 0 /\ task[i].parent = p
  /\ task[i].node # task[p].node
  /\ task[p].submit \in {"agree", "disagree"}

\* When the token has left a countersign node, no member is still asked; and
\* unless a veto or an expression decided, every member of the node's roster
\* has answered, whatever earlier passes, rollbacks and returns have left in
\* the countersign variables of the instance.  (A rollback to a vetoed vote gives
\* the vetoing member alone another say.)
MembersAsked ==
  \A i, p \in Id : Follows(i, p) /\ Props[task[p].node].countersign \in {"SEQUENTIAL", "PARALLEL"} =>
    /\ Ballot(p) \cap DoingIn(task) = {}
    /\ \/ \E k \in Ballot(p) : Veto(task[k].node, task[k].submit)
       \/ Props[task[p].node].condition \in {"EQ", "GE"}
       \/ \A u \in FlowRange(Props[task[p].node].assignee) :
            \E k \in Ballot(p) : task[k].st = "DONE" /\ u \in task[k].actors

\* The members of a sequential countersign answer in the order of the roster.
MembersInOrder ==
  \A i, k \in Id :
    /\ task[i].node \in Sequential /\ task[k].node = task[i].node
    /\ task[k].parent = i /\ task[k].cs[task[k].node].members # << >>
    => \E x \in DOMAIN Props[task[i].node].assignee :
         /\ x < Len(Props[task[i].node].assignee)
         /\ task[i].actors = {Props[task[i].node].assignee[x]}
         /\ task[k].actors = {Props[task[i].node].assignee[x + 1]}

\* A node with added signers holds the token until all of them have answered,
\* and lets it go in the name of one of them.
SignersReleaseOnce ==
  \A i, p \in Id : Follows(i, p) /\ AddSignGate(task[p].node) =>
    /\ \A k \in DoingIn(task) : task[k].node = task[p].node => Top[k] # Top[p]
    /\ \A k, q \in Id : Follows(k, q) /\ Top[q] = Top[p] => q = p

\* An open row that a recall created stands for an older row at its node, with
\* its parent, and what was done there has no effect: every row below the older
\* one is dropped and was never handled.  (A rollback, which also repeats a node
\* and a parent, writes the owner of the row.)
RecallUndoes ==
  \A k \in DoingIn(task) :
    LET older == { i \in 1 .. k-1 : /\ task[i].node = task[k].node
                                    /\ task[i].parent = task[k].parent }
    IN  Props[task[k].node].recall /\ task[k].owner = NoUser /\ older # {} =>
          \E i \in older : \A d \in recallDescendants(i) :
            task[d].st \in {"ABANDONED", "WITHDRAW"}

\* An instance that has reached its end node has no open row left.
EndIsClean == Idle /\ state = "DONE" => DoingIn(task) = {}

\* Every command comes to an end: the walk over the definition terminates.
CommandEnds == ~ Idle ~> Idle
=============================================================================
