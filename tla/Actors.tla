-------------------------------- MODULE Actors ---------------------------------
(***************************************************************************)
(* The participants of task rows: processTask/addCandidate and surrogate   *)
(* (taskAddActor), transfer, removeTaskActor of facade/facade.go, and a    *)
(* completion by the engine as far as it reads and writes participants,    *)
(* over the two repositories.                                              *)
(*                                                                         *)
(* None of the first three takes the mutex of the instance: they read the  *)
(* row and its participants, decide, and write in several calls.  Every    *)
(* call is a step; with the JDBC repository the writes of a request become *)
(* visible together when its transaction commits.                          *)
(*                                                                         *)
(* A participant row holds a spelling of a name.  Since NormalizeActors    *)
(* the writers store the trimmed name, but older rows may hold others, or  *)
(* nothing at all.                                                         *)
(*                                                                         *)
(* A definition F_Bug is F with the bug its name tells; the properties are *)
(* checked to fail with it.                                                *)
(***************************************************************************)
EXTENDS Naturals, Sequences, FiniteSets

CONSTANTS
  Client,      \* callers of Flow
  Task,        \* the rows of one instance
  User,        \* people; the trimmed spelling of a name is the name itself
  Privileged,  \* flow.auto and flow.admin, who may act on every row
  Form,        \* spellings found in rows
  Of,          \* the name a spelling normalises to, "" for a blank one
  Initial,     \* participants the rows may have at first
  Stores,      \* the repositories considered, a subset of {"memory", "jdbc"}
  MaxHops      \* bound: transfers of a row

ASSUME StoresAssumption == Stores \subseteq {"memory", "jdbc"}
ASSUME SpellingAssumption ==
  /\ User \subseteq Form /\ "" \notin User
  /\ Of \in [Form -> User \union {""}]
  /\ "" \in Form => Of[""] = ""
  /\ \A u \in User : Of[u] = u
ASSUME InitialAssumption ==
  /\ Initial \subseteq [Task -> SUBSET Form]
  /\ \A f \in Initial : \A t \in Task : \E p \in f[t] : Of[p] # ""

VARIABLES
  store,     \* the repository in use
  task,      \* wf_process_task: row -> [open, hops]; hops: length of tf_transferHistory
  rows,      \* wf_process_task_actor: row -> spelling -> how many rows
  job,       \* what each caller is doing
  disturbed  \* history variable: a request wrote after what it had read had changed,
             \* or between the writes of a transfer on what that had read

vars == <<store, task, rows, job, disturbed>>

(***************************************************************************)
(* Spellings                                                               *)
(***************************************************************************)
People(forms) == {Of[f] : f \in forms} \ {""}

\* ActorDeleteForms: a spelling is deleted as it stands and trimmed, so that
\* neither an old row nor a new one of the same person survives.
ActorDeleteForms_Trimmed(forms) == People(forms)
ActorDeleteForms(forms) == {f \in forms : Of[f] # ""} \union People(forms)

\* dedupStrs drops the empty string.
dedupStrs(forms) == forms \ {""}

Present(t) == {f \in Form : rows[t][f] > 0}
Once(forms) == [f \in Form |-> IF f \in forms THEN 1 ELSE 0]

\* The spellings AddTaskActor inserts, given those that are there.
Missing_Verbatim(there, people) == people \ there
Missing(there, people) == people \ People(there)

(***************************************************************************)
(* Writes                                                                  *)
(***************************************************************************)
RemoveTaskActor(t, forms) == [kind |-> "remove", task |-> t, forms |-> forms]
AddTaskActor(t, people) == [kind |-> "add", task |-> t, forms |-> people]
UpdateTask(t, state, forms) == [kind |-> "update", task |-> t, state |-> state, forms |-> forms]
UpdateInstance(states, forms) == [kind |-> "cascade", states |-> states, forms |-> forms]

\* The memory repository stores the participants of the loaded row with it,
\* unless there are none; the JDBC repository leaves them alone.
Stored(t, forms) == IF store = "memory" /\ forms # {} THEN Once(forms) ELSE rows[t]

\* The participants after write w.  The JDBC repository inserts what it found
\* missing when it looked; the memory repository looks while it inserts.
RowsAfter(w) ==
  CASE w.kind = "remove" ->
         [rows EXCEPT ![w.task] = [f \in Form |-> IF f \in w.forms THEN 0 ELSE @[f]]]
    [] w.kind = "add" ->
         LET new == IF store = "memory" THEN Missing(Present(w.task), w.forms) ELSE w.forms
         IN  [rows EXCEPT ![w.task] = [f \in Form |-> IF f \in new THEN @[f] + 1 ELSE @[f]]]
    [] w.kind = "update" -> [rows EXCEPT ![w.task] = Stored(w.task, w.forms)]
    [] w.kind = "cascade" -> [t \in Task |-> Stored(t, w.forms[t])]

TasksAfter(w) ==
  CASE w.kind = "update" -> [task EXCEPT ![w.task] = w.state]
    [] w.kind = "cascade" -> w.states
    [] OTHER -> task

(***************************************************************************)
(* Requests                                                                *)
(***************************************************************************)
\* pc is the next call: "task" (FindTaskByID), "joined" (its participants, a
\* second statement over JDBC), "actors" (FindTaskActors), "instance"
\* (FindInstanceByID), "existing" (the read inside AddTaskActor), "write".
Idle == [op |-> "-", pc |-> "idle", task |-> "-", who |-> {}, to |-> "-",
         row |-> [open |-> FALSE, hops |-> 0], forms |-> {}, plan |-> <<>>,
         was |-> {}, read |-> {}, overtaken |-> FALSE]

Quiet(c) == store = "jdbc" => \A d \in Client \ {c} : job[d].pc # "write"
At(c, pc) == job[c].pc = pc /\ Quiet(c)

\* was: who was on the row when the writes began.
Planning(j, writes) ==
  [Idle EXCEPT !.op = j.op, !.task = j.task, !.who = j.who, !.to = j.to, !.read = j.read, !.overtaken = j.overtaken,
               !.pc = "write", !.plan = writes, !.was = People(Present(j.task))]

Proceed(c, j, objects) ==
  /\ job' = [job EXCEPT ![c] = [j EXCEPT !.read = @ \union objects]]
  /\ UNCHANGED <<store, task, rows, disturbed>>
End(c) == Proceed(c, Idle, {})

TaskRow(t) == <<"task", t>>
ActorRows(t) == <<"actors", t>>

Enter(c, request) ==
  /\ job[c].pc = "idle" /\ Quiet(c)
  /\ Proceed(c, request, {})

\* taskAddActor asks neither for the state of the row nor who is asking.
taskAddActor(c) == \E t \in Task, people \in (SUBSET User) \ {{}} :
  LET j == [Idle EXCEPT !.op = "add", !.task = t, !.who = people] IN
  Enter(c, IF store = "jdbc" THEN [j EXCEPT !.pc = "existing"]
           ELSE [Planning(j, <<AddTaskActor(t, people)>>) EXCEPT !.op = "add"])

\* One hands over one's own row, or flow.auto and flow.admin do; either way
\* there is a caller who may ask for the transfer.
taskTransfer(c) == \E t \in Task, from, to \in User :
  Enter(c, [Idle EXCEPT !.op = "transfer", !.pc = "task", !.task = t, !.who = {from}, !.to = to])

\* One may remove others only along with oneself, unless one is privileged.
taskRemoveActor(c) == \E t \in Task, people \in (SUBSET User) \ {{}} :
  Enter(c, [Idle EXCEPT !.op = "remove", !.pc = "task", !.task = t, !.who = people])

\* One command of the engine at a time has the instance (see InstanceLock).
execute(c) == \E t \in Task, u \in User \union Privileged :
  /\ \A d \in Client : job[d].op # "execute"
  /\ Enter(c, [Idle EXCEPT !.op = "execute", !.pc = "task", !.task = t, !.who = {u}])

(* ---- the reads --------------------------------------------------------- *)
\* Every handler but taskAddActor refuses a row that is not DOING.
FindTaskByID(c) ==
  LET j == job[c]
      t == j.task
      follow == IF store = "jdbc" THEN "joined" ELSE "actors"
      seen == [j EXCEPT !.row = task[t], !.pc = follow,
                        !.forms = IF store = "jdbc" THEN {} ELSE Present(t)]
  IN
  /\ At(c, "task")
  /\ IF task[t].open THEN Proceed(c, seen, {TaskRow(t), ActorRows(t)}) ELSE End(c)

findTaskActors(c) ==
  /\ At(c, "joined")
  /\ Proceed(c, [job[c] EXCEPT !.forms = Present(job[c].task), !.pc = "actors"], {})

\* taskTransfer: the spellings of the one who leaves go, whoever else is there
\* stays, the ledger grows by one; UpdateTask gets the participants with it.
Transferred(j, known) ==
  LET from == {p \in known : Of[p] \in j.who}
      kept == known \ from
      state == [j.row EXCEPT !.hops = @ + 1]
  IN  <<RemoveTaskActor(j.task, ActorDeleteForms(from)), AddTaskActor(j.task, {j.to}),
        UpdateTask(j.task, state, dedupStrs(kept \union {j.to}))>>
MayTransfer(j, known) ==
  /\ \E p \in known : Of[p] \in j.who
  /\ \A p \in known : Of[p] = j.to => Of[p] \in j.who
  /\ j.row.hops < MaxHops

\* taskRemoveActor: blanks do not count as somebody who stays.
Remaining(j, known) == {p \in known : Of[p] # "" /\ Of[p] \notin j.who}

\* FindTaskActors: what the row says and what the relation says are put together.
FindTaskActors(c) ==
  LET j == job[c]
      t == j.task
      known == dedupStrs(j.forms \union Present(t))
      leaving == {p \in known : Of[p] \in j.who}
      objects == {ActorRows(t)}
  IN
  /\ At(c, "actors")
  /\ \/ /\ j.op = "transfer"
        /\ IF ~MayTransfer(j, known) THEN End(c)
           ELSE Proceed(c, IF store = "jdbc" THEN [j EXCEPT !.forms = known, !.pc = "existing"]
                           ELSE Planning(j, Transferred(j, known)), objects)
     \/ /\ j.op = "remove"
        /\ IF leaving = {} \/ Remaining(j, known) = {} THEN End(c)
           ELSE Proceed(c, Planning(j, <<RemoveTaskActor(t, ActorDeleteForms(leaving))>>), objects)
     \/ /\ j.op = "execute"
        /\ IF j.who \intersect (j.forms \union Present(t) \union Privileged) = {} THEN End(c)
           ELSE Proceed(c, [j EXCEPT !.pc = "instance"], objects)

\* JDBC AddTaskActor: what is there is read before what is missing is inserted;
\* in a transfer after the statement that deletes.
existing(c) ==
  LET j == job[c]
      t == j.task
      plan == Transferred(j, j.forms)
      there == Present(t) \ plan[1].forms
  IN
  /\ At(c, "existing")
  /\ IF j.op = "transfer"
     THEN Proceed(c, Planning(j, <<plan[1], AddTaskActor(t, Missing(there, {j.to})), plan[3]>>),
                  {ActorRows(t)})
     ELSE IF Missing(Present(t), j.who) = {} THEN End(c)
     ELSE Proceed(c, Planning(j, <<AddTaskActor(t, Missing(Present(t), j.who))>>), {ActorRows(t)})

\* CompleteTask: the variables of the row stay under those that are submitted.
Completed_NewVariables(row) == [open |-> FALSE, hops |-> 0]
Completed(row) == [row EXCEPT !.open = FALSE]

\* FindInstanceByID loads every row of the instance with its participants;
\* UpdateTask and the cascade of UpdateInstance write them back, the completed
\* row as it was completed.
FindInstanceByID(c) ==
  LET j == job[c]
      done == Completed(j.row)
      states == [t \in Task |-> IF t = j.task THEN done ELSE task[t]]
      forms == [t \in Task |-> IF t = j.task THEN j.forms ELSE Present(t)]
  IN
  /\ At(c, "instance")
  /\ Proceed(c, Planning(j, <<UpdateTask(j.task, done, j.forms), UpdateInstance(states, forms)>>),
             {TaskRow(t) : t \in Task} \union {ActorRows(t) : t \in Task})

(* ---- the writes -------------------------------------------------------- *)
Changes(w) ==
  {TaskRow(t) : t \in {u \in Task : TasksAfter(w)[u] # task[u]}}
    \union {ActorRows(t) : t \in {u \in Task : RowsAfter(w)[u] # rows[u]}}

\* A transfer that has written, and has more to write.
MidTransfer(j) == j.op = "transfer" /\ j.pc = "write" /\ Len(j.plan) < 3

WriteNext(c) ==
  LET j == job[c]
      w == Head(j.plan)
      objects == Changes(w)
  IN
  /\ At(c, "write")
  /\ task' = TasksAfter(w) /\ rows' = RowsAfter(w)
  /\ disturbed' = \/ disturbed \/ j.overtaken
                  \/ \E d \in Client \ {c} : MidTransfer(job[d]) /\ job[d].read \intersect objects # {}
  /\ job' = [d \in Client |->
       IF d = c THEN IF Len(j.plan) = 1 THEN Idle
                     ELSE [j EXCEPT !.plan = Tail(@), !.read = @ \union objects]
       ELSE [job[d] EXCEPT !.overtaken = @ \/ job[d].read \intersect objects # {}]]
  /\ UNCHANGED store

(***************************************************************************)
(* The system                                                              *)
(***************************************************************************)
Init ==
  /\ store \in Stores
  /\ task = [t \in Task |-> [open |-> TRUE, hops |-> 0]]
  /\ \E f \in Initial : rows = [t \in Task |-> Once(f[t])]
  /\ job = [c \in Client |-> Idle]
  /\ disturbed = FALSE

Next == \E c \in Client :
  \/ taskAddActor(c) \/ taskTransfer(c) \/ taskRemoveActor(c) \/ execute(c)
  \/ FindTaskByID(c) \/ findTaskActors(c) \/ FindTaskActors(c) \/ existing(c)
  \/ FindInstanceByID(c) \/ WriteNext(c)

Spec == Init /\ [][Next]_vars

(***************************************************************************)
(* Properties                                                              *)
(***************************************************************************)
\* A transfer that has begun to write counts as done.
Transferring(t) == {c \in Client : MidTransfer(job[c]) /\ job[c].task = t}

Handed(j) == (j.was \ j.who) \union {j.to}
MembersOf(t) ==
  IF Transferring(t) # {} THEN Handed(job[CHOOSE c \in Transferring(t) : TRUE])
  ELSE People(Present(t))

Abstract == INSTANCE Membership WITH
  members <- [t \in Task |-> MembersOf(t)], open <- {t \in Task : task[t].open}

\* A request takes effect with the first of its writes.
Writes(op) == CASE op = "transfer" -> 3 [] op = "execute" -> 2 [] OTHER -> 1
Writing(c) == job[c].pc = "write" /\ job'[c].plan # job[c].plan
Serves(c) ==
  /\ Writing(c)
  /\ Len(job[c].plan) = Writes(job[c].op)

Effect(j) ==
  CASE j.op = "add" -> Abstract!Add(j.task, j.who)
    [] j.op = "transfer" -> \E from \in j.who : Abstract!Transfer(j.task, from, j.to)
    [] j.op = "remove" -> Abstract!Leave(j.task, j.who)
    [] j.op = "execute" -> Abstract!Complete(j.task)

\* Over either repository, and however names are spelled in old rows, a request
\* that succeeds has the effect Membership says it has, and nothing else has
\* one, until a request writes that was overtaken.  In particular the two
\* repositories give the same answer.
Implements ==
  /\ Abstract!Init
  /\ [][ \/ disturbed'
         \/ \E c \in Client : Serves(c) /\ Effect(job[c])
         \/ ~(\E c \in Client : Serves(c)) /\ UNCHANGED Abstract!vars ]_vars

\* Nobody is a participant of a row twice, in one spelling or in two, so a row
\* appears once in a list of what one has to do.  Two additions of one person
\* that both read before the other inserted do make two rows over JDBC: the
\* second to write was overtaken, and what follows is exempt (disturbed).
OneRowEach ==
  disturbed \/ \A t \in Task : \A f \in Present(t) :
    /\ rows[t][f] = 1
    /\ Of[f] # "" => \A g \in Present(t) : Of[g] = Of[f] => g = f

\* The ledger of transfers is only appended to, across the requests of others
\* and the completion of the row: only a request that was overtaken on what it
\* had read can shorten it (two transfers of a row, or a transfer and a
\* completion, both of which loaded the row before the other wrote).  What is
\* exempt is the write of that request, not what the others do after it.
LedgerGrows ==
  [][\A t \in Task : task'[t].hops >= task[t].hops
       \/ \E c \in Client : Writing(c) /\ job[c].overtaken]_vars
=============================================================================
