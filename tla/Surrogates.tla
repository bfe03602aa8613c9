------------------------------- MODULE Surrogates -------------------------------
(***************************************************************************)
(* Delegation: the rows of wf_process_surrogate as processSurrogate/save,  *)
(* update and remove write them (facade/facade.go), the lookup             *)
(* GetSurrogate of the two repositories, and the engine, which asks it for *)
(* every participant of a task before it saves the task                    *)
(* (applySurrogateToTask).                                                 *)
(*                                                                         *)
(* An edit reads the row and writes it back in two calls, and the engine   *)
(* asks for one participant after the other, the JDBC repository for one   *)
(* scope after the other, while others edit.  Every call sees what is      *)
(* committed.                                                              *)
(*                                                                         *)
(* A definition F_Bug is F with the bug its name tells; the properties are *)
(* checked to fail with it.                                                *)
(***************************************************************************)
EXTENDS Integers, Sequences, FiniteSetsExt

CONSTANTS
  Editor,      \* callers of Flow who edit delegations
  Form,        \* spellings of names, "" for none
  Of,          \* the name a spelling is trimmed to, "" for a blank one
  Process,     \* names of processes; "" in a row stands for all
  Submission,  \* what is submitted, see Fields
  Base,        \* the participants of the tasks the engine creates
  Stores,      \* the repositories considered, a subset of {"memory", "jdbc"}
  MaxTime, MaxRow, MaxEdit  \* bounds: the clock, the rows, the edits

Never == -1  \* a window without a bound on that side
Time == 0 .. MaxTime

\* What parseSurrogateTime and parseSurrogateEnabled get; "-" where there is no
\* operator among the arguments.
Fields ==
  [ processName : Process \union {""}, operator : Form \union {"-"}, surrogate : Form,
    start : Time \union {Never}, end : Time \union {Never},
    enabled : {"absent", "true", "false", "1", "0", "2", "abc"} ]

ASSUME StoresAssumption == Stores \subseteq {"memory", "jdbc"}
ASSUME FormAssumption ==
  /\ "" \in Form /\ "-" \notin Form /\ "user1" \in Form
  /\ Of \in [Form -> Form] /\ Of["user1"] = "user1" /\ Of[""] = ""
ASSUME SubmissionAssumption == Submission \subseteq Fields
ASSUME BaseAssumption == Base \subseteq Seq(Form \ {""}) /\ "" \notin Process
ASSUME BoundsAssumption == {MaxTime, MaxRow, MaxEdit} \subseteq Nat

VARIABLES
  store,    \* the repository in use
  now,      \* the clock
  rows,     \* id -> the row, for the rows there are
  nextId,   \* the ids below it are used
  edit,     \* editor -> the update that is half done
  edits,    \* how many edits have begun
  job,      \* the task the engine is about to save
  removed,  \* history variable: the ids that have been removed
  granted,  \* history variable: [who, agent] by rows that decided at some time of the job
  lasting   \* history variable: [who, id, scope, agent] that decided all the time of the job

vars == <<store, now, rows, nextId, edit, edits, job, removed, granted, lasting>>

Idle == [id |-> 0, row |-> <<>>, ask |-> <<>>]
NoJob == [phase |-> "none", process |-> "", at |-> 0, base |-> <<>>, next |-> 1, half |-> FALSE,
          out |-> <<>>, skipped |-> {}]

(***************************************************************************)
(* The rows                                                                *)
(***************************************************************************)
operatorArg(ask) ==
  IF ask.operator = "-" \/ Of[ask.operator] = "" THEN "user1" ELSE ask.operator

\* Nothing said is 1, what is no number is 0.
parseSurrogateEnabled(v) ==
  CASE v \in {"absent", "true", "1"} -> 1 [] v = "2" -> 2 [] OTHER -> 0

\* An operator that is not blank is taken as it is spelled.
applySurrogateFields(row, ask) ==
  [ processName |-> ask.processName,
    operator |-> IF ask.operator # "-" /\ Of[ask.operator] # "" THEN ask.operator ELSE row.operator,
    surrogate |-> ask.surrogate, start |-> ask.start, end |-> ask.end,
    enabled |-> parseSurrogateEnabled(ask.enabled) ]

\* IsEffective: the four tests on one row.
IsEffective(row, operator, at) ==
  /\ row.enabled = 1
  /\ Of[row.surrogate] \notin {"", operator}
  /\ row.start <= at
  /\ row.end = Never \/ row.end >= at

InScope(i, operator, processName) ==
  rows[i].operator = operator /\ rows[i].processName = processName

newestInScope_InForce(operator, processName) ==
  LET ids == {i \in DOMAIN rows : InScope(i, operator, processName)
                                  /\ IsEffective(rows[i], operator, job.at)}
  IN  IF ids = {} THEN 0 ELSE Max(ids)

\* newestInScopeLocked, queryNewestSurrogate; 0 for no row.
newestInScope(operator, processName) ==
  LET ids == {i \in DOMAIN rows : InScope(i, operator, processName)} IN
  IF ids = {} THEN 0 ELSE Max(ids)

\* The agent of the newest row of a scope, if that row is in force.
AgentIn(operator, processName) ==
  LET i == newestInScope(operator, processName) IN
  IF i # 0 /\ IsEffective(rows[i], operator, job.at) THEN rows[i].surrogate ELSE ""

(***************************************************************************)
(* The declaration of which row decides, for the history variables         *)
(***************************************************************************)
NewestInForce(f, i, who, processName, at) ==
  /\ i \in DOMAIN f
  /\ f[i].operator = who /\ f[i].processName = processName
  /\ \A k \in DOMAIN f : f[k].operator = who /\ f[k].processName = processName => k <= i
  /\ IsEffective(f[i], who, at)

\* The row of the process, or else the row of all processes.
Decides(f, i, who, processName, at) ==
  \/ NewestInForce(f, i, who, processName, at)
  \/ /\ \A k \in DOMAIN f : ~NewestInForce(f, k, who, processName, at)
     /\ NewestInForce(f, i, who, "", at)

People(j) == {j.base[k] : k \in DOMAIN j.base}

\* With two queries the second can find what the first would have hidden.
Grants(f, j) ==
  {[who |-> p[1], agent |-> f[p[2]].surrogate] : p \in
     {q \in People(j) \X DOMAIN f :
        \/ Decides(f, q[2], q[1], j.process, j.at)
        \/ store = "jdbc" /\ NewestInForce(f, q[2], q[1], "", j.at)}}
Deciding(f, j) ==
  {[who |-> p[1], id |-> p[2], scope |-> f[p[2]].processName, agent |-> f[p[2]].surrogate] : p \in
     {q \in People(j) \X DOMAIN f : Decides(f, q[2], q[1], j.process, j.at)}}

\* The history variables watch every step in which a job is under way.
Watch ==
  IF job'.phase # "asking" THEN UNCHANGED <<granted, lasting>>
  ELSE IF job.phase # "asking"
       THEN granted' = Grants(rows', job') /\ lasting' = Deciding(rows', job')
       ELSE /\ granted' = granted \union Grants(rows', job')
            /\ lasting' = lasting \intersect Deciding(rows', job')

(***************************************************************************)
(* Edits                                                                   *)
(***************************************************************************)
CanEdit(e) == edit[e] = Idle /\ edits < MaxEdit /\ edits' = edits + 1

\* surrogateSave without an id: the facade puts the operator first.
SaveSurrogate(e, ask) ==
  /\ CanEdit(e) /\ nextId <= MaxRow
  /\ rows' = [i \in DOMAIN rows \union {nextId} |->
                IF i = nextId THEN applySurrogateFields([operator |-> operatorArg(ask)], ask)
                ELSE rows[i]]
  /\ nextId' = nextId + 1
  /\ UNCHANGED <<store, now, edit, job, removed>>

\* surrogateUpdate, and surrogateSave with an id: FindSurrogateByID ...
FindSurrogate(e, id, ask) ==
  /\ CanEdit(e)
  /\ id \in DOMAIN rows
  /\ edit' = [edit EXCEPT ![e] = [id |-> id, row |-> rows[id], ask |-> ask]]
  /\ UNCHANGED <<store, now, rows, nextId, job, removed>>

\* ... then UpdateSurrogate.  The memory repository puts the row where it was,
\* there or not; UPDATE changes a row that is there.
Put_Upserts(id, row) == [i \in DOMAIN rows \union {id} |-> IF i = id THEN row ELSE rows[i]]
Put(id, row) ==
  IF store = "jdbc" /\ id \notin DOMAIN rows THEN rows
  ELSE [i \in DOMAIN rows \union {id} |-> IF i = id THEN row ELSE rows[i]]

UpdateSurrogate(e) ==
  /\ edit[e] # Idle
  /\ rows' = Put(edit[e].id, applySurrogateFields(edit[e].row, edit[e].ask))
  /\ edit' = [edit EXCEPT ![e] = Idle]
  /\ UNCHANGED <<store, now, nextId, edits, job, removed>>

RemoveSurrogate(e, id) ==
  /\ CanEdit(e)
  /\ id \in DOMAIN rows
  /\ rows' = [i \in DOMAIN rows \ {id} |-> rows[i]]
  /\ removed' = removed \union {id}
  /\ UNCHANGED <<store, now, nextId, edit, job>>

(***************************************************************************)
(* The engine                                                              *)
(***************************************************************************)
\* saveNewTask: the time is taken once, and so are the participants.
Begin(base, process) ==
  /\ job.phase # "asking"
  /\ job' = [NoJob EXCEPT !.phase = "asking", !.process = process, !.at = now, !.base = base,
                          !.out = base]
  /\ UNCHANGED <<store, now, rows, nextId, edit, edits, removed>>

Here == job.base[job.next]
Asking == job.phase = "asking" /\ job.next <= Len(job.base)
Contains(s, x) == \E k \in DOMAIN s : s[k] = x
Next1(j) == [j EXCEPT !.next = @ + 1, !.half = FALSE]

\* An agent is added once, as the row spells it; agents are not asked for theirs.
Added(out, actor, agent) ==
  IF agent \in {"", actor} \/ Contains(out, agent) THEN out ELSE Append(out, agent)

\* What comes after the newest row of the process was no use.
Fallback_Never(actor) == ""
Fallback(actor) == IF job.process = "" THEN "" ELSE AgentIn(actor, "")

\* The memory repository looks at both scopes under one lock.
GetSurrogateMemory ==
  /\ Asking /\ store = "memory"
  /\ LET exact == AgentIn(Here, job.process) IN
     job' = Next1([job EXCEPT !.out = Added(@, Here, IF exact # "" THEN exact ELSE Fallback(Here))])

GetSurrogateExact ==
  /\ Asking /\ store = "jdbc" /\ ~job.half
  /\ LET exact == AgentIn(Here, job.process) IN
     job' = IF exact # "" \/ job.process = "" THEN Next1([job EXCEPT !.out = Added(@, Here, exact)])
            ELSE [job EXCEPT !.half = TRUE]

GetSurrogateAll ==
  /\ Asking /\ store = "jdbc" /\ job.half
  /\ job' = Next1([job EXCEPT !.out = Added(@, Here, Fallback(Here))])

\* A query fails: the participant is passed over.
GetSurrogateFails ==
  /\ Asking /\ store = "jdbc"
  /\ job' = Next1([job EXCEPT !.skipped = @ \union {Here}])

SaveTask ==
  /\ job.phase = "asking" /\ job.next > Len(job.base)
  /\ job' = [job EXCEPT !.phase = "saved"]

Engine ==
  /\ \/ GetSurrogateMemory \/ GetSurrogateExact \/ GetSurrogateAll \/ GetSurrogateFails \/ SaveTask
  /\ UNCHANGED <<store, now, rows, nextId, edit, edits, removed>>

Tick ==
  /\ now < MaxTime
  /\ now' = now + 1
  /\ UNCHANGED <<store, rows, nextId, edit, edits, job, removed>>

Init ==
  /\ store \in Stores
  /\ now = 0 /\ nextId = 1 /\ edits = 0
  /\ rows = [i \in {} |-> 0]
  /\ edit = [e \in Editor |-> Idle]
  /\ job = NoJob
  /\ removed = {} /\ granted = {} /\ lasting = {}

Next ==
  /\ \/ \E e \in Editor, ask \in Submission :
          SaveSurrogate(e, ask) \/ \E id \in DOMAIN rows : FindSurrogate(e, id, ask)
     \/ \E e \in Editor : UpdateSurrogate(e) \/ \E id \in DOMAIN rows : RemoveSurrogate(e, id)
     \/ \E base \in Base, process \in Process \union {""} : Begin(base, process)
     \/ Engine \/ Tick
  /\ Watch

Spec == Init /\ [][Next]_vars

(***************************************************************************)
(* Properties                                                              *)
(***************************************************************************)
Saved == job.phase = "saved"
Joined == {job.out[k] : k \in Len(job.base) + 1 .. Len(job.out)}

\* Nobody gets a task who was not made an agent for it: the participants are
\* kept in their order, and who joins them stood, at some time while the engine
\* was asking, in the newest row of one of them, and that row was in force.  A
\* delegation that was switched off, moved in time, superseded or removed before
\* does not work any more, however many older ones are left (issues/123, the
\* comment on GetSurrogate), and an agent's own agent is not asked (the comment
\* on applySurrogateToTask).
OnlyDelegates ==
  Saved =>
    /\ Len(job.out) >= Len(job.base) /\ \A k \in DOMAIN job.base : job.out[k] = job.base[k]
    /\ \A x \in Joined : \E g \in granted : g.agent = x

\* A delegation that decides all the time works: the agent of a row that is the
\* deciding one for a participant from the beginning to the end of the lookups,
\* in the same scope, is among the participants, unless the lookup for that
\* participant failed.  (A row that is moved from all processes to this one
\* between the two queries is found by neither.)
DelegatesJoin ==
  Saved => \A g \in lasting : g.who \in job.skipped \/ Contains(job.out, g.agent)

\* A delegation that was removed stays so, also when it is removed between the
\* two calls of an update.  (With the memory repository the update brings it
\* back.)
RemovedStays == store = "jdbc" => removed \intersect DOMAIN rows = {}
=================================================================================
