--------------------------- MODULE SurrogatesProofs ----------------------------
(***************************************************************************)
(* Who joins a task by delegation, for any rows, editors, spellings of     *)
(* names and times, over either repository.                                *)
(***************************************************************************)
EXTENDS Surrogates, SequenceTheorems, WellFoundedInduction, TLAPS

-----------------------------------------------------------------------------
(* The newest row of a scope. *)

Below(n) == {i \in Nat : 0 < i /\ i < n}

\* A set of ids in use has a greatest one: the ids taken away from the bound
\* have a least one.
LEMMA GreatestId ==
  ASSUME NEW n \in Nat, NEW ids, ids \subseteq Below(n), ids # {}
  PROVE  Max(ids) \in ids /\ \A k \in ids : k <= Max(ids)
  <1> DEFINE mirrored == {m \in Nat : \E i \in ids : m = n - i}
  <1>1. mirrored \subseteq Nat /\ mirrored # {}
    <2>1. PICK i \in ids : TRUE
      OBVIOUS
    <2>2. n - i \in Nat
      BY DEF Below
    <2> QED
      BY <2>1, <2>2
  <1>2. PICK m \in mirrored : \A k \in mirrored : <<k, m>> \notin OpToRel(<, Nat)
    BY <1>1, WFMin, NatLessThanWellFounded
  <1>3. PICK i \in ids : m = n - i
    OBVIOUS
  <1>4. \A k \in ids : i >= k
    <2> SUFFICES ASSUME NEW k \in ids, k > i PROVE FALSE
      BY DEF Below
    <2>1. n - k \in mirrored /\ n - k \in Nat /\ n - k < n - i
      BY DEF Below
    <2> HIDE DEF mirrored
    <2> QED
      BY <1>1, <1>2, <1>3, <2>1 DEF OpToRel
  <1>5. Max(ids) \in ids /\ \A k \in ids : Max(ids) >= k
    BY <1>4 DEF Max
  <1> QED
    BY <1>5 DEF Below

\* The rows and the half-done updates.
RowsOK ==
  /\ store \in {"memory", "jdbc"}
  /\ nextId \in Nat \ {0} /\ now \in Nat
  /\ DOMAIN rows \subseteq Below(nextId) /\ removed \subseteq Below(nextId)
  /\ \A i \in DOMAIN rows : rows[i].surrogate \in Form
  /\ edit = [e \in Editor |-> edit[e]]
  /\ \A e \in Editor : edit[e] = Idle \/ (edit[e].id \in Below(nextId) /\ edit[e].ask \in Submission)
  /\ store = "jdbc" => removed \intersect DOMAIN rows = {}

\* AgentIn is the agent of the row that is the newest of its scope, if it is in force.
LEMMA AgentFound ==
  ASSUME RowsOK, NEW who, NEW processName, AgentIn(who, processName) # ""
  PROVE  \E i \in DOMAIN rows : /\ NewestInForce(rows, i, who, processName, job.at)
                                /\ rows[i].surrogate = AgentIn(who, processName)
  <1> DEFINE ids == {i \in DOMAIN rows : InScope(i, who, processName)}
             i == newestInScope(who, processName)
  <1>1. i # 0 /\ IsEffective(rows[i], who, job.at) /\ AgentIn(who, processName) = rows[i].surrogate
    BY DEF AgentIn
  <1>2. ids # {} /\ i = Max(ids)
    BY <1>1 DEF newestInScope
  <1>3. i \in ids /\ \A k \in ids : k <= i
    <2>1. ids \subseteq Below(nextId) /\ nextId \in Nat
      BY DEF RowsOK
    <2> HIDE DEF ids, i
    <2> QED
      BY <1>2, <2>1, GreatestId
  <1> QED
    BY <1>1, <1>3 DEF NewestInForce, InScope

LEMMA AgentOfNewest ==
  ASSUME RowsOK, NEW who, NEW processName, NEW i \in DOMAIN rows,
         NewestInForce(rows, i, who, processName, job.at)
  PROVE  AgentIn(who, processName) = rows[i].surrogate /\ rows[i].surrogate # ""
  <1> DEFINE ids == {k \in DOMAIN rows : InScope(k, who, processName)}
             n == newestInScope(who, processName)
  <1>1. i \in ids /\ \A k \in ids : k <= i
    BY DEF NewestInForce, InScope
  <1>2. ids \subseteq Below(nextId) /\ nextId \in Nat
    BY DEF RowsOK
  <1>3. n = Max(ids)
    BY <1>1 DEF newestInScope
  <1>4. n = i /\ n # 0
    <2> HIDE DEF ids, n
    <2>1. Max(ids) \in ids /\ \A k \in ids : k <= Max(ids)
      BY <1>1, <1>2, GreatestId
    <2> QED
      BY <1>1, <1>2, <1>3, <2>1 DEF Below
  <1>5. IsEffective(rows[i], who, job.at)
    BY DEF NewestInForce
  <1>6. rows[i].surrogate # ""
    BY <1>5, FormAssumption DEF IsEffective
  <1> QED
    BY <1>4, <1>5, <1>6 DEF AgentIn
-----------------------------------------------------------------------------
(* Edits. *)

LEMMA FieldsApplied ==
  ASSUME NEW row, NEW ask \in Submission
  PROVE  applySurrogateFields(row, ask).surrogate \in Form
  <1>1. applySurrogateFields(row, ask).surrogate = ask.surrogate
    BY DEF applySurrogateFields
  <1> QED
    BY <1>1, SubmissionAssumption DEF Fields

LEMMA SaveKeeps ==
  ASSUME RowsOK, NEW e \in Editor, NEW ask \in Submission, SaveSurrogate(e, ask)
  PROVE  RowsOK'
  <1> DEFINE new == applySurrogateFields([operator |-> operatorArg(ask)], ask)
  <1>1. /\ rows' = [i \in DOMAIN rows \union {nextId} |-> IF i = nextId THEN new ELSE rows[i]]
        /\ nextId' = nextId + 1 /\ UNCHANGED <<store, now, edit, job, removed>>
    BY DEF SaveSurrogate
  <1>2. new.surrogate \in Form
    BY FieldsApplied
  <1> HIDE DEF new
  <1>3. Below(nextId) \subseteq Below(nextId') /\ nextId \in Below(nextId') /\ nextId \notin Below(nextId)
    BY <1>1 DEF RowsOK, Below
  <1>4. DOMAIN rows' = DOMAIN rows \union {nextId}
    BY <1>1
  <1>5. \A i \in DOMAIN rows' : rows'[i].surrogate \in Form
    BY <1>1, <1>2 DEF RowsOK
  <1>6. nextId' \in Nat \ {0} /\ DOMAIN rows' \subseteq Below(nextId') /\ removed' \subseteq Below(nextId')
    BY <1>1, <1>3, <1>4 DEF RowsOK
  <1>7. \A d \in Editor : edit'[d] = Idle \/ (edit'[d].id \in Below(nextId') /\ edit'[d].ask \in Submission)
    BY <1>1, <1>3 DEF RowsOK
  <1>8. store = "jdbc" => removed' \intersect DOMAIN rows' = {}
    BY <1>1, <1>3, <1>4 DEF RowsOK
  <1> QED
    BY <1>1, <1>5, <1>6, <1>7, <1>8 DEF RowsOK

LEMMA FindKeeps ==
  ASSUME RowsOK, NEW e \in Editor, NEW ask \in Submission, NEW id \in DOMAIN rows,
         FindSurrogate(e, id, ask)
  PROVE  RowsOK'
  <1> DEFINE half == [id |-> id, row |-> rows[id], ask |-> ask]
  <1>1. edit' = [edit EXCEPT ![e] = half] /\ UNCHANGED <<store, now, rows, nextId, job, removed>>
    BY DEF FindSurrogate
  <1>2. half.id \in Below(nextId) /\ half.ask \in Submission
    BY DEF RowsOK
  <1> HIDE DEF half
  <1> QED
    BY <1>1, <1>2 DEF RowsOK

LEMMA UpdateKeeps ==
  ASSUME RowsOK, NEW e \in Editor, UpdateSurrogate(e)
  PROVE  RowsOK'
  <1> DEFINE id == edit[e].id
             row == applySurrogateFields(edit[e].row, edit[e].ask)
  <1>1. rows' = Put(id, row) /\ edit' = [edit EXCEPT ![e] = Idle]
        /\ UNCHANGED <<store, now, nextId, job, removed>>
    BY DEF UpdateSurrogate
  <1>2. id \in Below(nextId) /\ row.surrogate \in Form
    BY FieldsApplied DEF RowsOK, UpdateSurrogate
  <1> HIDE DEF id, row
  <1>3. edit' = [d \in Editor |-> edit'[d]]
        /\ \A d \in Editor : edit'[d] = Idle \/ (edit'[d].id \in Below(nextId) /\ edit'[d].ask \in Submission)
    BY <1>1 DEF RowsOK
  <1>4. CASE store = "jdbc" /\ id \notin DOMAIN rows
    <2>1. rows' = rows
      BY <1>1, <1>4 DEF Put
    <2> QED
      BY <1>1, <1>3, <2>1 DEF RowsOK
  <1>5. CASE ~ (store = "jdbc" /\ id \notin DOMAIN rows)
    <2>1. rows' = [i \in DOMAIN rows \union {id} |-> IF i = id THEN row ELSE rows[i]]
      BY <1>1, <1>5 DEF Put
    <2>2. DOMAIN rows' = DOMAIN rows \union {id}
      BY <2>1
    <2>3. \A i \in DOMAIN rows' : rows'[i].surrogate \in Form
      BY <1>2, <2>1 DEF RowsOK
    <2>4. store = "jdbc" => DOMAIN rows' = DOMAIN rows
      BY <1>5, <2>2
    <2> QED
      BY <1>1, <1>2, <1>3, <2>2, <2>3, <2>4 DEF RowsOK
  <1> QED
    BY <1>4, <1>5

LEMMA RemoveKeeps ==
  ASSUME RowsOK, NEW e \in Editor, NEW id \in DOMAIN rows, RemoveSurrogate(e, id)
  PROVE  RowsOK'
  <1>1. rows' = [i \in DOMAIN rows \ {id} |-> rows[i]] /\ removed' = removed \union {id}
        /\ UNCHANGED <<store, now, nextId, edit, job>>
    BY DEF RemoveSurrogate
  <1>2. DOMAIN rows' = DOMAIN rows \ {id} /\ \A i \in DOMAIN rows' : rows'[i].surrogate \in Form
    BY <1>1 DEF RowsOK
  <1> QED
    BY <1>1, <1>2 DEF RowsOK

\* Whatever is edited, the ids below nextId are the ones that were used.
LEMMA RowsKeep ==
  ASSUME RowsOK, Next
  PROVE  RowsOK'
  <1>1. CASE UNCHANGED <<store, rows, nextId, edit, removed>> /\ now' \in Nat
    BY <1>1 DEF RowsOK
  <1>2. ASSUME NEW base, NEW process, Begin(base, process) PROVE RowsOK'
    BY <1>1, <1>2 DEF Begin, RowsOK
  <1>3. CASE Engine
    BY <1>1, <1>3 DEF Engine, RowsOK
  <1>4. CASE Tick
    BY <1>1, <1>4 DEF Tick, RowsOK
  <1> QED
    BY <1>2, <1>3, <1>4, SaveKeeps, FindKeeps, UpdateKeeps, RemoveKeeps DEF Next
-----------------------------------------------------------------------------
(* The lookups. *)

\* A participant has been asked about, or is still to be.
Served(g) ==
  \/ g.who \in job.skipped
  \/ Contains(job.out, g.agent)
  \/ \E k \in job.next .. Len(job.base) : job.base[k] = g.who

Scope == Process \union {""}
Phase == {"none", "asking", "saved"}

Job ==
  [phase : Phase, process : Scope, at : Nat, base : Seq(Form),
   next : Nat \ {0}, half : BOOLEAN, out : Seq(Form), skipped : SUBSET Form]
JobTyped == job \in Job

\* The participants are at the head of the task, behind them agents.
Kept ==
  /\ Len(job.out) >= Len(job.base)
  /\ \A k \in 1 .. Len(job.base) : job.out[k] = job.base[k]
  /\ \A k \in Len(job.base) + 1 .. Len(job.out) : \E g \in granted : g.agent = job.out[k]

\* Between two queries nothing that decided all the time is of the process.
Between ==
  job.half =>
    /\ job.phase = "asking" /\ job.next <= Len(job.base) /\ job.process # ""
    /\ \A g \in lasting : g.who = Here => g.scope = ""

JobOK ==
  /\ JobTyped
  /\ job.phase = "saved" => job.next > Len(job.base)
  /\ job.phase # "none" => Kept /\ \A g \in lasting : Served(g)
  /\ Between

\* What the two scopes say together, looked at at the same time.
Resolved(who) ==
  IF AgentIn(who, job.process) # "" THEN AgentIn(who, job.process) ELSE Fallback(who)

LEMMA GrantedIn ==
  ASSUME NEW who \in People(job), NEW i \in DOMAIN rows,
         Decides(rows, i, who, job.process, job.at)
           \/ (store = "jdbc" /\ NewestInForce(rows, i, who, "", job.at))
  PROVE  \E g \in Grants(rows, job) : g.agent = rows[i].surrogate
  <1> DEFINE pairs == {q \in People(job) \X DOMAIN rows :
                         \/ Decides(rows, q[2], q[1], job.process, job.at)
                         \/ store = "jdbc" /\ NewestInForce(rows, q[2], q[1], "", job.at)}
  <1>1. <<who, i>> \in pairs
    OBVIOUS
  <1>2. Grants(rows, job) = {[who |-> p[1], agent |-> rows[p[2]].surrogate] : p \in pairs}
    BY DEF Grants
  <1> HIDE DEF pairs
  <1>3. [who |-> <<who, i>>[1], agent |-> rows[<<who, i>>[2]].surrogate] \in Grants(rows, job)
    BY <1>1, <1>2
  <1> QED
    BY <1>3

LEMMA DecidesIn ==
  ASSUME NEW g \in Deciding(rows, job)
  PROVE  /\ g.id \in DOMAIN rows /\ g.who \in People(job)
         /\ g.scope = rows[g.id].processName /\ g.agent = rows[g.id].surrogate
         /\ Decides(rows, g.id, g.who, job.process, job.at)
  <1> DEFINE pairs == {q \in People(job) \X DOMAIN rows : Decides(rows, q[2], q[1], job.process, job.at)}
  <1>1. PICK p \in pairs : g = [who |-> p[1], id |-> p[2], scope |-> rows[p[2]].processName,
                                agent |-> rows[p[2]].surrogate]
    BY DEF Deciding
  <1>2. p[1] \in People(job) /\ p[2] \in DOMAIN rows /\ Decides(rows, p[2], p[1], job.process, job.at)
    OBVIOUS
  <1>3. g.who = p[1] /\ g.id = p[2] /\ g.scope = rows[p[2]].processName /\ g.agent = rows[p[2]].surrogate
    BY <1>1
  <1> QED
    BY <1>2, <1>3

\* A row that decides in the scope of the process is found there, another one
\* where there is none.
LEMMA ResolvedIsRight ==
  ASSUME RowsOK, NEW who \in People(job)
  PROVE  /\ Resolved(who) \in Form
         /\ Resolved(who) # "" => \E g \in Grants(rows, job) : g.agent = Resolved(who)
         /\ \A g \in Deciding(rows, job) : g.who = who => g.agent = Resolved(who) /\ g.agent # ""
         /\ AgentIn(who, job.process) = "" =>
              \A g \in Deciding(rows, job) : g.who = who => g.scope = "" /\ job.process # ""
  <1>1. CASE AgentIn(who, job.process) # ""
    <2>1. Resolved(who) = AgentIn(who, job.process)
      BY <1>1 DEF Resolved
    <2>2. PICK i \in DOMAIN rows : NewestInForce(rows, i, who, job.process, job.at)
                                   /\ rows[i].surrogate = AgentIn(who, job.process)
      BY <1>1, AgentFound
    <2>3. Decides(rows, i, who, job.process, job.at)
      BY <2>2 DEF Decides
    <2>4. ASSUME NEW g \in Deciding(rows, job), g.who = who PROVE g.agent = Resolved(who)
      <3>1. g.id \in DOMAIN rows /\ NewestInForce(rows, g.id, who, job.process, job.at)
        BY <2>2, <2>4, DecidesIn DEF Decides
      <3>2. AgentIn(who, job.process) = rows[g.id].surrogate
        BY <3>1, AgentOfNewest
      <3> QED
        BY <2>1, <2>4, <3>2, DecidesIn
    <2> QED
      BY <1>1, <2>1, <2>2, <2>3, <2>4, GrantedIn DEF RowsOK
  <1>2. CASE AgentIn(who, job.process) = ""
    <2>1. \A k \in DOMAIN rows : ~ NewestInForce(rows, k, who, job.process, job.at)
      BY <1>2, AgentOfNewest
    <2>2. Resolved(who) = Fallback(who)
      BY <1>2 DEF Resolved
    <2>3. ASSUME NEW g \in Deciding(rows, job), g.who = who
          PROVE  g.agent = Resolved(who) /\ g.agent # "" /\ g.scope = "" /\ job.process # ""
      <3>1. g.id \in DOMAIN rows /\ NewestInForce(rows, g.id, who, "", job.at)
        BY <2>1, <2>3, DecidesIn DEF Decides
      <3>2. job.process # "" /\ rows[g.id].processName = ""
        BY <2>1, <3>1 DEF NewestInForce
      <3>3. AgentIn(who, "") = rows[g.id].surrogate /\ rows[g.id].surrogate # ""
        BY <3>1, AgentOfNewest
      <3> QED
        BY <2>2, <3>2, <3>3, DecidesIn DEF Fallback
    <2>4. CASE Resolved(who) = ""
      BY <1>2, <2>3, <2>4, FormAssumption
    <2>5. CASE Resolved(who) # ""
      <3>1. AgentIn(who, "") # "" /\ Resolved(who) = AgentIn(who, "")
        BY <2>2, <2>5 DEF Fallback
      <3>2. PICK i \in DOMAIN rows : NewestInForce(rows, i, who, "", job.at)
                                     /\ rows[i].surrogate = AgentIn(who, "")
        BY <3>1, AgentFound
      <3>3. Decides(rows, i, who, job.process, job.at)
        BY <2>1, <3>2 DEF Decides
      <3> QED
        BY <1>2, <2>3, <3>1, <3>2, <3>3, GrantedIn DEF RowsOK
    <2> QED
      BY <2>4, <2>5
  <1> QED
    BY <1>1, <1>2
-----------------------------------------------------------------------------
(* The engine. *)

\* What stays of the question while the engine asks.
SameQuestion ==
  UNCHANGED <<store, rows, job.process, job.at, job.base>> /\ job'.phase = "asking"

LEMMA WatchSame ==
  ASSUME job.phase = "asking", SameQuestion, Watch
  PROVE  granted' = granted \union Grants(rows, job) /\ lasting' \subseteq lasting \intersect Deciding(rows, job)
  <1>1. Grants(rows', job') = Grants(rows, job)
    BY DEF SameQuestion, Grants, People, Decides, NewestInForce
  <1>2. Deciding(rows', job') = Deciding(rows, job)
    BY DEF SameQuestion, Deciding, People, Decides, NewestInForce
  <1> QED
    BY <1>1, <1>2 DEF Watch, SameQuestion

Named(agent) == agent # ""

\* An agent is at the end of the task, or was in it, and nobody else is.
AddedTo(out, agent, new) ==
  /\ new \in Seq(Form) /\ Len(new) >= Len(out)
  /\ \A k \in 1 .. Len(out) : new[k] = out[k]
  /\ \A k \in Len(out) + 1 .. Len(new) : Named(agent) /\ new[k] = agent
  /\ Named(agent) => Contains(new, agent)
  /\ \A x : Contains(out, x) => Contains(new, x)

LEMMA AppendAdds ==
  ASSUME NEW out \in Seq(Form), NEW agent \in Form, Named(agent)
  PROVE  AddedTo(out, agent, Append(out, agent))
  <1> DEFINE new == Append(out, agent)
  <1>1. /\ new \in Seq(Form) /\ Len(new) = Len(out) + 1
        /\ \A k \in 1 .. Len(out) : new[k] = out[k]
        /\ new[Len(out) + 1] = agent
        /\ DOMAIN new = 1 .. Len(out) + 1 /\ DOMAIN out = 1 .. Len(out) /\ Len(out) \in Nat
    OBVIOUS
  <1> HIDE DEF new
  <1>2. Contains(new, agent)
    BY <1>1 DEF Contains
  <1>3. \A x : Contains(out, x) => Contains(new, x)
    BY ONLY <1>1 DEF Contains
  <1>4. \A k \in Len(out) + 1 .. Len(new) : new[k] = agent
    BY ONLY <1>1
  <1>5. AddedTo(out, agent, new)
    BY <1>1, <1>2, <1>3, <1>4 DEF AddedTo
  <1> QED
    BY <1>5 DEF new

LEMMA AddedIs ==
  ASSUME NEW out \in Seq(Form), NEW actor, NEW agent \in Form, Contains(out, actor)
  PROVE  AddedTo(out, agent, Added(out, actor, agent))
  <1>1. CASE ~ Named(agent) \/ agent = actor \/ Contains(out, agent)
    <2>1. Added(out, actor, agent) = out
      BY <1>1 DEF Added, Named
    <2>2. Named(agent) => Contains(out, agent)
      BY <1>1
    <2>3. Len(out) \in Nat
      OBVIOUS
    <2>4. AddedTo(out, agent, out)
      BY <2>2, <2>3 DEF AddedTo
    <2> QED
      BY <2>1, <2>4
  <1>2. CASE ~ (~ Named(agent) \/ agent = actor \/ Contains(out, agent))
    <2>1. Added(out, actor, agent) = Append(out, agent)
      BY <1>2 DEF Added, Named
    <2> QED
      BY <1>2, <2>1, AppendAdds
  <1> QED
    BY <1>1, <1>2

\* A sequence with agents behind its base is one still when agents are added.
LEMMA Longer ==
  ASSUME NEW base \in Seq(Form), NEW out \in Seq(Form), NEW new \in Seq(Form), NEW agents, NEW more,
         Len(out) >= Len(base), Len(new) >= Len(out), agents \subseteq more,
         \A k \in 1 .. Len(base) : out[k] = base[k],
         \A k \in 1 .. Len(out) : new[k] = out[k],
         \A k \in Len(base) + 1 .. Len(out) : out[k] \in agents,
         \A k \in Len(out) + 1 .. Len(new) : new[k] \in more
  PROVE  /\ Len(new) >= Len(base)
         /\ \A k \in 1 .. Len(base) : new[k] = base[k]
         /\ \A k \in Len(base) + 1 .. Len(new) : new[k] \in more
  <1>1. Len(base) \in Nat /\ Len(out) \in Nat /\ Len(new) \in Nat
    OBVIOUS
  <1>2. \A k \in 1 .. Len(base) : new[k] = base[k]
    BY <1>1
  <1>3. ASSUME NEW k \in Len(base) + 1 .. Len(new) PROVE new[k] \in more
    <2>1. k \in Len(base) + 1 .. Len(out) \/ k \in Len(out) + 1 .. Len(new)
      BY <1>1, <1>3
    <2>2. k \in 1 .. Len(out) \/ k \in Len(out) + 1 .. Len(new)
      BY <1>1, <1>3
    <2> QED
      BY <2>1, <2>2
  <1> QED
    BY <1>1, <1>2, <1>3

LEMMA Step ==
  ASSUME NEW from \in Nat, NEW to \in Nat, NEW k \in from .. to, k # from
  PROVE  k \in from + 1 .. to
  OBVIOUS

LEMMA JobFacts ==
  ASSUME JobTyped
  PROVE  /\ job.base \in Seq(Form) /\ job.out \in Seq(Form) /\ Len(job.base) \in Nat /\ Len(job.out) \in Nat
         /\ job.next \in Nat \ {0} /\ job.process \in Scope /\ job.at \in Nat
         /\ job.skipped \subseteq Form
  <1>1. job.base \in Seq(Form) /\ job.out \in Seq(Form)
    BY DEF JobTyped, Job
  <1>2. Len(job.base) \in Nat /\ Len(job.out) \in Nat
    BY <1>1
  <1> QED
    BY <1>1, <1>2 DEF JobTyped, Job

LEMMA AskedAbout ==
  ASSUME JobTyped, Kept, job.next <= Len(job.base)
  PROVE  Contains(job.out, Here)
  <1>1. job.next \in 1 .. Len(job.base) /\ Len(job.out) \in Nat /\ Len(job.base) \in Nat
    BY JobFacts
  <1>2. DOMAIN job.out = 1 .. Len(job.out)
    BY JobFacts
  <1> QED
    BY <1>1, <1>2 DEF Kept, Here, Contains

\* One participant has been asked about.
LEMMA AnsweredKeeps ==
  ASSUME JobOK, Asking, Watch, UNCHANGED <<store, rows>>,
         NEW agent \in Form,
         job' = Next1([job EXCEPT !.out = Added(@, Here, agent)]),
         Named(agent) => \E g \in Grants(rows, job) : g.agent = agent,
         \A g \in lasting \intersect Deciding(rows, job) : g.who = Here => g.agent = agent /\ Named(agent)
  PROVE  JobOK'
  <1> DEFINE new == Added(job.out, Here, agent)
  <1>1. /\ job.phase = "asking" /\ JobTyped /\ Kept /\ \A g \in lasting : Served(g)
        /\ job.next <= Len(job.base)
    BY DEF JobOK, Asking
  <1>2. /\ job'.phase = "asking" /\ job'.process = job.process /\ job'.at = job.at /\ job'.base = job.base
        /\ job'.next = job.next + 1 /\ job'.half = FALSE /\ job'.out = new /\ job'.skipped = job.skipped
    BY <1>1 DEF JobTyped, Job, Next1
  <1>3. granted' = granted \union Grants(rows, job) /\ lasting' \subseteq lasting \intersect Deciding(rows, job)
    BY <1>1, <1>2, WatchSame DEF SameQuestion
  <1>4. Contains(job.out, Here) /\ job.out \in Seq(Form) /\ job.base \in Seq(Form)
    BY ONLY <1>1, JobFacts, AskedAbout
  <1>5. AddedTo(job.out, agent, new)
    BY ONLY <1>4, AddedIs, agent \in Form
  <1>6. JobTyped'
    <2>1. job' = [phase |-> "asking", process |-> job.process, at |-> job.at, base |-> job.base,
                  next |-> job.next + 1, half |-> FALSE, out |-> new, skipped |-> job.skipped]
      BY <1>1 DEF JobTyped, Job, Next1
    <2> HIDE DEF new
    <2>2. "asking" \in Phase
      BY DEF Phase
    <2>3. new \in Seq(Form)
      BY <1>5 DEF AddedTo
    <2> QED
      BY ONLY <1>1, <2>1, <2>2, <2>3, JobFacts DEF JobTyped, Job
  <1>7. Kept'
    <2> DEFINE agents == {g.agent : g \in granted}
               more == {g.agent : g \in granted'}
    <2> HIDE DEF new
    <2>1. agents \subseteq more /\ (Named(agent) => agent \in more)
      BY <1>3
    <2>2. /\ Len(job.out) >= Len(job.base)
          /\ \A k \in 1 .. Len(job.base) : job.out[k] = job.base[k]
          /\ \A k \in Len(job.base) + 1 .. Len(job.out) : job.out[k] \in agents
      BY <1>1 DEF Kept
    <2>3. \A k \in Len(job.out) + 1 .. Len(new) : new[k] \in more
      BY <1>5, <2>1 DEF AddedTo
    <2> HIDE DEF agents, more
    <2>4. /\ Len(new) >= Len(job.base)
          /\ \A k \in 1 .. Len(job.base) : new[k] = job.base[k]
          /\ \A k \in Len(job.base) + 1 .. Len(new) : new[k] \in more
      BY ONLY <1>4, <1>5, <2>1, <2>2, <2>3, Longer DEF AddedTo
    <2> QED
      BY <1>2, <2>4 DEF Kept, more
  <1>8. ASSUME NEW g \in lasting' PROVE Served(g)'
    <2> HIDE DEF new
    <2>1. CASE g.who = Here
      BY <1>2, <1>3, <1>5, <2>1 DEF Served, AddedTo
    <2>2. CASE g.who # Here
      <3>1. Served(g)
        BY <1>1, <1>3
      <3>2. ASSUME NEW k \in job.next .. Len(job.base), job.base[k] = g.who
            PROVE  k \in job.next + 1 .. Len(job.base)
        <4>1. k # job.next
          BY <2>2, <3>2 DEF Here
        <4>2. job.next \in Nat /\ Len(job.base) \in Nat
          BY ONLY <1>1, JobFacts
        <4> QED
          BY ONLY <4>1, <4>2, Step, k \in job.next .. Len(job.base)
      <3> QED
        BY <1>2, <1>5, <3>1, <3>2 DEF Served, AddedTo
    <2> QED
      BY <2>1, <2>2
  <1> QED
    BY <1>2, <1>6, <1>7, <1>8 DEF JobOK, Between
\* No participant has been asked about, and no row has changed.
LEMMA StillAsking ==
  ASSUME JobOK, Asking, Watch, UNCHANGED <<store, rows, job.process, job.at, job.base, job.out>>,
         job'.phase = "asking"
  PROVE  Kept' /\ lasting' \subseteq lasting \intersect Deciding(rows, job)
  <1>1. granted' = granted \union Grants(rows, job) /\ lasting' \subseteq lasting \intersect Deciding(rows, job)
    BY WatchSame DEF SameQuestion, Asking
  <1>2. Kept
    BY DEF JobOK, Asking
  <1> QED
    BY <1>1, <1>2 DEF Kept

LEMMA HereIsOne ==
  ASSUME JobOK, Asking
  PROVE  Here \in People(job)
  <1>1. job.next \in DOMAIN job.base
    <2>1. job.next \in 1 .. Len(job.base) /\ DOMAIN job.base = 1 .. Len(job.base)
      BY JobFacts DEF JobOK, Asking
    <2> QED
      BY <2>1
  <1> QED
    BY <1>1 DEF Here, People

\* Both scopes are looked at at once.
LEMMA ResolvedKeeps ==
  ASSUME RowsOK, JobOK, Asking, Watch, UNCHANGED <<store, rows>>,
         job' = Next1([job EXCEPT !.out = Added(@, Here, Resolved(Here))])
  PROVE  JobOK'
  <1>1. Here \in People(job)
    BY HereIsOne
  <1>2. /\ Resolved(Here) \in Form
        /\ Named(Resolved(Here)) => \E g \in Grants(rows, job) : g.agent = Resolved(Here)
        /\ \A g \in lasting \intersect Deciding(rows, job) :
             g.who = Here => g.agent = Resolved(Here) /\ Named(Resolved(Here))
    BY <1>1, ResolvedIsRight DEF Named
  <1> QED
    BY <1>2, AnsweredKeeps

LEMMA MemoryKeeps ==
  ASSUME RowsOK, JobOK, GetSurrogateMemory, Watch, UNCHANGED <<store, rows>>
  PROVE  JobOK'
  <1>1. Asking /\ job' = Next1([job EXCEPT !.out = Added(@, Here, Resolved(Here))])
    BY DEF GetSurrogateMemory, Resolved
  <1> QED
    BY <1>1, ResolvedKeeps

LEMMA ExactKeeps ==
  ASSUME RowsOK, JobOK, GetSurrogateExact, Watch, UNCHANGED <<store, rows>>
  PROVE  JobOK'
  <1> DEFINE exact == AgentIn(Here, job.process)
  <1>1. CASE exact # "" \/ job.process = ""
    <2>1. Resolved(Here) = exact
      BY <1>1 DEF Resolved, Fallback
    <2>2. Asking /\ job' = Next1([job EXCEPT !.out = Added(@, Here, Resolved(Here))])
      BY <1>1, <2>1 DEF GetSurrogateExact
    <2> QED
      BY <2>2, ResolvedKeeps
  <1>2. CASE ~ (exact # "" \/ job.process = "")
    <2>1. Asking /\ store = "jdbc" /\ job' = [job EXCEPT !.half = TRUE]
      BY <1>2 DEF GetSurrogateExact
    <2>2. JobTyped /\ job.phase = "asking" /\ job.next <= Len(job.base) /\ \A g \in lasting : Served(g)
      BY <2>1 DEF JobOK, Asking
    <2>3. /\ job'.phase = job.phase /\ job'.process = job.process /\ job'.at = job.at /\ job'.base = job.base
          /\ job'.next = job.next /\ job'.half = TRUE /\ job'.out = job.out /\ job'.skipped = job.skipped
          /\ JobTyped'
      BY <2>1, <2>2 DEF JobTyped, Job
    <2>4. Kept' /\ lasting' \subseteq lasting \intersect Deciding(rows, job)
      BY <2>1, <2>2, <2>3, StillAsking
    <2>5. \A g \in lasting' : g.who = Here => g.scope = ""
      BY <1>2, <2>1, <2>4, HereIsOne, ResolvedIsRight
    <2>6. \A g \in lasting' : Served(g)'
      BY <2>2, <2>3, <2>4 DEF Served
    <2>7. Between'
      BY <1>2, <2>2, <2>3, <2>5 DEF Between, Here
    <2> QED
      BY <2>2, <2>3, <2>4, <2>6, <2>7 DEF JobOK
  <1> QED
    BY <1>1, <1>2

\* What decided all the time is of all processes, and the second query finds it.
LEMMA AllKeeps ==
  ASSUME RowsOK, JobOK, GetSurrogateAll, Watch, UNCHANGED <<store, rows>>
  PROVE  JobOK'
  <1> DEFINE agent == AgentIn(Here, "")
  <1>1. Asking /\ store = "jdbc" /\ job.half
    BY DEF GetSurrogateAll
  <1>2. job.process # "" /\ \A g \in lasting : g.who = Here => g.scope = ""
    BY <1>1 DEF JobOK, Between
  <1>3. job' = Next1([job EXCEPT !.out = Added(@, Here, agent)])
    BY <1>2 DEF GetSurrogateAll, Fallback
  <1>4. Here \in People(job)
    BY <1>1, HereIsOne
  <1>5. agent \in Form /\ (Named(agent) => \E g \in Grants(rows, job) : g.agent = agent)
    <2>1. CASE agent = ""
      BY <2>1, FormAssumption DEF Named
    <2>2. CASE agent # ""
      <3>1. PICK i \in DOMAIN rows : NewestInForce(rows, i, Here, "", job.at) /\ rows[i].surrogate = agent
        BY <2>2, AgentFound
      <3> QED
        BY <1>1, <1>4, <3>1, GrantedIn DEF RowsOK
    <2> QED
      BY <2>1, <2>2
  <1>6. ASSUME NEW g \in lasting \intersect Deciding(rows, job), g.who = Here
        PROVE  g.agent = agent /\ Named(agent)
    <2>1. /\ g.id \in DOMAIN rows /\ rows[g.id].processName = "" /\ g.agent = rows[g.id].surrogate
          /\ Decides(rows, g.id, Here, job.process, job.at)
      BY <1>2, <1>6, DecidesIn
    <2>2. NewestInForce(rows, g.id, Here, "", job.at)
      BY <1>2, <2>1 DEF Decides, NewestInForce
    <2> QED
      BY <2>1, <2>2, AgentOfNewest DEF Named
  <1> HIDE DEF agent
  <1> QED
    BY <1>1, <1>3, <1>5, <1>6, AnsweredKeeps

LEMMA FailsKeeps ==
  ASSUME RowsOK, JobOK, GetSurrogateFails, Watch, UNCHANGED <<store, rows>>
  PROVE  JobOK'
  <1>1. Asking /\ job' = Next1([job EXCEPT !.skipped = @ \union {Here}])
    BY DEF GetSurrogateFails
  <1>2. JobTyped /\ job.phase = "asking" /\ job.next <= Len(job.base) /\ \A g \in lasting : Served(g)
    BY <1>1 DEF JobOK, Asking
  <1>3. Here \in Form
    <2>1. job.base \in Seq(Form) /\ job.next \in 1 .. Len(job.base)
      BY <1>2, JobFacts
    <2> QED
      BY <2>1 DEF Here
  <1>4. /\ job'.phase = job.phase /\ job'.process = job.process /\ job'.at = job.at /\ job'.base = job.base
        /\ job'.next = job.next + 1 /\ job'.half = FALSE /\ job'.out = job.out
        /\ job'.skipped = job.skipped \union {Here} /\ JobTyped'
    <2>1. job' = [phase |-> job.phase, process |-> job.process, at |-> job.at, base |-> job.base,
                  next |-> job.next + 1, half |-> FALSE, out |-> job.out, skipped |-> job.skipped \union {Here}]
      BY <1>1, <1>2 DEF JobTyped, Job, Next1
    <2>2. job.phase \in Phase
      BY <1>2 DEF Phase
    <2>3. JobTyped'
      BY ONLY <1>2, <1>3, <2>1, <2>2, JobFacts DEF JobTyped, Job
    <2> QED
      BY <2>1, <2>3
  <1>5. Kept' /\ lasting' \subseteq lasting \intersect Deciding(rows, job)
    BY <1>1, <1>2, <1>4, StillAsking
  <1>6. ASSUME NEW g \in lasting' PROVE Served(g)'
    <2>1. CASE g.who = Here
      BY <1>4, <2>1 DEF Served
    <2>2. CASE g.who # Here
      <3>1. Served(g)
        BY <1>2, <1>5
      <3>2. ASSUME NEW k \in job.next .. Len(job.base), job.base[k] = g.who
            PROVE  k \in job.next + 1 .. Len(job.base)
        <4>1. k # job.next
          BY <2>2, <3>2 DEF Here
        <4>2. job.next \in Nat /\ Len(job.base) \in Nat
          BY ONLY <1>2, JobFacts
        <4> QED
          BY ONLY <4>1, <4>2, Step, k \in job.next .. Len(job.base)
      <3> QED
        BY <1>4, <3>1, <3>2 DEF Served
    <2> QED
      BY <2>1, <2>2
  <1> QED
    BY <1>2, <1>4, <1>5, <1>6 DEF JobOK, Between
LEMMA SaveTaskKeeps ==
  ASSUME JobOK, SaveTask, Watch
  PROVE  JobOK'
  <1>1. JobTyped /\ Kept /\ (\A g \in lasting : Served(g)) /\ job.next > Len(job.base) /\ Between
    BY DEF JobOK, SaveTask
  <1>2. /\ job'.phase = "saved" /\ job'.process = job.process /\ job'.at = job.at /\ job'.base = job.base
        /\ job'.next = job.next /\ job'.half = job.half /\ job'.out = job.out /\ job'.skipped = job.skipped
        /\ JobTyped'
    BY <1>1 DEF JobTyped, Job, SaveTask, Phase
  <1>3. UNCHANGED <<granted, lasting>>
    BY <1>2 DEF Watch
  <1>4. ~ job.half
    <2> SUFFICES ASSUME job.half PROVE FALSE
      OBVIOUS
    <2>1. job.next <= Len(job.base)
      BY <1>1 DEF Between
    <2>2. job.next \in Nat /\ Len(job.base) \in Nat
      BY <1>1, JobFacts
    <2> QED
      BY ONLY <1>1, <2>1, <2>2
  <1>5. Kept' /\ \A g \in lasting' : Served(g)'
    BY <1>1, <1>2, <1>3 DEF Kept, Served
  <1> QED
    BY <1>1, <1>2, <1>4, <1>5 DEF JobOK, Between

LEMMA EngineKeeps ==
  ASSUME RowsOK, JobOK, Engine, Watch
  PROVE  JobOK'
  <1>1. UNCHANGED <<store, rows>>
    BY DEF Engine
  <1> QED
    BY <1>1, MemoryKeeps, ExactKeeps, AllKeeps, FailsKeeps, SaveTaskKeeps DEF Engine

LEMMA FirstJob ==
  ASSUME NEW p \in Phase, NEW s \in Scope, NEW a \in Nat, NEW b \in Seq(Form), NEW k \in SUBSET Form
  PROVE  [phase |-> p, process |-> s, at |-> a, base |-> b, next |-> 1, half |-> FALSE, out |-> b, skipped |-> k] \in Job
  BY DEF Job

LEMMA BeginKeeps ==
  ASSUME RowsOK, JobOK, NEW base \in Base, NEW process \in Scope,
         Begin(base, process), Watch
  PROVE  JobOK'
  <1>1. /\ job' = [phase |-> "asking", process |-> process, at |-> now, base |-> base, next |-> 1,
                   half |-> FALSE, out |-> base, skipped |-> {}]
        /\ job.phase # "asking" /\ UNCHANGED <<store, rows>>
    BY DEF Begin, NoJob
  <1>2. base \in Seq(Form)
    <2>1. base \in Seq(Form \ {""}) /\ Form \ {""} \subseteq Form
      BY BaseAssumption
    <2> QED
      BY <2>1, SeqMonotonic
  <1>3. "asking" \in Phase /\ now \in Nat
    BY DEF Phase, RowsOK
  <1>4. JobTyped'
    <2>1. job' = [phase |-> job'.phase, process |-> process, at |-> now, base |-> base, next |-> 1,
                  half |-> FALSE, out |-> base, skipped |-> job'.skipped]
      BY ONLY <1>1
    <2>2. job'.phase \in Phase /\ job'.skipped \in SUBSET Form
      BY ONLY <1>1, <1>3
    <2> QED
      BY ONLY <1>2, <1>3, <2>1, <2>2, process \in Scope, FirstJob DEF JobTyped
  <1>5. lasting' = Deciding(rows', job')
    BY <1>1 DEF Watch
  <1>6. \A g \in lasting' : \E k \in 1 .. Len(base) : base[k] = g.who
    <2>1. \A g \in lasting' : g.who \in People(job')
      <3>1. ASSUME NEW g \in Deciding(rows', job') PROVE g.who \in People(job')
        <4>1. PICK p \in People(job') \X DOMAIN rows' : g.who = p[1]
          BY <3>1 DEF Deciding
        <4> QED
          BY <4>1
      <3> QED
        BY <1>5, <3>1
    <2>2. People(job') = {base[k] : k \in DOMAIN base}
      BY <1>1 DEF People
    <2>3. DOMAIN base = 1 .. Len(base)
      BY ONLY <1>2
    <2> QED
      BY ONLY <2>1, <2>2, <2>3
  <1>7. Kept'
    <2>1. Len(base) \in Nat
      BY ONLY <1>2
    <2> QED
      BY <1>1, <2>1 DEF Kept
  <1> QED
    BY <1>1, <1>4, <1>6, <1>7 DEF JobOK, Served, Between

\* While others edit, what was granted stays granted, and less lasts.
LEMMA OthersKeep ==
  ASSUME JobOK, UNCHANGED job, Watch
  PROVE  JobOK'
  <1>1. granted \subseteq granted' /\ lasting' \subseteq lasting
    BY DEF Watch
  <1> QED
    BY <1>1 DEF JobOK, JobTyped, Job, Kept, Served, Between, Here

LEMMA InitHolds == Init => RowsOK /\ JobOK
  <1> SUFFICES ASSUME Init PROVE RowsOK /\ JobOK
    OBVIOUS
  <1>1. RowsOK
    BY StoresAssumption DEF Init, RowsOK
  <1>2. job = [phase |-> "none", process |-> "", at |-> 0, base |-> <<>>, next |-> 1, half |-> FALSE,
               out |-> <<>>, skipped |-> {}]
    BY DEF Init, NoJob
  <1>3. job.phase \in Phase /\ job.process \in Scope
    BY <1>2 DEF Phase, Scope
  <1>4. JobTyped
    <2>1. job = [phase |-> job.phase, process |-> job.process, at |-> 0, base |-> <<>>, next |-> 1,
                 half |-> FALSE, out |-> <<>>, skipped |-> {}]
      BY <1>2
    <2>2. <<>> \in Seq(Form) /\ {} \in SUBSET Form
      OBVIOUS
    <2> QED
      BY ONLY <1>3, <2>1, <2>2, FirstJob, 0 \in Nat DEF JobTyped
  <1> QED
    BY <1>1, <1>2, <1>4 DEF JobOK, Between

\* The rows stay sound, and of the task under way all that has been said.
THEOREM Inductive == Spec => [](RowsOK /\ JobOK)
  <1>1. RowsOK /\ JobOK /\ [Next]_vars => RowsOK' /\ JobOK'
    <2> SUFFICES ASSUME RowsOK, JobOK, [Next]_vars PROVE RowsOK' /\ JobOK'
      OBVIOUS
    <2>1. CASE UNCHANGED vars
      BY <2>1 DEF vars, RowsOK, JobOK, JobTyped, Job, Kept, Served, Between, Here
    <2>2. CASE Next
      <3>1. Watch
        BY <2>2 DEF Next
      <3>2. CASE UNCHANGED job
        BY <2>2, <3>1, <3>2, RowsKeep, OthersKeep
      <3>3. CASE Engine
        BY <2>2, <3>1, <3>3, RowsKeep, EngineKeeps
      <3>4. ASSUME NEW base \in Base, NEW process \in Process \union {""}, Begin(base, process)
            PROVE  RowsOK' /\ JobOK'
        BY <2>2, <3>1, <3>4, RowsKeep, BeginKeeps DEF Scope
      <3> QED
        BY <2>2, <3>2, <3>3, <3>4
        DEF Next, SaveSurrogate, FindSurrogate, UpdateSurrogate, RemoveSurrogate, Tick
    <2> QED
      BY <2>1, <2>2
  <1> QED
    BY <1>1, InitHolds, PTL DEF Spec

\* Whoever edits what while the engine asks, nobody gets a task who was not made
\* an agent for it (applySurrogateToTask, GetSurrogate of both repositories).
THEOREM Delegates == Spec => []OnlyDelegates
  <1>1. JobOK => OnlyDelegates
    <2> SUFFICES ASSUME JobOK, Saved PROVE OnlyDelegates
      BY DEF OnlyDelegates
    <2>1. JobTyped /\ Kept
      BY DEF JobOK, Saved
    <2>2. DOMAIN job.base = 1 .. Len(job.base)
      BY <2>1, JobFacts
    <2> QED
      BY <2>1, <2>2 DEF OnlyDelegates, Kept, Joined
  <1> QED
    BY <1>1, Inductive, PTL

\* A delegation that decides from the first lookup to the last one works.
THEOREM Working == Spec => []DelegatesJoin
  <1>1. JobOK => DelegatesJoin
    <2> SUFFICES ASSUME JobOK, Saved, NEW g \in lasting
                 PROVE  g.who \in job.skipped \/ Contains(job.out, g.agent)
      BY DEF DelegatesJoin
    <2>1. JobTyped /\ Served(g) /\ job.next > Len(job.base)
      BY DEF JobOK, Saved
    <2>2. job.next \in Nat /\ Len(job.base) \in Nat
      BY <2>1, JobFacts
    <2>3. job.next .. Len(job.base) = {}
      BY ONLY <2>1, <2>2
    <2> QED
      BY <2>1, <2>3 DEF Served
  <1> QED
    BY <1>1, Inductive, PTL

\* An update that has read a delegation before it was removed does not bring it
\* back (UpdateSurrogate of the JDBC repository).
THEOREM Removed == Spec => []RemovedStays
  <1>1. RowsOK => RemovedStays
    BY DEF RowsOK, RemovedStays
  <1> QED
    BY <1>1, Inductive, PTL
=================================================================================
