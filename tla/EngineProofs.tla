----------------------------- MODULE EngineProofs -----------------------------
(***************************************************************************)
(* What Engine guarantees for every definition, every set of users and     *)
(* every bound.                                                            *)
(***************************************************************************)
EXTENDS Engine, SequenceTheorems, FiniteSetTheorems, WellFoundedInduction, TLAPS

-----------------------------------------------------------------------------
(* Types of the values the actions are built from. *)

LEMMA StartTyped == startNode(Flow) \in Node /\ Flow.succ[startNode(Flow)] \in Seq(Node)
  BY FlowAssumption

LEMMA PropTyped ==
  ASSUME NEW n \in Node
  PROVE  /\ Props[n].assignee \in Roster
         /\ Flow.succ[n] \in Seq(Node)
  BY FlowAssumption, PropsAssumption DEF PropType

LEMMA NoneTyped ==
  /\ NoScope \in Scope /\ NoScopes \in [Join -> Scope]
  /\ NoBack \in Back /\ NoCs \in CsVars /\ NoRound \in RoundVars
  BY DEF NoScope, Scope, NoScopes, NoBack, Back, NoCs, CsVars, NoRound, RoundVars, NoMembers, Roster

LEMMA NewRowTyped ==
  ASSUME NEW n \in Node, NEW parent \in Nat, NEW who \in SUBSET User
  PROVE  NewRow(n, parent, who) \in Row
  BY NoneTyped DEF NewRow, Row, RowState, Submit

LEMMA ChildrenTyped ==
  ASSUME NEW n \in Node, NEW parent \in Nat
  PROVE  Children(n, parent) \in Seq(WorkItem)
  <1>1. Flow.succ[n] \in Seq(Node)
    BY PropTyped
  <1>2. \A k \in 1 .. Len(Flow.succ[n]) : Flow.succ[n][k] \in Node
    BY <1>1
  <1> QED
    BY <1>1, <1>2 DEF Children, WorkItem

LEMMA RosterTyped ==
  ASSUME NEW roster \in Roster
  PROVE  FlowRange(roster) \in SUBSET User
  BY DEF Roster, FlowRange

-----------------------------------------------------------------------------
(* The inductive invariant.  TypeOK alone is not inductive: the scopes a new *)
(* row inherits are those of the row its parent field names, so this must be *)
(* a row; and a rollback, a recall and a rolled back transaction bring back  *)
(* lineage and scopes from older rows, so these must have been sound.        *)
(*                                                                           *)
(* H are the nodes at which an open row may have rows of the same node below *)
(* it: none, {}, in the engine alone; those of a dynamic countersign, whose  *)
(* host asks members and stays open, in Collect.                             *)

\* A row completed by a user, which a rollback can give back.
Handled(r) == r.st = "DONE" /\ r.by \in User /\ r.owner \in User

\* The parent of row r of the table d is completed, or r is a member it asks.
Below(H, d, r) ==
  r.parent # 0 => \/ Handled(d[r.parent])
                  \/ r.node \in H /\ d[r.parent].node = r.node

\* The references of row i of the table d lead to older rows.
RefsOK(H, d, i) ==
  /\ d[i].parent \in 0 .. i-1
  /\ Below(H, d, d[i])
  /\ d[i].back.src \in 0 .. i-1

\* Scope s, held by row i for join j, is rooted in a row of its branch.
ScopeOK(d, i, j, s) ==
  s.root # 0 => /\ s.round < s.root
                /\ s.root <= i
                /\ d[s.root].scopes[j] = s

ScopesOK(d, i) ==
  \A j \in Join : /\ ScopeOK(d, i, j, d[i].scopes[j])
                  /\ ScopeOK(d, i, j, d[i].back.branch[j])

Sound(H, d, n) == \A i \in 1 .. n : RefsOK(H, d, i) /\ ScopesOK(d, i)

\* The row a pending node was reached from is completed.
SourceOK(d, n, parent) == parent \in 0 .. n /\ (parent # 0 => Handled(d[parent]))
PendingOK(d, n, w) == \A k \in 1 .. Len(w) : SourceOK(d, n, w[k].parent)

\* A command that has nodes to execute has an operator.
OperatedBy(w, c) == w # << >> => c.user \in User

IInv(H) ==
  /\ TypeOK
  /\ Sound(H, task, last)
  /\ Sound(H, saved.task, saved.last)
  /\ PendingOK(task, last, work)
  /\ OperatedBy(work, cmd)

-----------------------------------------------------------------------------
(* How a command changes the table.  It settles open rows, keeping what the  *)
(* lineage and the scopes are read from, and appends fresh rows.             *)

\* e is the table after open rows were settled.
Settles(e) ==
  /\ e \in [Id -> Row]
  /\ \A i \in Id : /\ task[i].st # "DOING" => e[i] = task[i]
                  /\ e[i].node = task[i].node
                  /\ e[i].actors = task[i].actors
                  /\ e[i].parent = task[i].parent
                  /\ e[i].scopes = task[i].scopes
                  /\ e[i].back = task[i].back

\* A row r that may be appended as number i to the settled table e: its scopes
\* are those of rows there are, or start with itself.
Known(e, j, s) ==
  s.root # 0 => /\ s.root \in Id
                /\ s.round < s.root
                /\ e[s.root].scopes[j] = s
Fresh(H, e, r, i) ==
  /\ r \in Row
  /\ r.parent \in 0 .. last
  /\ Below(H, e, r)
  /\ r.back.src \in 0 .. last
  /\ \A j \in Join : /\ \/ Known(e, j, r.scopes[j])
                        \/ r.scopes[j].root = i /\ r.scopes[j].round < i
                     /\ Known(e, j, r.back.branch[j])

\* The table and its length after a command's step.
Evolves(H, e, m) ==
  /\ m \in Nat /\ last <= m
  /\ e \in [1 .. m -> Row]
  /\ \A i \in Id : /\ task[i].st # "DOING" => e[i] = task[i]
                  /\ e[i].node = task[i].node
                  /\ e[i].actors = task[i].actors
                  /\ e[i].parent = task[i].parent
                  /\ e[i].scopes = task[i].scopes
                  /\ e[i].back = task[i].back
  /\ \A i \in last+1 .. m : RefsOK(H, e, i) /\ ScopesOK(e, i)

LEMMA SettledEvolves ==
  ASSUME NEW H, NEW e, last \in Nat, Settles(e)
  PROVE  Evolves(H, e, last)
  BY DEF Settles, Evolves, Id

LEMMA EvolvesSound ==
  ASSUME NEW H, TypeOK, Sound(H, task, last), NEW e, NEW m, Evolves(H, e, m)
  PROVE  Sound(H, e, m)
  <1> SUFFICES ASSUME NEW i \in 1 .. m PROVE RefsOK(H, e, i) /\ ScopesOK(e, i)
    BY DEF Sound
  <1>0. m \in Nat /\ last \in Nat /\ last <= m
    BY DEF Evolves, TypeOK
  <1>1. CASE i \in Id
    <2>1. RefsOK(H, task, i) /\ ScopesOK(task, i)
      BY <1>1 DEF Sound, Id
    <2>2. RefsOK(H, e, i)
      <3>1. /\ e[i].node = task[i].node /\ e[i].parent = task[i].parent
            /\ e[i].back = task[i].back
        BY <1>1 DEF Evolves
      <3>2. Below(H, e, e[i])
        <4> SUFFICES ASSUME task[i].parent # 0
                     PROVE  \/ Handled(e[task[i].parent])
                            \/ task[i].node \in H /\ e[task[i].parent].node = task[i].node
          BY <3>1 DEF Below
        <4>1. task[i].parent \in Id
          BY <2>1, <1>1, <1>0 DEF RefsOK, Id
        <4>2. \/ Handled(task[task[i].parent])
              \/ task[i].node \in H /\ task[task[i].parent].node = task[i].node
          BY <2>1 DEF RefsOK, Below
        <4> QED
          BY <4>1, <4>2 DEF Evolves, Handled
      <3> QED
        BY <3>1, <3>2, <2>1 DEF RefsOK
    <2>3. ASSUME NEW j \in Join, NEW s \in Scope, ScopeOK(task, i, j, s) PROVE ScopeOK(e, i, j, s)
      <3>1. CASE s.root = 0
        BY <3>1 DEF ScopeOK
      <3>2. CASE s.root # 0
        <4>1. s.root \in Id /\ s.round < s.root /\ s.root <= i /\ task[s.root].scopes[j] = s
          BY <2>3, <3>2, <1>1, <1>0 DEF ScopeOK, Id, Scope
        <4>2. e[s.root].scopes = task[s.root].scopes
          BY <4>1 DEF Evolves
        <4> QED
          BY <4>1, <4>2 DEF ScopeOK
      <3> QED
        BY <3>1, <3>2
    <2>4. e[i].scopes = task[i].scopes /\ e[i].back = task[i].back
      BY <1>1 DEF Evolves
    <2>5. \A j \in Join : task[i].scopes[j] \in Scope /\ task[i].back.branch[j] \in Scope
      BY <1>1 DEF TypeOK, Row, Back
    <2>6. ScopesOK(e, i)
      BY <2>1, <2>3, <2>4, <2>5 DEF ScopesOK
    <2> QED
      BY <2>2, <2>6
  <1>2. CASE i \notin Id
    <2>1. i \in last+1 .. m
      BY <1>2, <1>0 DEF Id
    <2> QED
      BY <2>1 DEF Evolves
  <1> QED
    BY <1>1, <1>2

LEMMA EvolvesPending ==
  ASSUME NEW H, TypeOK, NEW e, NEW m, Evolves(H, e, m), NEW p, SourceOK(task, last, p)
  PROVE  SourceOK(e, m, p)
  BY SMTT(30) DEF TypeOK, Evolves, SourceOK, Handled, Id

\* Appending fresh rows to a settled table.
LEMMA AppendEvolves ==
  ASSUME NEW H, TypeOK, NEW e, Settles(e), NEW len \in Nat, NEW new,
         DOMAIN new = 1 .. len, Len(new) = len,
         \A k \in 1 .. len : Fresh(H, e, new[k], last + k)
  PROVE  Evolves(H, Appended(e, new), last + len)
  <1> DEFINE d == Appended(e, new)
  <1>0. last \in Nat
    BY DEF TypeOK
  <1>1. d = [i \in 1 .. last + len |-> IF i <= last THEN e[i] ELSE new[i - last]]
    BY DEF Appended
  <1>2. \A i \in Id : d[i] = e[i]
    BY <1>0, <1>1 DEF Id
  <1>3. \A i \in last+1 .. last+len : i - last \in 1 .. len /\ d[i] = new[i - last]
    BY <1>0, <1>1
  <1>4. \A i \in last+1 .. last+len : Fresh(H, e, d[i], i)
    BY <1>0, <1>3
  <1>5. d \in [1 .. last + len -> Row]
    <2>1. \A i \in 1 .. last + len : d[i] \in Row
      BY <1>0, <1>2, <1>4 DEF Settles, Id, Fresh
    <2> QED
      BY <1>1, <2>1
  <1>6. ASSUME NEW i \in last+1 .. last+len PROVE RefsOK(H, d, i)
    <2>1. d[i].parent \in 0 .. last /\ Below(H, e, d[i]) /\ d[i].back.src \in 0 .. last
      BY <1>4 DEF Fresh
    <2>2. d[i].parent # 0 => d[d[i].parent] = e[d[i].parent]
      BY <2>1, <1>2, <1>0 DEF Id
    <2>3. Below(H, d, d[i])
      BY <2>1, <2>2 DEF Below
    <2> QED
      BY <2>1, <2>3, <1>0 DEF RefsOK
  <1>7. ASSUME NEW i \in last+1 .. last+len PROVE ScopesOK(d, i)
    <2>1. ASSUME NEW j \in Join, NEW s, Known(e, j, s) PROVE ScopeOK(d, i, j, s)
      BY <2>1, <1>0, <1>2 DEF Known, ScopeOK, Id
    <2>2. ASSUME NEW j \in Join, d[i].scopes[j].root = i, d[i].scopes[j].round < i
          PROVE  ScopeOK(d, i, j, d[i].scopes[j])
      BY <2>2, <1>0 DEF ScopeOK
    <2> QED
      BY <1>4, <2>1, <2>2 DEF Fresh, ScopesOK
  <1>8. \A i \in Id : /\ task[i].st # "DOING" => d[i] = task[i]
                    /\ d[i].node = task[i].node
                    /\ d[i].actors = task[i].actors
                    /\ d[i].parent = task[i].parent
                    /\ d[i].scopes = task[i].scopes
                    /\ d[i].back = task[i].back
    BY <1>2 DEF Settles
  <1>9. Evolves(H, d, last + len)
    <2> HIDE DEF d
    <2> QED
      BY <1>0, <1>5, <1>6, <1>7, <1>8 DEF Evolves
  <1> QED
    BY <1>9

LEMMA AppendOneEvolves ==
  ASSUME NEW H, TypeOK, NEW e, Settles(e), NEW r, Fresh(H, e, r, last + 1)
  PROVE  Evolves(H, Appended(e, << r >>), last + 1)
  <1>1. DOMAIN << r >> = 1 .. 1 /\ Len(<< r >>) = 1 /\ << r >>[1] = r
    OBVIOUS
  <1>2. \A k \in 1 .. 1 : Fresh(H, e, << r >>[k], last + k)
    BY <1>1
  <1> QED
    BY <1>1, <1>2, AppendEvolves

-----------------------------------------------------------------------------
(* Settling rows. *)

LEMMA Unsettled ==
  ASSUME TypeOK
  PROVE  Settles(task)
  BY DEF TypeOK, Settles

LEMMA MergedTyped ==
  ASSUME TypeOK, NEW t \in Id
  PROVE  MergedCs(t) \in CsVars /\ MergedRound(t) \in RoundVars
  <1>1. task[t].cs \in CsVars /\ task[t].round \in RoundVars
    BY DEF TypeOK, Row
  <1>2. ivars.cs \in CsVars /\ ivars.round \in RoundVars
    BY DEF TypeOK, InstanceVars
  <1> QED
    BY <1>1, <1>2 DEF MergedCs, MergedRound, CsVars, RoundVars

LEMMA CompletedSettles ==
  ASSUME TypeOK, NEW t \in Id, NEW u \in User, NEW submit \in Submit,
         task[t].st = "DOING"
  PROVE  /\ Settles(Completed(t, u, submit))
         /\ Handled(Completed(t, u, submit)[t])
         /\ \A i \in Id \ {t} : Completed(t, u, submit)[i] = task[i]
  <1>1. task[t] \in Row /\ task \in [Id -> Row]
    BY DEF TypeOK
  <1>2. MergedCs(t) \in CsVars /\ MergedRound(t) \in RoundVars
    BY MergedTyped
  <1>3. ActingUser(t, u) \in User
    BY <1>1, UserAssumption DEF Row, ActingUser
  <1> DEFINE r == [task[t] EXCEPT !.st = "DONE", !.by = u, !.submit = submit,
                                  !.owner = ActingUser(t, u),
                                  !.cs = MergedCs(t), !.round = MergedRound(t)]
  <1>4. /\ r \in Row /\ Handled(r) /\ r.parent = task[t].parent
        /\ r.node = task[t].node /\ r.actors = task[t].actors
        /\ r.scopes = task[t].scopes /\ r.back = task[t].back
    BY <1>1, <1>2, <1>3 DEF Row, RowState, Handled
  <1>5. Completed(t, u, submit) = [task EXCEPT ![t] = r]
    BY DEF Completed
  <1> HIDE DEF r
  <1>6. Completed(t, u, submit) \in [Id -> Row]
    BY <1>1, <1>4, <1>5
  <1>7. /\ Handled(Completed(t, u, submit)[t])
        /\ Completed(t, u, submit)[t].node = task[t].node
        /\ Completed(t, u, submit)[t].actors = task[t].actors
        /\ Completed(t, u, submit)[t].parent = task[t].parent
        /\ Completed(t, u, submit)[t].scopes = task[t].scopes
        /\ Completed(t, u, submit)[t].back = task[t].back
    BY <1>1, <1>4, <1>5
  <1>8. \A i \in Id \ {t} : Completed(t, u, submit)[i] = task[i]
    BY <1>1, <1>5
  <1> QED
    BY <1>6, <1>7, <1>8 DEF Settles

\* Open rows that a command drops from a settled table.
LEMMA DroppedSettles ==
  ASSUME TypeOK, NEW d, Settles(d), NEW D \in SUBSET Id, NEW st \in {"ABANDONED", "WITHDRAW"},
         \A i \in D : d[i].st = "DOING"
  PROVE  LET e == [i \in Id |-> IF i \in D THEN [d[i] EXCEPT !.st = st] ELSE d[i]]
         IN  /\ Settles(e)
             /\ \A i \in Id : d[i].st # "DOING" => e[i] = d[i]
  <1> DEFINE e == [i \in Id |-> IF i \in D THEN [d[i] EXCEPT !.st = st] ELSE d[i]]
  <1>1. ASSUME NEW i \in D
        PROVE  /\ [d[i] EXCEPT !.st = st] \in Row
               /\ [d[i] EXCEPT !.st = st].node = d[i].node
               /\ [d[i] EXCEPT !.st = st].actors = d[i].actors
               /\ [d[i] EXCEPT !.st = st].parent = d[i].parent
               /\ [d[i] EXCEPT !.st = st].scopes = d[i].scopes
               /\ [d[i] EXCEPT !.st = st].back = d[i].back
               /\ task[i].st = "DOING"
    <2>1. d[i] \in Row
      BY DEF Settles
    <2>2. task[i].st = "DOING"
      BY <1>1 DEF Settles
    <2> QED
      BY <2>1, <2>2 DEF Row, RowState
  <1>2. e \in [Id -> Row]
    BY <1>1 DEF Settles
  <1>3. \A i \in Id : IF i \in D THEN e[i] = [d[i] EXCEPT !.st = st] ELSE e[i] = d[i]
    OBVIOUS
  <1>4. Settles(e)
    <2> HIDE DEF e
    <2>1. ASSUME NEW i \in D
          PROVE  /\ task[i].st = "DOING"
                 /\ e[i].node = d[i].node /\ e[i].actors = d[i].actors
                 /\ e[i].parent = d[i].parent
                 /\ e[i].scopes = d[i].scopes /\ e[i].back = d[i].back
      BY <1>1, <1>3
    <2>2. \A i \in Id : i \notin D => e[i] = d[i]
      BY <1>3
    <2> QED
      BY <1>2, <2>1, <2>2 DEF Settles
  <1> QED
    BY <1>3, <1>4

-----------------------------------------------------------------------------
(* What is left to show of one action. *)

SavedTyped(x) ==
  x \in [state : InstanceState, last : Nat, task : [1 .. x.last -> Row],
         ivars : InstanceVars, ends : Nat]

LEMMA RunKeeps ==
  ASSUME NEW H, IInv(H), NEW w \in Seq(WorkItem), NEW c \in Command, OperatedBy(w, c), Run(w, c)
  PROVE  /\ work' \in Seq(WorkItem) /\ work' = w
         /\ cmd' \in Command /\ OperatedBy(work', cmd')
         /\ SavedTyped(saved') /\ Sound(H, saved'.task, saved'.last)
  <1>1. NoCmd \in Command
    BY DEF NoCmd, Command, Roster
  <1>2. SavedTyped(NoSnapshot) /\ Sound(H, NoSnapshot.task, NoSnapshot.last)
    <2>1. << >> \in [1 .. 0 -> Row]
      OBVIOUS
    <2> QED
      BY <2>1, NoneTyped DEF SavedTyped, NoSnapshot, InstanceState, InstanceVars, Submit, Sound
  <1>3. SavedTyped(saved) /\ Sound(H, saved.task, saved.last)
    BY DEF IInv, TypeOK, SavedTyped
  <1>4. SavedTyped(Snapshot) /\ Sound(H, Snapshot.task, Snapshot.last)
    <2>1. Snapshot.task = task /\ Snapshot.last = last
      BY DEF Snapshot
    <2>2. SavedTyped(Snapshot)
      BY DEF IInv, TypeOK, SavedTyped, Snapshot, Id
    <2> QED
      BY <2>1, <2>2 DEF IInv
  <1>5. CASE w = << >>
    BY <1>1, <1>2, <1>5 DEF Run, OperatedBy
  <1>6. CASE w # << >>
    <2>1. saved' = Snapshot \/ saved' = saved
      BY <1>6 DEF Run
    <2> QED
      BY <1>3, <1>4, <1>6, <2>1 DEF Run, OperatedBy
  <1> QED
    BY <1>5, <1>6

LEMMA SavedKept ==
  ASSUME NEW H, IInv(H), UNCHANGED saved
  PROVE  SavedTyped(saved') /\ Sound(H, saved'.task, saved'.last)
  BY DEF IInv, TypeOK, SavedTyped

\* An action whose new table evolves from the old one preserves the invariant
\* if the other variables keep their types and the new pending nodes come from
\* completed rows.
LEMMA EvolvesKeeps ==
  ASSUME NEW H, IInv(H), Evolves(H, task', last'), PendingOK(task', last', work'),
         state' \in InstanceState, ivars' \in InstanceVars, ends' \in Nat,
         work' \in Seq(WorkItem), cmd' \in Command, OperatedBy(work', cmd'),
         SavedTyped(saved'), Sound(H, saved'.task, saved'.last)
  PROVE  IInv(H)'
  <1>1. TypeOK /\ Sound(H, task, last)
    BY DEF IInv
  <1>2. Sound(H, task', last')
    BY <1>1, EvolvesSound
  <1>3. last' \in Nat /\ task' \in [1 .. last' -> Row]
    BY DEF Evolves
  <1>4. TypeOK'
    BY <1>3 DEF TypeOK, Id, SavedTyped
  <1>5. IInv(H)' <=> TypeOK' /\ Sound(H, task', last') /\ Sound(H, saved'.task, saved'.last)
                  /\ PendingOK(task', last', work') /\ OperatedBy(work', cmd')
    BY DEF IInv, Sound, RefsOK, Below, ScopesOK, ScopeOK, PendingOK, SourceOK, OperatedBy
  <1> QED
    BY <1>2, <1>4, <1>5

-----------------------------------------------------------------------------
(* The nodes still to be executed. *)

LEMMA PendingConcat ==
  ASSUME NEW d, NEW n, NEW a \in Seq(WorkItem), NEW b \in Seq(WorkItem),
         PendingOK(d, n, a), PendingOK(d, n, b)
  PROVE  a \o b \in Seq(WorkItem) /\ PendingOK(d, n, a \o b)
  <1>1. /\ a \o b \in Seq(WorkItem)
        /\ Len(a \o b) = Len(a) + Len(b)
        /\ \A i \in 1 .. Len(a) + Len(b) : (a \o b)[i] = IF i <= Len(a) THEN a[i] ELSE b[i - Len(a)]
    BY ConcatProperties
  <1>2. Len(a) \in Nat /\ Len(b) \in Nat
    OBVIOUS
  <1> SUFFICES ASSUME NEW k \in 1 .. Len(a) + Len(b) PROVE SourceOK(d, n, (a \o b)[k].parent)
    BY <1>1 DEF PendingOK
  <1>3. CASE k <= Len(a)
    BY <1>1, <1>2, <1>3 DEF PendingOK
  <1>4. CASE k > Len(a)
    <2>1. k - Len(a) \in 1 .. Len(b)
      BY <1>2, <1>4
    <2> QED
      BY <1>1, <1>2, <1>4, <2>1 DEF PendingOK
  <1> QED
    BY <1>2, <1>3, <1>4

LEMMA ChildrenPending ==
  ASSUME NEW d, NEW n, NEW m \in Node, NEW parent \in Nat, SourceOK(d, n, parent)
  PROVE  PendingOK(d, n, Children(m, parent))
  <1>1. Len(Flow.succ[m]) \in Nat
    BY PropTyped
  <1>2. /\ Len(Children(m, parent)) = Len(Flow.succ[m])
        /\ \A k \in 1 .. Len(Flow.succ[m]) : Children(m, parent)[k].parent = parent
    BY <1>1 DEF Children
  <1> QED
    BY <1>2 DEF PendingOK

LEMMA EmptyPending ==
  ASSUME NEW d, NEW n
  PROVE  << >> \in Seq(WorkItem) /\ PendingOK(d, n, << >>)
  BY DEF PendingOK

\* The node on top of the stack and those below it.
LEMMA CurrentTyped ==
  ASSUME NEW H, IInv(H), ~ Idle
  PROVE  /\ Current \in WorkItem /\ Current.node \in Node /\ Current.parent \in 0 .. last
         /\ SourceOK(task, last, Current.parent)
         /\ Tail(work) \in Seq(WorkItem)
         /\ PendingOK(task, last, Tail(work))
  <1>1. work \in Seq(WorkItem) /\ work # << >>
    BY DEF IInv, TypeOK, Idle
  <1>2. Len(work) \in Nat \ {0} /\ Head(work) = work[1] /\ work[1] \in WorkItem
    BY <1>1
  <1>3. Tail(work) \in Seq(WorkItem) /\ Len(Tail(work)) = Len(work) - 1
    BY <1>1
  <1>4. \A k \in 1 .. Len(work) - 1 : Tail(work)[k] = work[k+1]
    BY <1>1
  <1>5. SourceOK(task, last, work[1].parent)
    BY <1>2 DEF IInv, PendingOK
  <1>6. PendingOK(task, last, Tail(work))
    BY <1>2, <1>3, <1>4 DEF IInv, PendingOK
  <1> QED
    BY <1>2, <1>3, <1>5, <1>6 DEF Current, WorkItem, SourceOK

LEMMA PendingKept ==
  ASSUME NEW H, IInv(H), NEW e, NEW m, Evolves(H, e, m), NEW w, PendingOK(task, last, w)
  PROVE  PendingOK(e, m, w)
  BY EvolvesPending DEF PendingOK, IInv

-----------------------------------------------------------------------------
(* The steps of executeNode. *)

LEMMA SameTable ==
  ASSUME NEW H, IInv(H), UNCHANGED <<task, last>>
  PROVE  Evolves(H, task', last')
  BY Unsettled, SettledEvolves DEF IInv, TypeOK

\* A step that leaves the table alone and goes on with nodes w in front of the
\* rest of the stack.
LEMMA WalkKeeps ==
  ASSUME NEW H, IInv(H), ~ Idle, NEW w \in Seq(WorkItem), PendingOK(task, last, w),
         Run(w \o Tail(work), cmd), UNCHANGED <<task, last, ivars>>,
         state' \in InstanceState, ends' \in Nat
  PROVE  Evolves(H, task', last') /\ IInv(H)'
  <1>1. Tail(work) \in Seq(WorkItem) /\ PendingOK(task, last, Tail(work))
    BY CurrentTyped
  <1>2. w \o Tail(work) \in Seq(WorkItem) /\ PendingOK(task, last, w \o Tail(work))
    BY <1>1, PendingConcat
  <1>3. cmd \in Command /\ ivars \in InstanceVars /\ cmd.user \in User
    BY DEF IInv, TypeOK, OperatedBy, Idle
  <1>4. /\ work' \in Seq(WorkItem) /\ work' = w \o Tail(work) /\ cmd' \in Command
        /\ OperatedBy(work', cmd')
        /\ SavedTyped(saved') /\ Sound(H, saved'.task, saved'.last)
    BY <1>2, <1>3, RunKeeps DEF OperatedBy
  <1>5. PendingOK(task', last', work')
    BY <1>2, <1>4
  <1>6. Evolves(H, task', last')
    BY SameTable
  <1> QED
    BY <1>3, <1>4, <1>5, <1>6, EvolvesKeeps

LEMMA UnwindIsRun ==
  ASSUME NEW H, IInv(H), ~ Idle, Unwind
  PROVE  Run(<< >> \o Tail(work), cmd)
  BY CurrentTyped, ConcatEmptySeq DEF Unwind

LEMMA PushKeeps ==
  ASSUME NEW H, IInv(H), ~ Idle, PushChildren(Current.node, Current.parent),
         UNCHANGED <<state, last, task, ivars, ends>>
  PROVE  Evolves(H, task', last') /\ IInv(H)'
  <1>1. /\ Current.node \in Node /\ Current.parent \in Nat
        /\ SourceOK(task, last, Current.parent)
    BY CurrentTyped DEF IInv, TypeOK
  <1>2. /\ Children(Current.node, Current.parent) \in Seq(WorkItem)
        /\ PendingOK(task, last, Children(Current.node, Current.parent))
    BY <1>1, ChildrenTyped, ChildrenPending
  <1>3. state' \in InstanceState /\ ends' \in Nat
    BY DEF IInv, TypeOK
  <1> QED
    BY <1>2, <1>3, WalkKeeps DEF PushChildren

LEMMA UnwindKeeps ==
  ASSUME NEW H, IInv(H), ~ Idle, Unwind, UNCHANGED <<task, last, ivars>>,
         state' \in InstanceState, ends' \in Nat
  PROVE  Evolves(H, task', last') /\ IInv(H)'
  BY UnwindIsRun, EmptyPending, WalkKeeps

LEMMA executeForkKeeps ==
  ASSUME NEW H, IInv(H), executeFork
  PROVE  Evolves(H, task', last') /\ IInv(H)'
  BY PushKeeps DEF executeFork, Executing

LEMMA joinKeeps ==
  ASSUME NEW H, IInv(H), joinReleases \/ joinWaits
  PROVE  Evolves(H, task', last') /\ IInv(H)'
  <1>1. state \in InstanceState /\ ends \in Nat
    BY DEF IInv, TypeOK
  <1> QED
    BY <1>1, PushKeeps, UnwindKeeps DEF joinReleases, joinWaits, Executing

LEMMA executeEndKeeps ==
  ASSUME NEW H, IInv(H), executeEnd
  PROVE  Evolves(H, task', last') /\ IInv(H)'
  <1>1. state' \in InstanceState /\ ends' \in Nat
    BY DEF IInv, TypeOK, executeEnd, InstanceState
  <1> QED
    BY <1>1, UnwindKeeps DEF executeEnd, Executing

LEMMA executeUnknownKeeps ==
  ASSUME NEW H, IInv(H), executeUnknown
  PROVE  Evolves(H, task', last') /\ IInv(H)'
  <1>1. state \in InstanceState /\ ends \in Nat
    BY DEF IInv, TypeOK
  <1> QED
    BY <1>1, UnwindKeeps DEF executeUnknown

\* A decision sends the token along one of the flows out of it.
LEMMA RoutedBranch ==
  ASSUME evaluateDecision, Current.node \in Node
  PROVE  \E m \in Node : /\ m \in outgoingTargets(Flow, Current.node)
                         /\ Run(<<[node |-> m, parent |-> Current.parent]>> \o Tail(work), cmd)
  <1>1. PICK m \in DecisionTargets(Current.node) :
          Run(<<[node |-> m, parent |-> Current.parent]>> \o Tail(work), cmd)
    BY DEF evaluateDecision
  <1>2. Flow.succ[Current.node] \in Seq(Node)
    BY PropTyped
  <1>3. PICK k \in 1 .. Len(Flow.succ[Current.node]) : m = Flow.succ[Current.node][k]
    BY <1>1 DEF DecisionTargets
  <1> QED
    BY <1>1, <1>2, <1>3 DEF outgoingTargets, FlowRange

LEMMA evaluateDecisionKeeps ==
  ASSUME NEW H, IInv(H), evaluateDecision
  PROVE  Evolves(H, task', last') /\ IInv(H)'
  <1>1. state' \in InstanceState /\ ends' \in Nat
    BY DEF IInv, TypeOK, evaluateDecision
  <1>2. ~ Idle
    BY DEF evaluateDecision, Executing
  <1>3. /\ Current.node \in Node /\ Current.parent \in Nat
        /\ SourceOK(task, last, Current.parent)
    BY <1>2, CurrentTyped DEF IInv, TypeOK
  <1>4. PICK m \in DecisionTargets(Current.node) :
          Run(<<[node |-> m, parent |-> Current.parent]>> \o Tail(work), cmd)
    BY DEF evaluateDecision
  <1>5. m \in Node
    <2>1. Flow.succ[Current.node] \in Seq(Node)
      BY <1>3, PropTyped
    <2>2. PICK k \in 1 .. Len(Flow.succ[Current.node]) : m = Flow.succ[Current.node][k]
      BY <1>4 DEF DecisionTargets
    <2> QED
      BY <2>1, <2>2
  <1> DEFINE w == <<[node |-> m, parent |-> Current.parent]>>
  <1>6. w \in Seq(WorkItem) /\ PendingOK(task, last, w)
    BY <1>3, <1>5 DEF WorkItem, PendingOK
  <1>7. Run(w \o Tail(work), cmd)
    BY <1>4
  <1> HIDE DEF w
  <1> QED
    BY <1>1, <1>2, <1>6, <1>7, WalkKeeps DEF evaluateDecision

-----------------------------------------------------------------------------
(* Fresh rows. *)

LEMMA NoBackKnown ==
  ASSUME NEW e
  PROVE  /\ NoBack.src = 0
         /\ \A j \in Join : Known(e, j, NoBack.branch[j]) /\ Known(e, j, NoScopes[j])
  BY DEF NoBack, NoScopes, NoScope, Scope, Known

\* The scopes of a settled row are known, and so are those an applicant keeps.
LEMMA RowScopesKnown ==
  ASSUME NEW H, IInv(H), NEW e, Settles(e), NEW i \in Id, NEW j \in Join
  PROVE  Known(e, j, task[i].scopes[j]) /\ Known(e, j, task[i].back.branch[j])
  <1>1. task[i] \in Row /\ last \in Nat
    BY DEF IInv, TypeOK
  <1>2. task[i].scopes[j] \in Scope /\ task[i].back.branch[j] \in Scope
    BY <1>1 DEF Row, Back
  <1>3. ScopeOK(task, i, j, task[i].scopes[j]) /\ ScopeOK(task, i, j, task[i].back.branch[j])
    BY DEF IInv, Sound, ScopesOK, Id
  <1>4. ASSUME NEW s \in Scope, ScopeOK(task, i, j, s) PROVE Known(e, j, s)
    <2> SUFFICES ASSUME s.root # 0 PROVE Known(e, j, s)
      BY DEF Known
    <2>1. s.root \in Id /\ s.round < s.root /\ task[s.root].scopes[j] = s
      BY <1>1, <1>4 DEF ScopeOK, Scope, Id
    <2> QED
      BY <2>1 DEF Known, Settles
  <1> QED
    BY <1>2, <1>3, <1>4

LEMMA buildScopesFresh ==
  ASSUME NEW H, IInv(H), NEW e, Settles(e), NEW n \in Node, NEW parent \in 0 .. last,
         NEW self \in Nat, last < self
  PROVE  /\ buildScopes(n, parent, self) \in [Join -> Scope]
         /\ \A j \in Join :
              \/ Known(e, j, buildScopes(n, parent, self)[j])
              \/ /\ buildScopes(n, parent, self)[j].root = self
                 /\ buildScopes(n, parent, self)[j].round < self
  <1> DEFINE b == buildScopes(n, parent, self)
  <1>0. last \in Nat
    BY DEF IInv, TypeOK
  <1>1. ASSUME NEW j \in Join
        PROVE  /\ b[j] \in Scope
               /\ Known(e, j, b[j]) \/ (b[j].root = self /\ b[j].round < self)
    <2>1. CASE j \notin ScopesOfNode[n]
      <3>1. b[j] = NoScope
        BY <2>1 DEF buildScopes
      <3> QED
        BY <3>1 DEF NoScope, Scope, Known
    <2>2. CASE j \in ScopesOfNode[n] /\ parent # 0 /\ task[parent].scopes[j].root # 0
      <3>1. b[j] = task[parent].scopes[j]
        BY <2>2 DEF buildScopes
      <3>2. parent \in Id
        BY <1>0, <2>2 DEF Id
      <3>3. task[parent].scopes[j] \in Scope
        BY <3>2 DEF IInv, TypeOK, Row
      <3> QED
        BY <3>1, <3>2, <3>3, RowScopesKnown
    <2>3. CASE j \in ScopesOfNode[n] /\ ~ (parent # 0 /\ task[parent].scopes[j].root # 0)
      <3>1. b[j] = [round |-> parent, root |-> self]
        BY <2>3 DEF buildScopes
      <3> QED
        BY <1>0, <3>1 DEF Scope
    <2> QED
      BY <2>1, <2>2, <2>3
  <1>2. b \in [Join -> Scope]
    BY <1>1 DEF buildScopes
  <1> QED
    BY <1>1, <1>2

\* A row without reapply context is fresh if its place in the lineage and its
\* scopes are.
LEMMA FreshBelow ==
  ASSUME NEW H, NEW e, NEW r \in Row, NEW i,
         TypeOK, r.parent \in 0 .. last, Below(H, e, r), r.back = NoBack,
         \A j \in Join : \/ Known(e, j, r.scopes[j])
                         \/ r.scopes[j].root = i /\ r.scopes[j].round < i
  PROVE  Fresh(H, e, r, i)
  <1>1. last \in Nat
    BY DEF TypeOK
  <1>2. r.back.src = 0 /\ \A j \in Join : Known(e, j, r.back.branch[j])
    BY NoBackKnown
  <1>3. r.back.src \in 0 .. last
    BY <1>1, <1>2
  <1> QED
    BY <1>2, <1>3 DEF Fresh

\* The new row of a completed row.
LEMMA FreshRow ==
  ASSUME NEW H, NEW e, NEW r \in Row, NEW i,
         TypeOK, SourceOK(e, last, r.parent), r.back = NoBack,
         \A j \in Join : \/ Known(e, j, r.scopes[j])
                         \/ r.scopes[j].root = i /\ r.scopes[j].round < i
  PROVE  Fresh(H, e, r, i)
  <1>1. r.parent \in 0 .. last /\ Below(H, e, r)
    BY DEF SourceOK, Below
  <1> QED
    BY <1>1, FreshBelow

LEMMA resolveActorsTyped ==
  ASSUME NEW H, IInv(H), NEW n \in Node
  PROVE  resolveActors(n) \in Roster
  <1>1. cmd.next \in Roster
    BY DEF IInv, TypeOK, Command
  <1>2. <<Initiator>> \in Roster
    BY UserAssumption DEF Roster
  <1> QED
    BY <1>1, <1>2, PropTyped DEF resolveActors

LEMMA TeamsTyped ==
  ASSUME NEW n \in Node, NEW roster \in Roster
  PROVE  /\ Len(Teams(n, roster)) \in Nat
         /\ \A k \in 1 .. Len(Teams(n, roster)) : Teams(n, roster)[k] \in SUBSET User
  <1>1. CASE roster = << >> \/ Props[n].countersign = "none"
    <2>1. PICK S \in SUBSET User : Teams(n, roster) = <<S>>
      BY <1>1, RosterTyped DEF Teams
    <2> QED
      BY <2>1
  <1>2. CASE roster # << >> /\ Props[n].countersign = "SEQUENTIAL"
    <2>1. roster[1] \in User
      BY <1>2 DEF Roster
    <2>2. Teams(n, roster) = <<{roster[1]}>>
      BY <1>2 DEF Teams
    <2> QED
      BY <2>1, <2>2
  <1>3. CASE roster # << >> /\ Props[n].countersign \notin {"none", "SEQUENTIAL"}
    <2>1. Len(roster) \in Nat /\ \A k \in 1 .. Len(roster) : roster[k] \in User
      BY DEF Roster
    <2>2. Teams(n, roster) = [k \in 1 .. Len(roster) |-> {roster[k]}]
      BY <1>3 DEF Teams
    <2>3. Len(Teams(n, roster)) = Len(roster)
      BY <2>1, <2>2
    <2> QED
      BY <2>1, <2>2, <2>3
  <1> QED
    BY <1>1, <1>2, <1>3

LEMMA CsStartTyped ==
  ASSUME NEW n \in Node, NEW roster \in Roster
  PROVE  CsStart(n, roster) \in CsVars
  BY DEF CsStart, CsVars, NoMembers, Roster

LEMMA createTaskKeeps ==
  ASSUME NEW H, IInv(H), createTask
  PROVE  Evolves(H, task', last') /\ IInv(H)'
  <1> DEFINE n == Current.node
             p == Current.parent
             roster == resolveActors(n)
             teams == Teams(n, roster)
             len == Len(teams)
             row(k) == [NewRow(n, p, teams[k]) EXCEPT
                          !.scopes = buildScopes(n, p, last + k), !.cs = CsStart(n, roster)]
             new == [k \in 1 .. len |-> row(k)]
  <1>0. ~ Idle /\ last \in Nat /\ TypeOK
    BY DEF createTask, Executing, IInv, TypeOK
  <1>1. n \in Node /\ p \in 0 .. last /\ p \in Nat /\ SourceOK(task, last, p)
    BY <1>0, CurrentTyped
  <1>2. roster \in Roster
    BY <1>1, resolveActorsTyped
  <1>3. len \in Nat /\ \A k \in 1 .. len : teams[k] \in SUBSET User
    BY <1>1, <1>2, TeamsTyped
  <1>4. Settles(task)
    BY <1>0, Unsettled
  <1>5. ASSUME NEW k \in 1 .. len PROVE Fresh(H, task, row(k), last + k)
    <2>0. last + k \in Nat /\ last < last + k
      BY <1>0, <1>3
    <2>1. /\ buildScopes(n, p, last + k) \in [Join -> Scope]
          /\ \A j \in Join :
               \/ Known(task, j, buildScopes(n, p, last + k)[j])
               \/ /\ buildScopes(n, p, last + k)[j].root = last + k
                  /\ buildScopes(n, p, last + k)[j].round < last + k
      BY <1>1, <1>4, <2>0, buildScopesFresh
    <2>2. NewRow(n, p, teams[k]) \in Row
      BY <1>1, <1>3, NewRowTyped
    <2>3. CsStart(n, roster) \in CsVars
      BY <1>1, <1>2, CsStartTyped
    <2>4. /\ row(k) \in Row /\ row(k).parent = p /\ row(k).back = NoBack
          /\ row(k).scopes = buildScopes(n, p, last + k)
      BY <2>1, <2>2, <2>3 DEF NewRow, Row
    <2>5. SourceOK(task, last, row(k).parent)
      BY <1>1, <2>4
    <2>6. \A j \in Join : \/ Known(task, j, row(k).scopes[j])
                          \/ /\ row(k).scopes[j].root = last + k
                             /\ row(k).scopes[j].round < last + k
      BY <2>1, <2>4
    <2> HIDE DEF row, n, p
    <2> QED
      BY <1>0, <2>4, <2>5, <2>6, FreshRow
  <1>6. DOMAIN new = 1 .. len /\ Len(new) = len /\ \A k \in 1 .. len : new[k] = row(k)
    BY <1>3
  <1>7. task' = Appended(task, new) /\ last' = last + len
    BY <1>6 DEF createTask
  <1>8. Evolves(H, Appended(task, new), last + len)
    <2> HIDE DEF new, row, len
    <2> QED
      BY <1>0, <1>3, <1>4, <1>5, <1>6, AppendEvolves
  <1>9. Evolves(H, task', last')
    BY <1>7, <1>8
  <1>10. Run(Tail(work), cmd) /\ UNCHANGED <<state, ivars, ends>>
    BY DEF createTask, Unwind
  <1> HIDE DEF new, row, len, teams, roster, n, p
  <1>11. Tail(work) \in Seq(WorkItem) /\ PendingOK(task, last, Tail(work))
    BY <1>0, CurrentTyped
  <1>12. /\ work' \in Seq(WorkItem) /\ work' = Tail(work) /\ cmd' \in Command
         /\ OperatedBy(work', cmd')
         /\ SavedTyped(saved') /\ Sound(H, saved'.task, saved'.last)
    <2>1. cmd \in Command /\ OperatedBy(Tail(work), cmd)
      BY <1>0 DEF TypeOK, IInv, OperatedBy, Idle
    <2> QED
      BY <1>10, <1>11, <2>1, RunKeeps
  <1>13. PendingOK(task', last', work')
    BY <1>9, <1>11, <1>12, PendingKept
  <1> QED
    BY <1>0, <1>9, <1>10, <1>12, <1>13, EvolvesKeeps DEF TypeOK

LEMMA execCustomNodeKeeps ==
  ASSUME NEW H, IInv(H), execCustomNode
  PROVE  Evolves(H, task', last') /\ IInv(H)'
  <1> DEFINE n == Current.node
             p == Current.parent
             r == [NewRow(n, p, {cmd.user}) EXCEPT !.st = "DONE", !.by = cmd.user]
  <1>0. ~ Idle /\ last \in Nat /\ TypeOK
    BY DEF execCustomNode, Executing, IInv, TypeOK
  <1>1. n \in Node /\ p \in Nat /\ SourceOK(task, last, p)
    BY <1>0, CurrentTyped
  <1>2. cmd.user \in User /\ cmd \in Command
    BY <1>0 DEF IInv, TypeOK, OperatedBy, Idle
  <1>3. r \in Row /\ r.parent = p /\ r.back = NoBack /\ r.scopes = NoScopes
    <2>1. NewRow(n, p, {cmd.user}) \in Row
      BY <1>1, <1>2, NewRowTyped
    <2> QED
      BY <1>2, <2>1 DEF NewRow, Row, RowState
  <1>4. task' = Appended(task, << r >>) /\ last' = last + 1
    BY DEF execCustomNode
  <1>5. /\ Run(Children(n, p) \o Tail(work), cmd)
        /\ UNCHANGED <<state, ivars, ends>>
    BY DEF execCustomNode, PushChildren
  <1> HIDE DEF r, n, p
  <1>6. Evolves(H, task', last')
    <2>1. Settles(task)
      BY <1>0, Unsettled
    <2>2. Fresh(H, task, r, last + 1)
      BY <1>0, <1>1, <1>3, NoBackKnown, FreshRow
    <2> QED
      BY <1>0, <1>4, <2>1, <2>2, AppendOneEvolves
  <1>7. Tail(work) \in Seq(WorkItem) /\ PendingOK(task, last, Tail(work))
    BY <1>0, CurrentTyped
  <1>8. Children(n, p) \in Seq(WorkItem) /\ PendingOK(task, last, Children(n, p))
    BY <1>1, ChildrenTyped, ChildrenPending
  <1>9. /\ Children(n, p) \o Tail(work) \in Seq(WorkItem)
        /\ PendingOK(task, last, Children(n, p) \o Tail(work))
    BY <1>7, <1>8, PendingConcat
  <1>10. /\ work' \in Seq(WorkItem) /\ work' = Children(n, p) \o Tail(work)
         /\ cmd' \in Command /\ OperatedBy(work', cmd')
         /\ SavedTyped(saved') /\ Sound(H, saved'.task, saved'.last)
    BY <1>2, <1>5, <1>9, RunKeeps DEF OperatedBy
  <1>11. PendingOK(task', last', work')
    BY <1>6, <1>9, <1>10, PendingKept
  <1> QED
    BY <1>0, <1>5, <1>6, <1>10, <1>11, EvolvesKeeps DEF TypeOK

\* A rolled back transaction brings back a sound table.
LEMMA abortKeeps ==
  ASSUME NEW H, IInv(H), abort
  PROVE  IInv(H)'
  <1>1. Run(<< >>, NoCmd)
    BY DEF abort
  <1>2. /\ work' = << >> /\ cmd' \in Command
        /\ SavedTyped(saved') /\ Sound(H, saved'.task, saved'.last)
    <2>1. NoCmd \in Command
      BY DEF NoCmd, Command, Roster
    <2>2. << >> \in Seq(WorkItem) /\ OperatedBy(<< >>, NoCmd)
      BY DEF OperatedBy
    <2> QED
      BY <1>1, <2>1, <2>2, RunKeeps
  <1>3. work' \in Seq(WorkItem) /\ PendingOK(task', last', work') /\ OperatedBy(work', cmd')
    BY <1>2, EmptyPending DEF OperatedBy
  <1>4. /\ state' \in InstanceState /\ last' \in Nat /\ task' \in [1 .. last' -> Row]
        /\ ivars' \in InstanceVars /\ ends' \in Nat /\ Sound(H, task', last')
    <2>1. CASE Transactional
      BY <2>1 DEF abort, IInv, TypeOK
    <2>2. CASE ~ Transactional
      BY <2>2 DEF abort, IInv, TypeOK, Id
    <2> QED
      BY <2>1, <2>2
  <1>5. TypeOK'
    BY <1>2, <1>3, <1>4 DEF TypeOK, Id, SavedTyped
  <1>6. IInv(H)' <=> TypeOK' /\ Sound(H, task', last') /\ Sound(H, saved'.task, saved'.last)
                  /\ PendingOK(task', last', work') /\ OperatedBy(work', cmd')
    BY DEF IInv, Sound, RefsOK, Below, ScopesOK, ScopeOK, PendingOK, SourceOK, OperatedBy
  <1> QED
    BY <1>2, <1>3, <1>4, <1>5, <1>6

-----------------------------------------------------------------------------
(* The commands. *)

LEMMA MergedKeeps ==
  ASSUME NEW H, IInv(H), NEW t \in Id, NEW submit \in Submit, mergeExecIntoInstance(t, submit)
  PROVE  ivars' \in InstanceVars
  <1>1. MergedCs(t) \in CsVars /\ MergedRound(t) \in RoundVars
    BY MergedTyped DEF IInv
  <1> QED
    BY <1>1 DEF mergeExecIntoInstance, InstanceVars

\* A command that executes no node.
LEMMA CommandKeeps ==
  ASSUME NEW H, IInv(H), Idle, Evolves(H, task', last'), UNCHANGED <<work, cmd, saved>>,
         state' \in InstanceState, ivars' \in InstanceVars, ends' \in Nat
  PROVE  IInv(H)'
  <1>1. work' = << >> /\ PendingOK(task', last', work') /\ work' \in Seq(WorkItem)
    BY EmptyPending DEF Idle
  <1>2. cmd' \in Command /\ OperatedBy(work', cmd')
    BY DEF IInv, TypeOK, OperatedBy
  <1> QED
    BY <1>1, <1>2, SavedKept, EvolvesKeeps

\* A command that goes on with the nodes w.
LEMMA GoKeeps ==
  ASSUME NEW H, IInv(H), Evolves(H, task', last'), state' \in InstanceState, ends' \in Nat,
         ivars' \in InstanceVars,
         NEW w \in Seq(WorkItem), NEW c \in Command, c.user \in User, Run(w, c),
         PendingOK(task', last', w)
  PROVE  IInv(H)'
  <1>1. /\ work' \in Seq(WorkItem) /\ work' = w /\ cmd' \in Command /\ OperatedBy(work', cmd')
        /\ SavedTyped(saved') /\ Sound(H, saved'.task, saved'.last)
    BY RunKeeps DEF OperatedBy
  <1> QED
    BY <1>1, EvolvesKeeps

\* The table after a command has completed its row t: t can be the parent of
\* new rows and pending nodes.
LEMMA CompletedSource ==
  ASSUME NEW H, IInv(H), NEW t \in Id, NEW u \in User, NEW submit \in Submit, Allowed(t, u)
  PROVE  /\ Settles(Completed(t, u, submit))
         /\ SourceOK(Completed(t, u, submit), last, t)
  <1>1. TypeOK /\ task[t].st = "DOING" /\ last \in Nat
    BY DEF IInv, TypeOK, Allowed
  <1>2. Settles(Completed(t, u, submit)) /\ Handled(Completed(t, u, submit)[t])
    BY <1>1, CompletedSettles
  <1> QED
    BY <1>1, <1>2 DEF SourceOK, Id

\* A new row that repeats the node and the parent of row i.
LEMMA RepeatedBelow ==
  ASSUME NEW H, NEW e, NEW i \in Id, NEW r, IInv(H), Settles(e),
         r.node = task[i].node, r.parent = task[i].parent
  PROVE  r.parent \in 0 .. last /\ Below(H, e, r)
  <1>1. RefsOK(H, task, i) /\ last \in Nat /\ i \in 1 .. last
    BY DEF IInv, TypeOK, Sound, Id
  <1>2. r.parent \in 0 .. last /\ Below(H, task, task[i])
    BY <1>1 DEF RefsOK
  <1>3. ASSUME r.parent # 0
        PROVE  Handled(e[r.parent]) \/ (r.node \in H /\ e[r.parent].node = r.node)
    <2>1. r.parent \in Id
      BY <1>1, <1>2, <1>3 DEF Id
    <2>2. Handled(task[r.parent]) \/ (r.node \in H /\ task[r.parent].node = r.node)
      BY <1>2, <1>3 DEF Below
    <2> QED
      BY <2>1, <2>2 DEF Settles, Handled
  <1> QED
    BY <1>2, <1>3 DEF Below

LEMMA DropSettles ==
  ASSUME NEW H, IInv(H), NEW d, Settles(d), NEW n, NEW B \in BOOLEAN, NEW p, SourceOK(d, last, p)
  PROVE  LET e == [i \in Id |-> IF B /\ i \in DoingAt(d, n)
                                THEN [d[i] EXCEPT !.st = "ABANDONED"] ELSE d[i]]
         IN  Settles(e) /\ SourceOK(e, last, p)
  <1> DEFINE D == { i \in DoingAt(d, n) : B }
             e == [i \in Id |-> IF i \in D THEN [d[i] EXCEPT !.st = "ABANDONED"] ELSE d[i]]
  <1>1. TypeOK /\ last \in Nat
    BY DEF IInv, TypeOK
  <1>2. D \in SUBSET Id /\ \A i \in D : d[i].st = "DOING"
    BY DEF DoingAt, DoingIn, Settles
  <1>3. Settles(e) /\ \A i \in Id : d[i].st # "DOING" => e[i] = d[i]
    <2> HIDE DEF D
    <2> QED
      BY <1>1, <1>2, DroppedSettles
  <1>4. SourceOK(e, last, p)
    <2> HIDE DEF e
    <2> QED
      BY <1>1, <1>3 DEF SourceOK, Handled, Id
  <1>5. e = [i \in Id |-> IF B /\ i \in DoingAt(d, n)
                          THEN [d[i] EXCEPT !.st = "ABANDONED"] ELSE d[i]]
    OBVIOUS
  <1> QED
    BY <1>3, <1>4, <1>5

LEMMA DropOpenSettles ==
  ASSUME NEW H, IInv(H), NEW d, Settles(d), NEW n \in Node, NEW p, SourceOK(d, last, p)
  PROVE  Settles(DropOpenAt(d, n)) /\ SourceOK(DropOpenAt(d, n), last, p)
  <1>1. AddSignGate(n) \in BOOLEAN
    BY PropsAssumption DEF AddSignGate, PropType
  <1> QED
    BY <1>1, DropSettles DEF DropOpenAt

\* A command that appends one row and executes no node.
LEMMA AppendKeeps ==
  ASSUME NEW H, IInv(H), Idle, NEW e, Settles(e), NEW r, Fresh(H, e, r, last + 1),
         task' = Appended(e, << r >>), last' = last + 1,
         NEW t \in Id, NEW submit \in Submit, mergeExecIntoInstance(t, submit),
         UNCHANGED <<state, ends, work, cmd, saved>>
  PROVE  Evolves(H, task', last') /\ IInv(H)'
  <1>1. TypeOK /\ state' \in InstanceState /\ ends' \in Nat
    BY DEF IInv, TypeOK
  <1>2. Evolves(H, task', last')
    BY <1>1, AppendOneEvolves
  <1>3. ivars' \in InstanceVars
    BY MergedKeeps
  <1> QED
    BY <1>1, <1>2, <1>3, CommandKeeps

LEMMA StartProcessInstanceKeeps ==
  ASSUME NEW H, IInv(H), StartProcessInstance
  PROVE  Evolves(H, task', last') /\ IInv(H)'
  <1> DEFINE w == Children(startNode(Flow), 0)
             c == [NoCmd EXCEPT !.user = Initiator]
  <1>1. last \in Nat /\ ivars' \in InstanceVars /\ ends' \in Nat /\ state' \in InstanceState
    BY DEF IInv, TypeOK, StartProcessInstance, InstanceState
  <1>2. Evolves(H, task', last')
    BY SameTable DEF StartProcessInstance
  <1>3. w \in Seq(WorkItem) /\ PendingOK(task, last, w)
    <2>1. SourceOK(task, last, 0)
      BY <1>1 DEF SourceOK
    <2> QED
      BY <2>1, StartTyped, ChildrenTyped, ChildrenPending
  <1>4. c \in Command /\ c.user \in User
    <2>1. c = [user |-> Initiator, next |-> << >>, home |-> {}]
      BY DEF NoCmd
    <2> HIDE DEF c
    <2> QED
      BY <2>1, UserAssumption DEF Command, Roster
  <1>5. Run(w, c)
    BY DEF StartProcessInstance
  <1>6. PendingOK(task', last', w)
    BY <1>2, <1>3, PendingKept
  <1> HIDE DEF w, c
  <1> QED
    BY <1>1, <1>2, <1>3, <1>4, <1>5, <1>6, GoKeeps

LEMMA ExecuteWaitKeeps ==
  ASSUME NEW H, IInv(H), NEW t \in Id, NEW u \in User, NEW submit \in Submit, ExecuteWait(t, u,
         submit)
  PROVE  Evolves(H, task', last') /\ IInv(H)'
  <1>1. Idle /\ Allowed(t, u) /\ mergeExecIntoInstance(t, submit)
    BY DEF ExecuteWait, Executes
  <1>2. last \in Nat /\ state' \in InstanceState /\ ends' \in Nat
    BY DEF IInv, TypeOK, ExecuteWait
  <1>3. Evolves(H, task', last')
    BY <1>1, <1>2, CompletedSource, SettledEvolves DEF ExecuteWait
  <1>4. ivars' \in InstanceVars
    BY <1>1, MergedKeeps
  <1> QED
    BY <1>1, <1>2, <1>3, <1>4, CommandKeeps DEF ExecuteWait

LEMMA ExecuteNextMemberKeeps ==
  ASSUME NEW H, IInv(H), NEW t \in Id, NEW u \in User, NEW submit \in Submit,
         ExecuteNextMember(t, u, submit)
  PROVE  Evolves(H, task', last') /\ IInv(H)'
  <1> DEFINE d == Completed(t, u, submit)
             n == task[t].node
             s == d[t].cs[n]
             s1 == [s EXCEPT !.idx = s.idx + 1]
             r == [NewRow(n, t, {s.members[s.idx + 2]}) EXCEPT !.cs[n] = s1]
  <1>1. Idle /\ Allowed(t, u) /\ mergeExecIntoInstance(t, submit)
    BY DEF ExecuteNextMember, Executes
  <1>2. Settles(d) /\ SourceOK(d, last, t)
    BY <1>1, CompletedSource
  <1>3. d[t] \in Row /\ n \in Node /\ t \in Nat
    BY <1>2 DEF Settles, IInv, TypeOK, Row, Id
  <1>4. d[t].node = n /\ n \in Sequential
    <2>1. d[t].node = n
      BY DEF Completed, IInv, TypeOK
    <2> QED
      BY <1>3, <2>1 DEF ExecuteNextMember, SequentialGate, Sequential
  <1>5. s \in [members : Roster, idx : Nat] /\ s.idx + 1 < Len(s.members)
    BY <1>3, <1>4 DEF Row, CsVars, ExecuteNextMember, MoreMembers
  <1>6. s1 \in [members : Roster, idx : Nat] /\ {s.members[s.idx + 2]} \in SUBSET User
    <2> HIDE DEF d, n, s, r
    <2>1. s.members \in Seq(User) /\ s.idx \in Nat
      BY <1>5 DEF Roster
    <2>2. Len(s.members) \in Nat /\ s.idx + 1 < Len(s.members)
      BY <1>5, <2>1
    <2>3. s.idx + 2 \in 1 .. Len(s.members)
      BY <2>1, <2>2
    <2>4. s.members[s.idx + 2] \in User
      BY <2>1, <2>3
    <2>5. s1 \in [members : Roster, idx : Nat]
      BY <1>5
    <2> QED
      BY <2>4, <2>5
  <1>7. NewRow(n, t, {s.members[s.idx + 2]}) \in Row
    BY <1>3, <1>6, NewRowTyped
  <1> HIDE DEF d
  <1>8. task' = Appended(d, << r >>)
    BY DEF ExecuteNextMember, d
  <1>9. r \in Row /\ r.parent = t /\ r.back = NoBack /\ r.scopes = NoScopes
    <2> HIDE DEF s1, s, n
    <2> QED
      BY <1>4, <1>6, <1>7, SMTT(30) DEF NewRow, Row, CsVars
  <1> HIDE DEF r
  <1>10. Fresh(H, d, r, last + 1)
    BY <1>2, <1>9, NoBackKnown, FreshRow DEF IInv
  <1> QED
    BY <1>1, <1>2, <1>8, <1>10, AppendKeeps DEF ExecuteNextMember

LEMMA ExecuteAddSignKeeps ==
  ASSUME NEW H, IInv(H), NEW t \in Id, NEW u \in User, NEW submit \in Submit, NEW ops \in Roster,
         ExecuteAddSign(t, u, submit, ops)
  PROVE  Evolves(H, task', last') /\ IInv(H)'
  <1> DEFINE d == Completed(t, u, submit)
             n == task[t].node
             round == d[t].round[n] + 1
             len == Len(ops)
             row(k) == [NewRow(n, t, {ops[k]}) EXCEPT
                          !.scopes = buildScopes(n, t, last + k), !.round[n] = round]
             new == [k \in 1 .. len |-> row(k)]
  <1>1. Idle /\ Allowed(t, u) /\ mergeExecIntoInstance(t, submit)
    BY DEF ExecuteAddSign, Executes
  <1>2. /\ TypeOK /\ last \in Nat /\ len \in Nat /\ t \in 0 .. last /\ t \in Nat
        /\ \A k \in 1 .. len : ops[k] \in User
    BY DEF IInv, TypeOK, Id, Roster
  <1>3. Settles(d) /\ SourceOK(d, last, t)
    BY <1>1, CompletedSource
  <1>4. n \in Node /\ n \in AddSign
    <2>1. n \in Node
      BY DEF IInv, TypeOK, Row
    <2> QED
      BY <2>1 DEF ExecuteAddSign, AddSign
  <1>5. round \in Nat
    <2>1. d[t].round \in [AddSign -> Nat]
      BY <1>3 DEF Settles, Row, RoundVars
    <2> QED
      BY <1>4, <2>1
  <1>6. task' = Appended(d, new) /\ last' = last + len
    BY DEF ExecuteAddSign
  <1> HIDE DEF d, n, round
  <1>7. ASSUME NEW k \in 1 .. len PROVE Fresh(H, d, row(k), last + k)
    <2>0. last + k \in Nat /\ last < last + k
      BY <1>2
    <2>1. /\ buildScopes(n, t, last + k) \in [Join -> Scope]
          /\ \A j \in Join :
               \/ Known(d, j, buildScopes(n, t, last + k)[j])
               \/ /\ buildScopes(n, t, last + k)[j].root = last + k
                  /\ buildScopes(n, t, last + k)[j].round < last + k
      BY <1>2, <1>3, <1>4, <2>0, buildScopesFresh
    <2>2. NewRow(n, t, {ops[k]}) \in Row
      BY <1>2, <1>4, NewRowTyped
    <2>3. /\ row(k) \in Row /\ row(k).parent = t /\ row(k).back = NoBack
          /\ row(k).scopes = buildScopes(n, t, last + k)
      BY <1>4, <1>5, <2>1, <2>2 DEF NewRow, Row, RoundVars
    <2> HIDE DEF row
    <2> QED
      BY <1>2, <1>3, <2>1, <2>3, FreshRow
  <1>8. DOMAIN new = 1 .. len /\ Len(new) = len /\ \A k \in 1 .. len : new[k] = row(k)
    BY <1>2
  <1> HIDE DEF new, row, len
  <1>9. Evolves(H, task', last')
    BY <1>2, <1>3, <1>6, <1>7, <1>8, AppendEvolves
  <1>10. ivars' \in InstanceVars
    BY <1>1, MergedKeeps
  <1> QED
    BY <1>1, <1>2, <1>9, <1>10, CommandKeeps DEF ExecuteAddSign, TypeOK

LEMMA ExecuteAdvanceKeeps ==
  ASSUME NEW H, IInv(H), NEW t \in Id, NEW u \in User, NEW submit \in Submit, NEW next \in Roster,
         ExecuteAdvance(t, u, submit, next)
  PROVE  Evolves(H, task', last') /\ IInv(H)'
  <1> DEFINE d == Completed(t, u, submit)
             n == task[t].node
             B == Props[n].countersign # "none"
             e == [i \in Id |-> IF B /\ i \in DoingAt(d, n)
                                THEN [d[i] EXCEPT !.st = "ABANDONED"] ELSE d[i]]
             c == [user |-> u, next |-> next, home |-> {}]
  <1>1. Idle /\ Allowed(t, u) /\ mergeExecIntoInstance(t, submit)
    BY DEF ExecuteAdvance, Executes
  <1>2. n \in Node /\ t \in Nat /\ last \in Nat
    BY DEF IInv, TypeOK, Row, Id
  <1>3. task' = e /\ last' = last /\ Run(Children(n, t), c)
    BY DEF ExecuteAdvance, AbandonRest
  <1>4. Settles(d) /\ SourceOK(d, last, t)
    BY <1>1, CompletedSource
  <1>5. Settles(e) /\ SourceOK(e, last, t)
    <2> HIDE DEF d
    <2>1. B \in BOOLEAN
      OBVIOUS
    <2> HIDE DEF B
    <2> QED
      BY <1>4, <2>1, DropSettles
  <1>6. c \in Command /\ c.user \in User
    BY DEF Command
  <1> HIDE DEF d, n, B, e, c
  <1>7. Children(n, t) \in Seq(WorkItem) /\ PendingOK(task', last', Children(n, t))
    BY <1>2, <1>3, <1>5, ChildrenTyped, ChildrenPending
  <1>8. Evolves(H, task', last')
    BY <1>2, <1>3, <1>5, SettledEvolves
  <1>9. ivars' \in InstanceVars /\ state' \in InstanceState /\ ends' \in Nat
    BY <1>1, MergedKeeps DEF IInv, TypeOK, ExecuteAdvance
  <1> QED
    BY <1>3, <1>6, <1>7, <1>8, <1>9, GoKeeps

LEMMA executeReapplyKeeps ==
  ASSUME NEW H, IInv(H), NEW t \in Id, NEW u \in User, executeReapply(t, u)
  PROVE  Evolves(H, task', last') /\ IInv(H)'
  <1> DEFINE d == Completed(t, u, "reapply")
             src == task[t].back.src
             n == task[src].node
             r == [NewRow(n, t, FlowRange(Props[n].assignee)) EXCEPT
                     !.scopes = task[t].back.branch]
  <1>0. "reapply" \in Submit
    BY DEF Submit
  <1>1. Idle /\ Allowed(t, u) /\ mergeExecIntoInstance(t, "reapply")
    BY DEF executeReapply
  <1>2. Settles(d) /\ SourceOK(d, last, t)
    BY <1>0, <1>1, CompletedSource
  <1>3. src \in Id /\ t \in Nat
    <2>1. src \in 0 .. t-1 /\ last \in Nat /\ t \in 1 .. last
      BY DEF IInv, TypeOK, Sound, RefsOK, Id
    <2>2. src # 0
      BY DEF executeReapply
    <2> HIDE DEF src
    <2> QED
      BY <2>1, <2>2 DEF Id
  <1>4. n \in Node /\ task[t].back.branch \in [Join -> Scope]
    BY <1>3 DEF IInv, TypeOK, Row, Back
  <1>5. task' = Appended(d, << r >>)
    BY DEF executeReapply
  <1>6. r \in Row /\ r.parent = t /\ r.back = NoBack /\ r.scopes = task[t].back.branch
    <2>1. NewRow(n, t, FlowRange(Props[n].assignee)) \in Row
      BY <1>3, <1>4, PropTyped, RosterTyped, NewRowTyped
    <2> HIDE DEF n
    <2> QED
      BY <1>4, <2>1 DEF NewRow, Row
  <1> HIDE DEF d, r
  <1>7. Fresh(H, d, r, last + 1)
    BY <1>2, <1>6, RowScopesKnown, FreshRow DEF IInv
  <1> QED
    BY <1>0, <1>1, <1>2, <1>5, <1>7, AppendKeeps DEF executeReapply

LEMMA ExecuteAndJumpToEndKeeps ==
  ASSUME NEW H, IInv(H), NEW t \in Id, NEW u \in User, ExecuteAndJumpToEnd(t, u)
  PROVE  Evolves(H, task', last') /\ IInv(H)'
  <1>1. Idle /\ Allowed(t, u) /\ mergeExecIntoInstance(t, "reject") /\ "reject" \in Submit
    BY DEF ExecuteAndJumpToEnd, Submit
  <1>2. last \in Nat /\ task[t].node \in Node /\ state' \in InstanceState /\ ends' \in Nat
    BY DEF IInv, TypeOK, Row, ExecuteAndJumpToEnd, InstanceState
  <1>3. Settles(DropOpenAt(Completed(t, u, "reject"), task[t].node))
    BY <1>1, <1>2, CompletedSource, DropOpenSettles
  <1>4. Evolves(H, task', last')
    BY <1>2, <1>3, SettledEvolves DEF ExecuteAndJumpToEnd
  <1>5. ivars' \in InstanceVars
    BY <1>1, MergedKeeps
  <1> QED
    BY <1>1, <1>2, <1>4, <1>5, CommandKeeps DEF ExecuteAndJumpToEnd

\* No way leads from a node in H back to it without a fork or a join between:
\* the parent of a row that is rolled back is then not a host.
NoWayBack(H) == \A n \in H : n \notin CanReject[n]

LEMMA rollbackToParentKeeps ==
  ASSUME NEW H, IInv(H), NoWayBack(H), NEW t \in Id, NEW u \in User, rollbackToParent(t, u)
  PROVE  Evolves(H, task', last') /\ IInv(H)'
  <1> DEFINE d == Completed(t, u, "rollback")
             p == task[t].parent
             his == task[p]
             actor == IF his.node \in FirstTaskNode THEN his.owner ELSE his.by
             r == [NewRow(his.node, his.parent, {actor}) EXCEPT
                     !.owner = his.owner, !.scopes = his.scopes,
                     !.back = his.back, !.round = his.round]
  <1>0. "rollback" \in Submit
    BY DEF Submit
  <1>1. Idle /\ Allowed(t, u) /\ mergeExecIntoInstance(t, "rollback") /\ p # 0
    BY DEF rollbackToParent
  <1>2. Settles(d) /\ SourceOK(d, last, t)
    BY <1>0, <1>1, CompletedSource
  <1>3. p \in Id /\ Handled(his)
    <2>1. RefsOK(H, task, t) /\ last \in Nat /\ t \in 1 .. last
      BY DEF IInv, TypeOK, Sound, Id
    <2>2. p \in Id /\ (Handled(his) \/ (task[t].node \in H /\ his.node = task[t].node))
      BY <1>1, <2>1 DEF RefsOK, Below, Id
    <2>3. his.node \in CanReject[task[t].node]
      BY DEF rollbackToParent
    <2> QED
      BY <2>2, <2>3 DEF NoWayBack
  <1>4. his \in Row
    BY <1>3 DEF IInv, TypeOK
  <1>5. his.back.src \in 0 .. last
    <2>1. RefsOK(H, task, p) /\ last \in Nat /\ p \in 1 .. last
      BY <1>3 DEF IInv, TypeOK, Sound, Id
    <2> QED
      BY <2>1 DEF RefsOK
  <1>6. \A j \in Join : Known(d, j, his.scopes[j]) /\ Known(d, j, his.back.branch[j])
    BY <1>2, <1>3, RowScopesKnown
  <1>7. actor \in User
    BY <1>3 DEF Handled
  <1>8. task' = Appended(d, << r >>)
    BY DEF rollbackToParent
  <1> HIDE DEF d, his, actor, p
  <1>9. /\ r \in Row /\ r.node = his.node /\ r.parent = his.parent /\ r.back = his.back
        /\ r.scopes = his.scopes
    <2>1. NewRow(his.node, his.parent, {actor}) \in Row
      BY <1>4, <1>7, NewRowTyped DEF Row
    <2> QED
      BY <1>4, <2>1 DEF NewRow, Row
  <1> HIDE DEF r
  <1>10. r.parent \in 0 .. last /\ Below(H, d, r)
    BY <1>2, <1>3, <1>9, RepeatedBelow DEF his
  <1>11. Fresh(H, d, r, last + 1)
    BY <1>5, <1>6, <1>9, <1>10 DEF Fresh
  <1> QED
    BY <1>0, <1>1, <1>2, <1>8, <1>11, AppendKeeps DEF rollbackToParent

LEMMA ExecuteAndJumpTaskKeeps ==
  ASSUME NEW H, IInv(H), NEW t \in Id, NEW u \in User, NEW target \in Node, NEW next \in Roster,
         ExecuteAndJumpTask(t, u, target, next)
  PROVE  Evolves(H, task', last') /\ IInv(H)'
  <1> DEFINE d == Completed(t, u, "jump")
             w == <<[node |-> target, parent |-> t]>>
             c == [user |-> u, next |-> next,
                   home |-> {target} \cap FirstTaskNode \cap OfType(Flow, "task")]
  <1>1. Idle /\ Allowed(t, u) /\ mergeExecIntoInstance(t, "jump") /\ "jump" \in Submit
    BY DEF ExecuteAndJumpTask, Submit
  <1>2. last \in Nat /\ t \in Nat
    BY DEF IInv, TypeOK, Id
  <1>3. Settles(d) /\ SourceOK(d, last, t)
    BY <1>1, CompletedSource
  <1>4. task' = d /\ last' = last /\ Run(w, c)
    BY DEF ExecuteAndJumpTask
  <1> HIDE DEF d
  <1>5. w \in Seq(WorkItem) /\ PendingOK(d, last, w)
    BY <1>2, <1>3 DEF WorkItem, PendingOK
  <1>6. c \in Command /\ c.user \in User
    BY DEF Command
  <1> HIDE DEF w, c
  <1>7. Evolves(H, task', last')
    BY <1>2, <1>3, <1>4, SettledEvolves
  <1>8. ivars' \in InstanceVars /\ state' \in InstanceState /\ ends' \in Nat
    BY <1>1, MergedKeeps DEF IInv, TypeOK, ExecuteAndJumpTask
  <1> QED
    BY <1>4, <1>5, <1>6, <1>7, <1>8, GoKeeps

LEMMA FirstAfterStartTyped ==
  ASSUME NEW types, NEW n \in firstAfterStart(Flow, types)
  PROVE  n \in Node
  <1>1. Flow.succ[startNode(Flow)] \in Seq(Node)
    BY StartTyped
  <1>2. PICK i \in DOMAIN Flow.succ[startNode(Flow)] : n = Flow.succ[startNode(Flow)][i]
    BY DEF firstAfterStart
  <1> QED
    BY <1>1, <1>2

LEMMA ReturnForChangeKeeps ==
  ASSUME NEW H, IInv(H), NEW t \in Id, NEW u \in User, ReturnForChange(t, u)
  PROVE  Evolves(H, task', last') /\ IInv(H)'
  <1> DEFINE d == DropOpenAt(Completed(t, u, "return"), task[t].node)
             row(n) == [NewRow(n, t, {Initiator}) EXCEPT
                          !.back = [src |-> t, branch |-> task[t].scopes]]
  <1>0. "return" \in Submit
    BY DEF Submit
  <1>1. Idle /\ Allowed(t, u) /\ mergeExecIntoInstance(t, "return")
    BY DEF ReturnForChange
  <1>2. task[t] \in Row /\ t \in Nat /\ last \in Nat /\ t \in 0 .. last
    BY DEF IInv, TypeOK, Id
  <1>3. Settles(d) /\ SourceOK(d, last, t)
    <2>1. task[t].node \in Node
      BY <1>2 DEF Row
    <2> QED
      BY <1>0, <1>1, <2>1, CompletedSource, DropOpenSettles
  <1>4. PICK n \in firstAfterStart(Flow, {"task"}) : task' = Appended(d, << row(n) >>)
    BY DEF ReturnForChange
  <1>5. n \in Node
    BY FirstAfterStartTyped
  <1>6. /\ row(n) \in Row /\ row(n).parent = t /\ row(n).scopes = NoScopes
        /\ row(n).back.src = t /\ row(n).back.branch = task[t].scopes
    <2>1. NewRow(n, t, {Initiator}) \in Row
      BY <1>2, <1>5, UserAssumption, NewRowTyped
    <2>2. [src |-> t, branch |-> task[t].scopes] \in Back
      BY <1>2 DEF Row, Back
    <2> QED
      BY <2>1, <2>2 DEF NewRow, Row
  <1> HIDE DEF d, row
  <1>7. Fresh(H, d, row(n), last + 1)
    <2>1. t \in 0 .. last /\ Below(H, d, row(n))
      BY <1>2, <1>3, <1>6 DEF Below, SourceOK
    <2> QED
      BY <1>2, <1>3, <1>6, <2>1, RowScopesKnown, NoBackKnown DEF Fresh
  <1> QED
    BY <1>0, <1>1, <1>3, <1>4, <1>7, AppendKeeps DEF ReturnForChange

LEMMA ExecuteAndJumpToFirstTaskNodeKeeps ==
  ASSUME NEW H, IInv(H), NEW t \in Id, NEW u \in User, ExecuteAndJumpToFirstTaskNode(t, u)
  PROVE  Evolves(H, task', last') /\ IInv(H)'
  <1> DEFINE d == DropOpenAt(Completed(t, u, "return"), task[t].node)
             w(n) == <<[node |-> n, parent |-> t]>>
             c(n) == [user |-> u, next |-> << >>, home |-> {n}]
  <1>1. Idle /\ Allowed(t, u) /\ mergeExecIntoInstance(t, "return") /\ "return" \in Submit
    BY DEF ExecuteAndJumpToFirstTaskNode, Submit
  <1>2. last \in Nat /\ t \in Nat /\ task[t].node \in Node
    BY DEF IInv, TypeOK, Id, Row
  <1>3. Settles(d) /\ SourceOK(d, last, t)
    BY <1>1, <1>2, CompletedSource, DropOpenSettles
  <1>4. task' = d /\ last' = last
    BY DEF ExecuteAndJumpToFirstTaskNode
  <1>5. PICK n \in firstAfterStart(Flow, {"task", "custom"}) : Run(w(n), c(n))
    BY DEF ExecuteAndJumpToFirstTaskNode
  <1> HIDE DEF d
  <1>6. n \in Node
    BY FirstAfterStartTyped
  <1>7. w(n) \in Seq(WorkItem) /\ PendingOK(d, last, w(n))
    BY <1>2, <1>3, <1>6 DEF WorkItem, PendingOK
  <1>8. c(n) \in Command /\ c(n).user \in User
    BY <1>6 DEF Command, Roster
  <1> HIDE DEF w, c
  <1>9. Evolves(H, task', last')
    BY <1>2, <1>3, <1>4, SettledEvolves
  <1>10. ivars' \in InstanceVars /\ state' \in InstanceState /\ ends' \in Nat
    BY <1>1, MergedKeeps DEF IInv, TypeOK, ExecuteAndJumpToFirstTaskNode
  <1> QED
    BY <1>4, <1>5, <1>7, <1>8, <1>9, <1>10, GoKeeps

LEMMA ReturnFailsKeeps ==
  ASSUME NEW H, IInv(H), NEW t \in Id, NEW u \in User, ReturnFails(t, u)
  PROVE  Evolves(H, task', last') /\ IInv(H)'
  <1>1. Idle /\ Allowed(t, u) /\ mergeExecIntoInstance(t, "return") /\ "return" \in Submit
    BY DEF ReturnFails, Submit
  <1>2. last \in Nat /\ task[t].node \in Node /\ state' \in InstanceState /\ ends' \in Nat
    BY DEF IInv, TypeOK, Row, ReturnFails
  <1>3. Settles(DropOpenAt(Completed(t, u, "return"), task[t].node))
    BY <1>1, <1>2, CompletedSource, DropOpenSettles
  <1>4. Evolves(H, task', last')
    BY <1>2, <1>3, SettledEvolves DEF ReturnFails
  <1>5. ivars' \in InstanceVars
    BY <1>1, MergedKeeps
  <1> QED
    BY <1>1, <1>2, <1>4, <1>5, CommandKeeps DEF ReturnFails

LEMMA RecallTaskKeeps ==
  ASSUME NEW H, IInv(H), NEW t \in Id, NEW u \in User, RecallTask(t, u)
  PROVE  Evolves(H, task', last') /\ IInv(H)'
  <1> DEFINE D == recallDescendants(t) \cap DoingIn(task)
             e == [i \in Id |-> IF i \in D THEN [task[i] EXCEPT !.st = "ABANDONED"] ELSE task[i]]
             r == NewRow(task[t].node, task[t].parent, task[t].actors)
  <1>1. TypeOK /\ Idle /\ task[t] \in Row /\ RefsOK(H, task, t) /\ last \in Nat /\ t \in 1 .. last
    BY DEF IInv, TypeOK, RecallTask, Sound, Id
  <1>2. Settles(e)
    <2>1. D \in SUBSET Id /\ \A i \in D : task[i].st = "DOING"
      BY <1>1 DEF DoingIn, TypeOK
    <2> HIDE DEF D
    <2> QED
      BY <1>1, <2>1, Unsettled, DroppedSettles
  <1>3. task' = Appended(e, << r >>) /\ last' = last + 1
    BY DEF RecallTask
  <1> HIDE DEF e
  <1>5. /\ r \in Row /\ r.node = task[t].node /\ r.parent = task[t].parent
        /\ r.back = NoBack /\ r.scopes = NoScopes
    <2>1. task[t].node \in Node /\ task[t].parent \in Nat /\ task[t].actors \in SUBSET User
      BY <1>1 DEF Row
    <2>2. r \in Row
      BY <2>1, NewRowTyped
    <2> QED
      BY <2>2 DEF NewRow
  <1> HIDE DEF r
  <1>6. r.parent \in 0 .. last /\ Below(H, e, r)
    BY <1>2, <1>5, RepeatedBelow
  <1>7. Fresh(H, e, r, last + 1)
    BY <1>1, <1>5, <1>6, NoBackKnown, FreshBelow
  <1>8. Evolves(H, task', last')
    BY <1>1, <1>2, <1>3, <1>7, AppendOneEvolves
  <1>9. state' \in InstanceState /\ ivars' \in InstanceVars /\ ends' \in Nat
    BY DEF IInv, TypeOK, RecallTask
  <1> QED
    BY <1>1, <1>8, <1>9, CommandKeeps DEF RecallTask

LEMMA withdrawKeeps ==
  ASSUME NEW H, IInv(H), NEW u \in User, withdraw(u)
  PROVE  Evolves(H, task', last') /\ IInv(H)'
  <1> DEFINE D == DoingIn(task)
             e == [i \in Id |-> IF i \in D THEN [task[i] EXCEPT !.st = "WITHDRAW"] ELSE task[i]]
  <1>1. TypeOK /\ Idle /\ last \in Nat
    BY DEF IInv, TypeOK, withdraw
  <1>2. Settles(e)
    <2>1. D \in SUBSET Id /\ \A i \in D : task[i].st = "DOING"
      BY <1>1 DEF DoingIn, TypeOK
    <2> HIDE DEF D
    <2> QED
      BY <1>1, <2>1, Unsettled, DroppedSettles
  <1>3. task' = e /\ last' = last
    BY DEF withdraw
  <1> HIDE DEF e
  <1>4. Evolves(H, task', last')
    BY <1>1, <1>2, <1>3, SettledEvolves
  <1>5. state' \in InstanceState /\ ivars' \in InstanceVars /\ ends' \in Nat
    BY DEF IInv, TypeOK, withdraw, InstanceState
  <1> QED
    BY <1>1, <1>4, <1>5, CommandKeeps DEF withdraw

-----------------------------------------------------------------------------
(* The invariant and what follows from it. *)

LEMMA StutterKeeps ==
  ASSUME NEW H, IInv(H), UNCHANGED vars
  PROVE  Evolves(H, task', last') /\ IInv(H)'
  <1>1. Evolves(H, task', last')
    BY SameTable DEF vars
  <1>2. PendingOK(task', last', work') /\ OperatedBy(work', cmd')
    BY DEF IInv, vars
  <1>3. /\ state' \in InstanceState /\ ivars' \in InstanceVars /\ ends' \in Nat
        /\ work' \in Seq(WorkItem) /\ cmd' \in Command
    BY DEF IInv, TypeOK, vars
  <1> QED
    BY <1>1, <1>2, <1>3, SavedKept, EvolvesKeeps DEF vars

LEMMA ExecuteKeeps ==
  ASSUME NEW H, IInv(H), NEW t \in Id, NEW u \in User, Execute(t, u)
  PROVE  Evolves(H, task', last') /\ IInv(H)'
  <1>1. \A submit \in Submits : submit \in Submit
    BY InputAssumption DEF Submit
  <1>2. \A roster \in NextOps \cup SignOps : roster \in Roster
    BY InputAssumption
  <1>3. CASE executeReapply(t, u)
    BY <1>3, executeReapplyKeeps
  <1>4. ASSUME NEW submit \in Submits, ExecuteWait(t, u, submit)
        PROVE  Evolves(H, task', last') /\ IInv(H)'
    BY <1>1, <1>4, ExecuteWaitKeeps
  <1>5. ASSUME NEW submit \in Submits, ExecuteNextMember(t, u, submit)
        PROVE  Evolves(H, task', last') /\ IInv(H)'
    BY <1>1, <1>5, ExecuteNextMemberKeeps
  <1>6. ASSUME NEW submit \in Submits, NEW ops \in SignOps, ExecuteAddSign(t, u, submit, ops)
        PROVE  Evolves(H, task', last') /\ IInv(H)'
    BY <1>1, <1>2, <1>6, ExecuteAddSignKeeps
  <1>7. ASSUME NEW submit \in Submits, NEW next \in NextOps, ExecuteAdvance(t, u, submit, next)
        PROVE  Evolves(H, task', last') /\ IInv(H)'
    BY <1>1, <1>2, <1>7, ExecuteAdvanceKeeps
  <1> QED
    BY <1>3, <1>4, <1>5, <1>6, <1>7 DEF Execute

LEMMA RowCommandKeeps ==
  ASSUME NEW H, IInv(H), NoWayBack(H), NEW t \in Id, NEW u \in User, RowCommand(t, u)
  PROVE  Evolves(H, task', last') /\ IInv(H)'
  <1>1. CASE Execute(t, u)
    BY <1>1, ExecuteKeeps
  <1>2. CASE ExecuteAndJumpToEnd(t, u)
    BY <1>2, ExecuteAndJumpToEndKeeps
  <1>3. CASE rollbackToParent(t, u)
    BY <1>3, rollbackToParentKeeps
  <1>4. ASSUME NEW target \in JumpTargets, NEW next \in NextOps,
               ExecuteAndJumpTask(t, u, target, next)
        PROVE  Evolves(H, task', last') /\ IInv(H)'
    <2>1. target \in Node /\ next \in Roster
      BY InputAssumption
    <2> QED
      BY <1>4, <2>1, ExecuteAndJumpTaskKeeps
  <1>5. CASE Return(t, u)
    BY <1>5, ReturnForChangeKeeps, ExecuteAndJumpToFirstTaskNodeKeeps, ReturnFailsKeeps DEF Return
  <1>6. CASE RecallTask(t, u)
    BY <1>6, RecallTaskKeeps
  <1> QED
    BY <1>1, <1>2, <1>3, <1>4, <1>5, <1>6 DEF RowCommand

LEMMA StepKeeps ==
  ASSUME NEW H, IInv(H), Step, ~ abort
  PROVE  Evolves(H, task', last') /\ IInv(H)'
  BY createTaskKeeps, execCustomNodeKeeps, evaluateDecisionKeeps, executeForkKeeps, joinKeeps,
     executeEndKeeps, executeUnknownKeeps DEF Step

\* Every step but the end of a failed command evolves the table.
LEMMA NextEvolves ==
  ASSUME NEW H, IInv(H), NoWayBack(H), [Next]_vars, ~ abort
  PROVE  Evolves(H, task', last') /\ IInv(H)'
  BY StutterKeeps, StepKeeps, StartProcessInstanceKeeps, RowCommandKeeps, withdrawKeeps DEF Next

LEMMA InitIInv ==
  ASSUME NEW H, Init
  PROVE  IInv(H)
  <1>1. Id = {} /\ task \in [Id -> Row]
    BY DEF Init, Id
  <1>2. NoCmd \in Command /\ << >> \in Seq(WorkItem)
    BY DEF NoCmd, Command, Roster
  <1>3. NoSnapshot.ivars \in InstanceVars
    BY NoneTyped DEF NoSnapshot, InstanceVars, Submit
  <1>4. SavedTyped(saved) /\ Sound(H, saved.task, saved.last)
    <2>1. << >> \in [1 .. 0 -> Row]
      OBVIOUS
    <2> QED
      BY <2>1, NoneTyped
      DEF Init, SavedTyped, NoSnapshot, InstanceState, InstanceVars, Submit, Sound
  <1>5. TypeOK
    BY <1>1, <1>2, <1>3, <1>4 DEF Init, TypeOK, InstanceState, SavedTyped
  <1>6. Sound(H, task, last) /\ PendingOK(task, last, work) /\ OperatedBy(work, cmd)
    BY <1>1 DEF Init, Sound, PendingOK, OperatedBy, Id
  <1> QED
    BY <1>4, <1>5, <1>6 DEF IInv

\* The engine keeps the invariant, whatever commands callers send it.
THEOREM Inductive == Spec => []IInv({})
  <1>1. Init => IInv({})
    BY InitIInv
  <1>2. NoWayBack({})
    BY DEF NoWayBack
  <1>3. IInv({}) /\ [Next]_vars => IInv({})'
    BY <1>2, NextEvolves, abortKeeps
  <1> QED
    BY <1>1, <1>3, PTL DEF Spec

\* Every variable of the engine keeps its type, for every definition that the
\* engine accepts: no command leaves a row, the walk or the instance malformed.
THEOREM TypeCorrect == Spec => []TypeOK
  <1>1. IInv({}) => TypeOK
    BY DEF IInv
  <1> QED
    BY <1>1, Inductive, PTL

\* The rows form a lineage over completed rows (ParentID of createTask,
\* rollbackToParent and createTaskAtNode): what a rollback and a recall follow.
THEOREM Lineage == Spec => []LineageSound
  <1>1. IInv({}) => LineageSound
    <2> SUFFICES ASSUME IInv({}) PROVE LineageSound
      OBVIOUS
    <2>1. ASSUME NEW i \in Id, task[i].parent # 0
          PROVE  task[i].parent < i /\ task[task[i].parent].st = "DONE"
      <3>1. RefsOK({}, task, i) /\ i \in Nat
        BY DEF IInv, TypeOK, Sound, Id
      <3> QED
        BY <2>1, <3>1 DEF RefsOK, Below, Handled
    <2>2. ASSUME NEW k \in DOMAIN work, work[k].parent # 0
          PROVE  work[k].parent \in Id /\ task[work[k].parent].st = "DONE"
      <3>1. k \in 1 .. Len(work) /\ last \in Nat
        BY DEF IInv, TypeOK
      <3>2. SourceOK(task, last, work[k].parent)
        BY <3>1 DEF IInv, PendingOK
      <3> QED
        BY <2>2, <3>1, <3>2 DEF SourceOK, Handled, Id
    <2> QED
      BY <2>1, <2>2 DEF LineageSound
  <1> QED
    BY <1>1, Inductive, PTL

\* The branch scopes of the rows (buildScopes, attachBranchCtx, reapplyOf) are
\* rooted in rows of their branch, by which mergeReady counts a round.
THEOREM Scopes == Spec => []ScopeSound
  <1>1. IInv({}) => ScopeSound
    <2> SUFFICES ASSUME IInv({}), NEW i \in Id, NEW j \in Join,
                        NEW s \in {task[i].scopes[j], task[i].back.branch[j]}, s.root # 0
                 PROVE  s.round < s.root /\ s.root <= i /\ task[s.root].scopes[j] = s
      BY DEF ScopeSound
    <2>1. ScopesOK(task, i)
      BY DEF IInv, Sound, Id
    <2> QED
      BY <2>1 DEF ScopesOK, ScopeOK
  <1> QED
    BY <1>1, Inductive, PTL

\* No command changes the outcome of a settled row, its place in the lineage
\* or its scopes, unless it is rolled back.
THEOREM Settled == Spec => SettledRowsStay
  <1>1. IInv({}) /\ [Next]_vars => abort \/ RowsStay
    <2> SUFFICES ASSUME IInv({}), [Next]_vars, ~ abort PROVE RowsStay
      OBVIOUS
    <2>1. Evolves({}, task', last')
      BY NextEvolves DEF NoWayBack
    <2>2. \A i \in Id \ DoingIn(task) : task[i].st # "DOING"
      BY DEF IInv, TypeOK, DoingIn
    <2> QED
      BY <2>1, <2>2 DEF Evolves, RowsStay
  <1> QED
    BY <1>1, Inductive, PTL DEF Spec, SettledRowsStay

-----------------------------------------------------------------------------
(* The rows below row t: the least set that has every row whose parent is t  *)
(* or in the set.                                                            *)

ClosedBelow(t, S) == \A i \in Id : task[i].parent \in S \cup {t} => i \in S
Heirs(t) == { x \in Id : \A S \in SUBSET Id : ClosedBelow(t, S) => x \in S }

LEMMA HeirsFixed ==
  ASSUME NEW t \in Id, NEW i \in Id
  PROVE  i \in Heirs(t) <=> task[i].parent \in Heirs(t) \cup {t}
  <1> DEFINE C == Heirs(t)
  <1>1. ASSUME NEW k \in Id, task[k].parent \in C \cup {t} PROVE k \in C
    <2> SUFFICES ASSUME NEW S \in SUBSET Id, ClosedBelow(t, S) PROVE k \in S
      BY DEF Heirs
    <2>1. C \subseteq S
      BY DEF Heirs
    <2> QED
      BY <1>1, <2>1 DEF ClosedBelow
  <1>2. ASSUME i \in C, task[i].parent \notin C \cup {t} PROVE FALSE
    <2>1. C \in SUBSET Id
      BY DEF Heirs
    <2> HIDE DEF C
    <2>2. ClosedBelow(t, C \ {i})
      BY <1>1, <1>2 DEF ClosedBelow
    <2>3. i \in C \ {i}
      BY <1>2, <2>1, <2>2 DEF C, Heirs
    <2> QED
      BY <2>3
  <1> QED
    BY <1>1, <1>2

\* The recursion of recallDescendants.
Sweeps(t, f) ==
  f = [k \in 0 .. last |->
         IF k = 0 THEN {} ELSE f[k-1] \cup { i \in {k} : task[i].parent \in f[k-1] \cup {t} }]

LEMMA HeirsSweep ==
  ASSUME NEW H, IInv(H), NEW t \in Id, NEW k \in Id
  PROVE  Heirs(t) \cap (1 .. k) =
           (Heirs(t) \cap (1 .. k-1)) \cup
             { i \in {k} : task[i].parent \in (Heirs(t) \cap (1 .. k-1)) \cup {t} }
  <1>1. k \in Nat /\ k >= 1 /\ task[k].parent \in 0 .. k-1 /\ \A x \in Heirs(t) : x \in Nat /\ x >= 1
    BY DEF Heirs, IInv, TypeOK, Sound, RefsOK, Id
  <1>2. k \in Heirs(t) <=> task[k].parent \in (Heirs(t) \cap (1 .. k-1)) \cup {t}
    <2>1. k \in Heirs(t) <=> task[k].parent \in Heirs(t) \cup {t}
      BY HeirsFixed
    <2>2. task[k].parent \in Heirs(t) => task[k].parent \in 1 .. k-1
      BY <1>1
    <2> QED
      BY <2>1, <2>2
  <1>3. 1 .. k = (1 .. k-1) \cup {k}
    BY <1>1
  <1> QED
    BY <1>2, <1>3

LEMMA SweepsAre ==
  ASSUME NEW H, IInv(H), NEW t \in Id, NEW f, Sweeps(t, f)
  PROVE  \A k \in 0 .. last : f[k] = Heirs(t) \cap (1 .. k)
  <1>0. last \in Nat
    BY DEF IInv, TypeOK
  <1> DEFINE Bad == { k \in 0 .. last : f[k] # Heirs(t) \cap (1 .. k) }
  <1> SUFFICES ASSUME Bad # {} PROVE FALSE
    OBVIOUS
  <1>1. Bad \subseteq Nat
    BY <1>0
  <1>2. PICK b \in Bad : \A a \in Bad : <<a, b>> \notin OpToRel(<, Nat)
    BY <1>1, WFMin, NatLessThanWellFounded
  <1>3. b \in 0 .. last /\ b \in Nat
    BY <1>0
  <1>4. f[b] = IF b = 0 THEN {} ELSE f[b-1] \cup { i \in {b} : task[i].parent \in f[b-1] \cup {t} }
    BY <1>3 DEF Sweeps
  <1>5. CASE b = 0
    <2>1. f[b] = Heirs(t) \cap (1 .. b)
      BY <1>4, <1>5
    <2> QED
      BY <2>1
  <1>6. CASE b # 0
    <2>1. b \in Id /\ b-1 \in 0 .. last /\ b-1 \in Nat /\ b-1 < b
      BY <1>0, <1>3, <1>6 DEF Id
    <2>2. b-1 \notin Bad
      BY <1>2, <1>3, <2>1 DEF OpToRel
    <2>3. f[b-1] = Heirs(t) \cap (1 .. b-1)
      BY <2>1, <2>2
    <2>4. f[b] = Heirs(t) \cap (1 .. b)
      BY <1>4, <1>6, <2>1, <2>3, HeirsSweep
    <2> QED
      BY <2>4
  <1> QED
    BY <1>5, <1>6

LEMMA RecallHeirs ==
  ASSUME NEW H, IInv(H), NEW t \in Id
  PROVE  recallDescendants(t) = Heirs(t)
  <1>0. last \in Nat
    BY DEF IInv, TypeOK
  <1> DEFINE g == [k \in 0 .. last |-> Heirs(t) \cap (1 .. k)]
  <1>1. Sweeps(t, g)
    <2> SUFFICES ASSUME NEW k \in 0 .. last
                 PROVE  Heirs(t) \cap (1 .. k) =
                          IF k = 0 THEN {}
                          ELSE g[k-1] \cup { i \in {k} : task[i].parent \in g[k-1] \cup {t} }
      BY DEF Sweeps
    <2>1. CASE k = 0
      BY <2>1
    <2>2. CASE k # 0
      <3>1. k \in Id /\ k-1 \in 0 .. last
        BY <1>0, <2>2 DEF Id
      <3>2. g[k-1] = Heirs(t) \cap (1 .. k-1)
        BY <3>1
      <3> QED
        BY <2>2, <3>1, <3>2, HeirsSweep
    <2> QED
      BY <2>1, <2>2
  <1> HIDE DEF g
  <1> DEFINE f == CHOOSE h : Sweeps(t, h)
  <1>2. Sweeps(t, f)
    BY <1>1
  <1>3. recallDescendants(t) = f[last]
    BY DEF recallDescendants, Sweeps
  <1> HIDE DEF f
  <1>4. f[last] = Heirs(t) \cap (1 .. last)
    BY <1>0, <1>2, SweepsAre
  <1> QED
    BY <1>3, <1>4 DEF Heirs, Id

-----------------------------------------------------------------------------
(* The nodes a token meets. *)

LEMMA SuccessorTyped ==
  ASSUME NEW n \in Node, NEW x \in outgoingTargets(Flow, n)
  PROVE  x \in Node
  <1>1. Flow.succ[n] \in Seq(Node)
    BY PropTyped
  <1>2. PICK i \in DOMAIN Flow.succ[n] : x = Flow.succ[n][i]
    BY DEF outgoingTargets, FlowRange
  <1> QED
    BY <1>1, <1>2

LEMMA MetHas ==
  ASSUME NEW S, NEW x \in Node, x \in S
  PROVE  x \in Met(S)
  BY DEF Met

LEMMA MetGoes ==
  ASSUME NEW S, NEW m \in Met(S), NEW x \in outgoingTargets(Flow, m), Flow.type[m] # "task"
  PROVE  x \in Met(S)
  <1>1. m \in Node /\ x \in Node
    BY SuccessorTyped DEF Met
  <1>2. ASSUME NEW C \in SUBSET Node, S \subseteq C, Closed(C)
        PROVE  x \in C
    <2>1. m \in C
      BY <1>2 DEF Met
    <2> QED
      BY <1>2, <2>1 DEF Closed
  <1> QED
    BY <1>1, <1>2 DEF Met

-----------------------------------------------------------------------------
(* A recall undoes what followed the row: the inductive invariant, of the   *)
(* rows 1 .. n of a table d and the nodes w still to be executed.            *)

Dropped == {"ABANDONED", "WITHDRAW"}
Older(d, k) == { i \in 1 .. k-1 : d[i].node = d[k].node /\ d[i].parent = d[k].parent }

\* Row i was completed, and nothing comes of it: what is below it was dropped,
\* and no token comes from it.
Void(d, n, i) == d[i].st = "DONE" /\ \A x \in 1 .. n : d[x].parent = i => d[x].st \in Dropped
Unheld(i, w) == \A a \in 1 .. Len(w) : w[a].parent # i

\* An open row at a node with allowRecall that no rollback has made.
Recalled(r) == r.st = "DOING" /\ r.node \in RecallNode /\ r.owner = NoUser
Replaces(d, n, w, k) ==
  Recalled(d[k]) /\ Older(d, k) # {} => \E i \in Older(d, k) : Void(d, n, i) /\ Unheld(i, w)

\* What a user can be asked to do is a task.
Asks(r) == r.st = "DOING" \/ Handled(r) => Flow.type[r.node] = "task"

Undone(d, n, w) == \A k \in 1 .. n : Replaces(d, n, w, k) /\ Asks(d[k])

\* Two tokens from the same row do not lead to the same task, nor one to a task
\* that has its row.
Leads(item, x) == x \in Met({item.node})
Parted(d, n, w) ==
  \A a \in 1 .. Len(w), x \in RecallNode : Leads(w[a], x) =>
    /\ \A i \in 1 .. n : d[i].node = x => d[i].parent # w[a].parent
    /\ \A b \in 1 .. Len(w) : Leads(w[b], x) => a = b

\* Before the start there is nothing.
Unstarted(s, n, w) == s = "NONE" => n = 0 /\ w = << >>

RInv ==
  /\ IInv({})
  /\ Undone(task, last, work) /\ Parted(task, last, work) /\ Unstarted(state, last, work)
  /\ Undone(saved.task, saved.last, << >>) /\ Unstarted(saved.state, saved.last, << >>)

\* An open row has no row below it.
LEMMA OpenIsLeaf ==
  ASSUME IInv({}), NEW t \in Id, task[t].st = "DOING", NEW i \in Id
  PROVE  task[i].parent # t
  <1>1. RefsOK({}, task, i)
    BY DEF IInv, Sound, Id
  <1> QED
    BY <1>1 DEF RefsOK, Below, Handled, Id

\* Rows that stay open are left alone.
Calm(e) == \A i \in Id : e[i].st = "DOING" => e[i] = task[i]

\* Where a new row's parent may be taken from, and that of a pending node.
Source(p) ==
  \/ p = 0
  \/ p \in Id /\ task[p].st = "DOING"
  \/ \E a \in 1 .. Len(work) : work[a].parent = p
  \/ \E y \in Id : task[y].parent = p /\ task[y].st \notin Dropped

LEMMA SourceIsNotVoid ==
  ASSUME NEW i \in Id, Void(task, last, i), Unheld(i, work), NEW p, Source(p)
  PROVE  p # i
  BY DEF Source, Void, Unheld, Id

LEMMA TableUndone ==
  ASSUME IInv({}), Undone(task, last, work), Evolves({}, task', last'), Calm(task'),
         \A x \in last+1 .. last' : Source(task'[x].parent) /\ Asks(task'[x])
                                    /\ Replaces(task', last', work', x),
         \A a \in 1 .. Len(work') : Source(work'[a].parent)
  PROVE  Undone(task', last', work')
  <1>0. /\ last \in Nat /\ last' \in Nat /\ last <= last'
        /\ task \in [Id -> Row] /\ task' \in [1 .. last' -> Row]
    BY DEF Evolves, IInv, TypeOK
  <1>1. \A i \in Id : /\ task[i].st # "DOING" => task'[i] = task[i]
                      /\ task'[i].node = task[i].node
                      /\ task'[i].parent = task[i].parent
                      /\ task'[i].st = "DOING" => task'[i] = task[i]
    BY DEF Evolves, Calm
  <1>2. ASSUME NEW i \in Id, Void(task, last, i), Unheld(i, work)
        PROVE  Void(task', last', i) /\ Unheld(i, work')
    <2>1. task'[i].st = "DONE"
      BY <1>1, <1>2 DEF Void
    <2>2. ASSUME NEW x \in 1 .. last', task'[x].parent = i PROVE task'[x].st \in Dropped
      <3>1. CASE x \in Id
        BY <1>1, <1>2, <2>2, <3>1 DEF Void, Id, Dropped
      <3>2. CASE x \notin Id
        <4>1. x \in last+1 .. last'
          BY <1>0, <3>2 DEF Id
        <4> QED
          BY <1>2, <2>2, <4>1, SourceIsNotVoid
      <3> QED
        BY <3>1, <3>2
    <2>3. Unheld(i, work')
      BY <1>2, SourceIsNotVoid DEF Unheld
    <2> QED
      BY <2>1, <2>2, <2>3 DEF Void
  <1>3. ASSUME NEW k \in Id PROVE Replaces(task', last', work', k)
    <2> SUFFICES ASSUME Recalled(task'[k]), Older(task', k) # {}
                 PROVE  \E i \in Older(task', k) : Void(task', last', i) /\ Unheld(i, work')
      BY DEF Replaces
    <2>1. task'[k] = task[k]
      BY <1>1 DEF Recalled
    <2>2. Older(task', k) = Older(task, k) /\ Older(task, k) \in SUBSET Id
      BY <1>0, <1>1 DEF Older, Id
    <2>3. Replaces(task, last, work, k)
      BY DEF Undone, Id
    <2>4. PICK i \in Older(task, k) : Void(task, last, i) /\ Unheld(i, work)
      BY <2>1, <2>2, <2>3 DEF Replaces
    <2> QED
      BY <1>2, <2>2, <2>4
  <1>4. ASSUME NEW k \in Id PROVE Asks(task'[k])
    <2>1. Asks(task[k])
      BY DEF Undone, Id
    <2>2. task[k].st = "DOING" \/ task'[k] = task[k]
      BY <1>1
    <2> QED
      BY <1>1, <2>1, <2>2 DEF Asks
  <1>5. \A k \in 1 .. last' : k \in Id \/ k \in last+1 .. last'
    BY <1>0 DEF Id
  <1> QED
    BY <1>3, <1>4, <1>5 DEF Undone

\* What a command that fails would go back to.
Restores(s) == Undone(s.task, s.last, << >>) /\ Unstarted(s.state, s.last, << >>)

LEMMA SnapshotRestores ==
  /\ Restores(NoSnapshot)
  /\ Undone(task, last, work) /\ Unstarted(state, last, work) /\ Idle => Restores(Snapshot)
  BY DEF Restores, NoSnapshot, Snapshot, Undone, Unstarted, Idle

LEMMA RunRestores ==
  ASSUME Undone(task, last, work), Unstarted(state, last, work), Restores(saved),
         NEW w, NEW c, Run(w, c)
  PROVE  Restores(saved') /\ work' = w
  BY SnapshotRestores DEF Run

-----------------------------------------------------------------------------
(* Where tokens lead. *)

LEMMA StartIsStart == Flow.type[startNode(Flow)] = "start"
  <1> DEFINE S == OfType(Flow, "start")
             P == { Position(Flow, n) : n \in S }
  <1>1. S # {} /\ S \subseteq Node /\ Flow.nodes \in Seq(Node)
    BY FlowAssumption DEF OfType, Node
  <1>2. \A n \in S : Position(Flow, n) \in Nat
    <2> SUFFICES ASSUME NEW n \in S PROVE Position(Flow, n) \in Nat
      OBVIOUS
    <2>1. \E i \in DOMAIN Flow.nodes : Flow.nodes[i] = n
      <3>1. n \in Node
        BY <1>1
      <3> QED
        BY <3>1 DEF Node, Nodes, FlowRange
    <2>2. Position(Flow, n) \in DOMAIN Flow.nodes
      BY <2>1 DEF Position
    <2> QED
      BY <1>1, <2>2
  <1>3. P \subseteq Nat /\ P # {}
    BY <1>1, <1>2
  <1>4. PICK p \in P : \A q \in P : <<q, p>> \notin OpToRel(<, Nat)
    BY <1>3, WFMin, NatLessThanWellFounded
  <1>5. \E n \in S : \A m \in S : Position(Flow, n) <= Position(Flow, m)
    <2>1. PICK n \in S : p = Position(Flow, n)
      OBVIOUS
    <2>2. ASSUME NEW m \in S PROVE Position(Flow, n) <= Position(Flow, m)
      <3>1. Position(Flow, m) \in P /\ p \in Nat /\ Position(Flow, m) \in Nat
        BY <1>2, <2>1
      <3>2. ~ (Position(Flow, m) < p)
        BY <1>4, <3>1 DEF OpToRel
      <3> HIDE DEF P
      <3> QED
        BY <2>1, <3>1, <3>2
    <2> QED
      BY <2>2
  <1>6. startNode(Flow) \in S
    BY <1>5 DEF startNode, FirstIn
  <1> QED
    BY <1>6 DEF OfType

\* A token at node n goes on to one of its edges, and from different edges to
\* different tasks.
LEMMA ChildrenLead ==
  ASSUME RecallsApart, NEW n \in Node, Flow.type[n] # "decision", NEW p \in Nat
  PROVE  LET w == Children(n, p)
         IN  \A a \in 1 .. Len(w) :
               /\ w[a].parent = p /\ w[a].node \in outgoingTargets(Flow, n)
               /\ \A b \in 1 .. Len(w), x \in RecallNode : Leads(w[a], x) /\ Leads(w[b], x) => a = b
  <1>1. Flow.succ[n] \in Seq(Node) /\ Len(Flow.succ[n]) \in Nat
        /\ DOMAIN Flow.succ[n] = 1 .. Len(Flow.succ[n])
    BY PropTyped
  <1> DEFINE w == Children(n, p)
  <1>2. /\ Len(w) = Len(Flow.succ[n])
        /\ \A k \in 1 .. Len(Flow.succ[n]) : w[k].parent = p /\ w[k].node = Flow.succ[n][k]
    BY <1>1 DEF Children
  <1> HIDE DEF w
  <1>3. n \in Node \ OfType(Flow, "decision")
    BY DEF OfType
  <1>4. \A a, b \in DOMAIN Flow.succ[n], x \in RecallNode :
          x \in Met({Flow.succ[n][a]}) \cap Met({Flow.succ[n][b]}) => a = b
    BY <1>3 DEF RecallsApart
  <1>5. \A k \in DOMAIN Flow.succ[n] : Flow.succ[n][k] \in outgoingTargets(Flow, n)
    BY DEF outgoingTargets, FlowRange
  <1>6. \A a \in 1 .. Len(w) : w[a].parent = p /\ w[a].node \in outgoingTargets(Flow, n)
    BY <1>1, <1>2, <1>5
  <1>7. ASSUME NEW a \in 1 .. Len(w), NEW b \in 1 .. Len(w), NEW x \in RecallNode,
               Leads(w[a], x), Leads(w[b], x)
        PROVE  a = b
    <2>1. /\ a \in DOMAIN Flow.succ[n] /\ b \in DOMAIN Flow.succ[n]
          /\ w[a].node = Flow.succ[n][a] /\ w[b].node = Flow.succ[n][b]
      BY <1>1, <1>2
    <2>2. x \in Met({Flow.succ[n][a]}) /\ x \in Met({Flow.succ[n][b]})
      BY <1>7, <2>1 DEF Leads
    <2> QED
      BY <1>4, <2>1, <2>2
  <1> QED
    BY <1>6, <1>7 DEF w

\* A command puts tokens on the way from row p, below which there is nothing.
LEMMA PartedStart ==
  ASSUME NEW d, NEW n, NEW w, NEW p,
         \A i \in 1 .. n : d[i].parent # p,
         \A a \in 1 .. Len(w) :
           /\ w[a].parent = p
           /\ \A b \in 1 .. Len(w), x \in RecallNode : Leads(w[a], x) /\ Leads(w[b], x) => a = b
  PROVE  Parted(d, n, w)
  BY DEF Parted

LEMMA LeadsOn ==
  ASSUME NEW item, NEW m \in Node, item.node \in outgoingTargets(Flow, m), Flow.type[m] # "task",
         NEW x, Leads(item, x)
  PROVE  x \in Met({m})
  <1>1. item.node \in Met({m})
    BY MetHas, MetGoes
  <1> SUFFICES ASSUME NEW C \in SUBSET Node, {m} \subseteq C, Closed(C) PROVE x \in C
    BY DEF Met, Leads
  <1>2. item.node \in C
    BY <1>1 DEF Met
  <1> QED
    BY <1>2 DEF Met, Leads

\* The walk replaces its first token by the tokens w.
LEMMA PartedWalk ==
  ASSUME IInv({}), ~ Idle, Parted(task, last, work), Evolves({}, task', last'),
         NEW w \in Seq(WorkItem), work' = w \o Tail(work),
         \A a \in 1 .. Len(w) :
           /\ w[a].parent = Current.parent
           /\ \A x \in RecallNode : Leads(w[a], x) => Leads(Current, x)
           /\ \A b \in 1 .. Len(w), x \in RecallNode : Leads(w[a], x) /\ Leads(w[b], x) => a = b,
         \A x \in last+1 .. last' : task'[x].node \in RecallNode =>
           w = << >> /\ task'[x].node = Current.node
  PROVE  Parted(task', last', work')
  <1>0. /\ last \in Nat /\ last' \in Nat /\ last <= last'
        /\ work \in Seq(WorkItem) /\ work # << >> /\ Current.node \in Node
        /\ Tail(work) \in Seq(WorkItem)
    BY CurrentTyped DEF Evolves, IInv, TypeOK, Idle
  <1>1. /\ Len(work) \in Nat \ {0} /\ Current = work[1]
        /\ Len(Tail(work)) = Len(work) - 1
        /\ \A k \in 1 .. Len(work) - 1 : Tail(work)[k] = work[k+1]
    BY <1>0 DEF Current
  <1> DEFINE l == Len(w)
             From(a) == IF a <= l THEN 1 ELSE a - l + 1
  <1>2. /\ l \in Nat /\ Len(work') = l + Len(work) - 1
        /\ \A a \in 1 .. l : work'[a] = w[a]
        /\ \A a \in l+1 .. Len(work') : work'[a] = work[a - l + 1] /\ a - l + 1 \in 2 .. Len(work)
    <2>1. /\ Len(w \o Tail(work)) = Len(w) + Len(Tail(work))
          /\ \A i \in 1 .. Len(w) + Len(Tail(work)) :
               (w \o Tail(work))[i] = IF i <= Len(w) THEN w[i] ELSE Tail(work)[i - Len(w)]
      BY <1>0, ConcatProperties
    <2>2. l \in Nat
      OBVIOUS
    <2>3. Len(work') = l + Len(work) - 1
      BY <1>1, <2>1, <2>2
    <2>4. \A a \in 1 .. l : work'[a] = w[a]
      BY <1>1, <2>1, <2>2
    <2>5. ASSUME NEW a \in l+1 .. Len(work')
          PROVE  work'[a] = work[a - l + 1] /\ a - l + 1 \in 2 .. Len(work)
      <3>1. a - l \in 1 .. Len(work) - 1 /\ a \in 1 .. Len(w) + Len(Tail(work)) /\ ~ (a <= l)
        BY <1>1, <2>2, <2>3
      <3>2. work'[a] = Tail(work)[a - l]
        BY <2>1, <3>1
      <3>3. (a - l) + 1 = a - l + 1
        BY <2>2
      <3> QED
        BY <1>1, <2>2, <3>1, <3>2, <3>3
    <2> QED
      BY <2>2, <2>3, <2>4, <2>5
  <1>3. ASSUME NEW a \in 1 .. Len(work')
        PROVE  /\ From(a) \in 1 .. Len(work)
               /\ work'[a].parent = work[From(a)].parent
               /\ \A x \in RecallNode : Leads(work'[a], x) => Leads(work[From(a)], x)
    <2>1. CASE a <= l
      BY <1>1, <1>2, <2>1
    <2>2. CASE ~ (a <= l)
      BY <1>1, <1>2, <2>2
    <2> QED
      BY <2>1, <2>2
  <1>4. ASSUME NEW a \in 1 .. Len(work'), NEW b \in 1 .. Len(work'), NEW x \in RecallNode,
               Leads(work'[a], x), Leads(work'[b], x)
        PROVE  a = b
    <2>1. Leads(work[From(a)], x) /\ Leads(work[From(b)], x)
          /\ From(a) \in 1 .. Len(work) /\ From(b) \in 1 .. Len(work)
      BY <1>3, <1>4
    <2>2. From(a) = From(b)
      BY <2>1 DEF Parted
    <2>3. CASE a <= l /\ b <= l
      <3>1. a \in 1 .. l /\ b \in 1 .. l
        BY <1>2, <2>3
      <3> QED
        BY <1>2, <1>4, <3>1
    <2>4. CASE ~ (a <= l) /\ ~ (b <= l)
      BY <1>2, <2>2, <2>4
    <2>5. CASE ~ (a <= l) /\ b <= l
      BY <1>2, <2>2, <2>5
    <2>6. CASE a <= l /\ ~ (b <= l)
      BY <1>2, <2>2, <2>6
    <2> QED
      BY <2>3, <2>4, <2>5, <2>6
  <1>5. ASSUME NEW a \in 1 .. Len(work'), NEW x \in RecallNode, Leads(work'[a], x),
               NEW i \in 1 .. last', task'[i].node = x
        PROVE  task'[i].parent # work'[a].parent
    <2>1. From(a) \in 1 .. Len(work) /\ work'[a].parent = work[From(a)].parent
          /\ Leads(work[From(a)], x)
      BY <1>3, <1>5
    <2>2. CASE i \in Id
      <3>1. task'[i].node = task[i].node /\ task'[i].parent = task[i].parent
        BY <2>2 DEF Evolves
      <3>2. task[i].parent # work[From(a)].parent
        <4> HIDE DEF From
        <4>1. i \in 1 .. last /\ task[i].node = x
          BY <1>5, <2>2, <3>1 DEF Id
        <4> QED
          BY <2>1, <4>1 DEF Parted
      <3> QED
        BY <2>1, <3>1, <3>2
    <2>3. CASE i \notin Id
      <3>1. i \in last+1 .. last'
        BY <1>0, <2>3 DEF Id
      <3>2. w = << >> /\ x = Current.node
        BY <1>5, <3>1
      <3>3. Leads(Current, x)
        BY <1>0, <3>2, MetHas DEF Leads
      <3>4. l = 0 /\ From(a) # 1
        <4>1. l = 0
          BY <3>2
        <4> QED
          BY <1>2, <4>1
      <3>5. FALSE
        BY <1>1, <2>1, <3>3, <3>4 DEF Parted
      <3> QED
        BY <3>5
    <2> QED
      BY <2>2, <2>3
  <1> QED
    BY <1>4, <1>5, ZenonT(40) DEF Parted

-----------------------------------------------------------------------------
(* What is left to show of one action. *)

NewRows == \A x \in last+1 .. last' : Source(task'[x].parent) /\ Asks(task'[x])
                                      /\ Replaces(task', last', work', x)

LEMMA RInvNext ==
  ASSUME IInv({})', Undone(task', last', work'), Parted(task', last', work'),
         Unstarted(state', last', work'), Restores(saved')
  PROVE  RInv'
  <1>1. RInv' <=> /\ IInv({})'
                  /\ Undone(task', last', work') /\ Parted(task', last', work')
                  /\ Unstarted(state', last', work')
                  /\ Undone(saved'.task, saved'.last, << >>)
                  /\ Unstarted(saved'.state, saved'.last, << >>)
    BY DEF RInv, Undone, Replaces, Asks, Recalled, Older, Void, Unheld, Handled, Parted, Leads,
           Unstarted, Met, Closed
  <1> QED
    BY <1>1 DEF Restores

\* A command that executes no node.
LEMMA IdleRInv ==
  ASSUME RInv, Idle, IInv({})', Evolves({}, task', last'), Calm(task'), NewRows,
         work' = work, saved' = saved, state' # "NONE"
  PROVE  RInv'
  <1>1. work' = << >>
    BY DEF Idle
  <1>2. Undone(task', last', work')
    BY <1>1, TableUndone DEF RInv, NewRows
  <1>3. Parted(task', last', work') /\ Unstarted(state', last', work') /\ Restores(saved')
    BY <1>1 DEF RInv, Parted, Unstarted, Restores
  <1> QED
    BY <1>2, <1>3, RInvNext

\* A command that sends tokens w on the way from row p.
LEMMA GoRInv ==
  ASSUME RInv, Idle, IInv({})', Evolves({}, task', last'), Calm(task'), last' = last,
         NEW w, NEW c, Run(w, c), state' # "NONE",
         NEW p, p = 0 \/ (p \in Id /\ task[p].st = "DOING"),
         \A i \in Id : task[i].parent # p,
         \A a \in 1 .. Len(w) :
           /\ w[a].parent = p
           /\ \A b \in 1 .. Len(w), x \in RecallNode : Leads(w[a], x) /\ Leads(w[b], x) => a = b
  PROVE  RInv'
  <1>1. work' = w /\ Restores(saved')
    BY RunRestores DEF RInv, Restores
  <1>2. Source(p)
    BY DEF Source
  <1>3. last+1 .. last' = {}
    BY DEF RInv, IInv, TypeOK
  <1>4. Undone(task', last', work')
    BY <1>1, <1>2, <1>3, TableUndone DEF RInv
  <1>5. \A i \in 1 .. last' : task'[i].parent # p
    BY DEF Evolves, Id
  <1>6. Parted(task', last', work')
    BY <1>1, <1>5, PartedStart
  <1>7. Unstarted(state', last', work')
    BY DEF Unstarted
  <1> QED
    BY <1>1, <1>4, <1>6, <1>7, RInvNext

\* A step of the walk that goes on with the tokens w.
LEMMA WalkRInv ==
  ASSUME RInv, ~ Idle, IInv({})', Evolves({}, task', last'), Calm(task'), NewRows,
         NEW w \in Seq(WorkItem), Run(w \o Tail(work), cmd), state' # "NONE",
         \A a \in 1 .. Len(w) :
           /\ w[a].parent = Current.parent
           /\ \A x \in RecallNode : Leads(w[a], x) => Leads(Current, x)
           /\ \A b \in 1 .. Len(w), x \in RecallNode : Leads(w[a], x) /\ Leads(w[b], x) => a = b,
         \A x \in last+1 .. last' : task'[x].node \in RecallNode =>
           w = << >> /\ task'[x].node = Current.node
  PROVE  RInv'
  <1>1. work' = w \o Tail(work) /\ Restores(saved')
    BY RunRestores DEF RInv, Restores
  <1>2. Parted(task', last', work')
    BY <1>1, PartedWalk DEF RInv
  <1>3. /\ work \in Seq(WorkItem) /\ work # << >> /\ Tail(work) \in Seq(WorkItem)
        /\ Len(work) \in Nat \ {0} /\ Current = work[1]
        /\ Len(Tail(work)) = Len(work) - 1
        /\ \A k \in 1 .. Len(work) - 1 : Tail(work)[k] = work[k+1]
    BY DEF RInv, IInv, TypeOK, Idle, Current
  <1>4. ASSUME NEW a \in 1 .. Len(work') PROVE Source(work'[a].parent)
    <2>1. /\ Len(w \o Tail(work)) = Len(w) + Len(Tail(work))
          /\ \A i \in 1 .. Len(w) + Len(Tail(work)) :
               (w \o Tail(work))[i] = IF i <= Len(w) THEN w[i] ELSE Tail(work)[i - Len(w)]
      BY <1>3, ConcatProperties
    <2>2. Len(w) \in Nat
      OBVIOUS
    <2>3. CASE a <= Len(w)
      <3>1. work'[a] = w[a] /\ a \in 1 .. Len(w)
        BY <1>1, <2>1, <2>2, <2>3
      <3>2. work'[a].parent = work[1].parent /\ 1 \in 1 .. Len(work)
        BY <1>3, <3>1
      <3> QED
        BY <3>2 DEF Source
    <2>4. CASE ~ (a <= Len(w))
      <3>1. a - Len(w) \in 1 .. Len(work) - 1 /\ a \in 1 .. Len(w) + Len(Tail(work))
        BY <1>1, <1>3, <2>1, <2>2, <2>4
      <3>2. work'[a] = work[a - Len(w) + 1] /\ a - Len(w) + 1 \in 1 .. Len(work)
        <4>1. work'[a] = Tail(work)[a - Len(w)]
          BY <1>1, <2>1, <2>4, <3>1
        <4> QED
          BY <1>3, <2>2, <3>1, <4>1
      <3> QED
        BY <3>2 DEF Source
    <2> QED
      BY <2>3, <2>4
  <1>5. Undone(task', last', work')
    BY <1>4, TableUndone DEF RInv, NewRows
  <1>6. Unstarted(state', last', work')
    BY DEF Unstarted
  <1> QED
    BY <1>1, <1>2, <1>5, <1>6, RInvNext

-----------------------------------------------------------------------------
(* What a command writes. *)

LEMMA AppendedRows ==
  ASSUME last \in Nat, NEW e, NEW new, NEW len \in Nat, Len(new) = len
  PROVE  /\ \A i \in Id : Appended(e, new)[i] = e[i]
         /\ \A i \in last+1 .. last+len :
              i - last \in 1 .. len /\ Appended(e, new)[i] = new[i - last]
  <1>1. Appended(e, new) = [i \in 1 .. last + len |-> IF i <= last THEN e[i] ELSE new[i - last]]
    BY DEF Appended
  <1> QED
    BY <1>1 DEF Id

LEMMA AppendedRow ==
  ASSUME last \in Nat, NEW e, NEW r
  PROVE  /\ \A i \in Id : Appended(e, << r >>)[i] = e[i]
         /\ \A i \in last+1 .. last+1 : Appended(e, << r >>)[i] = r
  <1>1. Len(<< r >>) = 1 /\ << r >>[1] = r
    OBVIOUS
  <1> DEFINE new == << r >>
  <1>2. Appended(e, new) = [i \in 1 .. last + 1 |-> IF i <= last THEN e[i] ELSE new[i - last]]
    BY <1>1 DEF Appended
  <1>3. last + 1 \in 1 .. last + 1 /\ last + 1 - last = 1 /\ ~ last + 1 <= last
    OBVIOUS
  <1>4. \A i \in Id : i \in 1 .. last + 1 /\ i <= last
    BY DEF Id
  <1> HIDE DEF new
  <1>5. Appended(e, new)[last + 1] = new[1] /\ \A i \in Id : Appended(e, new)[i] = e[i]
    BY <1>2, <1>3, <1>4
  <1>6. new[1] = r
    BY DEF new
  <1>7. \A i \in last+1 .. last+1 : i = last + 1
    OBVIOUS
  <1> QED
    BY <1>5, <1>6, <1>7 DEF new

\* The rows of a task node, with the labels of the branches they are born with.
LEMMA createTaskRows ==
  ASSUME NEW H, IInv(H), createTask, Current.node \in Node
  PROVE  /\ last' = last + Len(Teams(Current.node, resolveActors(Current.node)))
         /\ \A i \in Id : task'[i] = task[i]
         /\ \A x \in last+1 .. last' :
              /\ x \in Nat \ {0} /\ \A i \in Id : x # i
              /\ task'[x].node = Current.node /\ task'[x].parent = Current.parent
              /\ task'[x].st = "DOING" /\ task'[x].back = NoBack
              /\ task'[x].scopes = buildScopes(Current.node, Current.parent, x)
  <1> DEFINE n == Current.node
             p == Current.parent
             roster == resolveActors(n)
             teams == Teams(n, roster)
             len == Len(teams)
             row(k) == [NewRow(n, p, teams[k]) EXCEPT
                          !.scopes = buildScopes(n, p, last + k), !.cs = CsStart(n, roster)]
             new == [k \in 1 .. len |-> row(k)]
  <1>1. last \in Nat /\ len \in Nat
    BY resolveActorsTyped, TeamsTyped DEF IInv, TypeOK
  <1>2. Len(new) = len /\ \A k \in 1 .. len : new[k] = row(k)
    BY <1>1
  <1>3. task' = Appended(task, new) /\ last' = last + len
    BY <1>2 DEF createTask
  <1>4. \A k \in 1 .. len : /\ row(k).node = n /\ row(k).parent = p /\ row(k).back = NoBack
                            /\ row(k).st = "DOING" /\ row(k).scopes = buildScopes(n, p, last + k)
    BY DEF NewRow
  <1> HIDE DEF new, row, len, teams, roster
  <1>5. ASSUME NEW x \in last+1 .. last'
        PROVE  /\ x \in Nat \ {0} /\ \A i \in Id : x # i
               /\ task'[x].node = n /\ task'[x].parent = p /\ task'[x].back = NoBack
               /\ task'[x].st = "DOING" /\ task'[x].scopes = buildScopes(n, p, x)
    <2>1. x - last \in 1 .. len /\ last + (x - last) = x /\ x \in Nat \ {0} /\ \A i \in Id : x # i
      BY <1>1, <1>3 DEF Id
    <2>2. task'[x] = row(x - last)
      BY <1>1, <1>2, <1>3, <2>1, AppendedRows
    <2> QED
      BY <1>4, <2>1, <2>2
  <1> QED
    BY <1>1, <1>2, <1>3, <1>5, AppendedRows DEF len, teams, roster

\* The rows of the signers whom the actor of row t adds.
LEMMA AddSignRows ==
  ASSUME NEW H, IInv(H), NEW t \in Id, NEW u \in User, NEW submit \in Submit, NEW ops \in Roster,
         ExecuteAddSign(t, u, submit, ops)
  PROVE  /\ last \in Nat /\ last' \in Nat /\ last < last' /\ last + 1 \in last+1 .. last'
         /\ \A i \in Id : task'[i] = Completed(t, u, submit)[i]
         /\ \A x \in last+1 .. last' :
              /\ x \in Nat \ {0} /\ x > last /\ task'[x].node = task[t].node /\ task'[x].parent = t
              /\ task'[x].st = "DOING" /\ task'[x].back = NoBack
              /\ task'[x].scopes = buildScopes(task[t].node, t, x)
  <1> DEFINE d == Completed(t, u, submit)
             n == task[t].node
             round == d[t].round[n] + 1
             len == Len(ops)
             row(k) == [NewRow(n, t, {ops[k]}) EXCEPT
                          !.scopes = buildScopes(n, t, last + k), !.round[n] = round]
             new == [k \in 1 .. len |-> row(k)]
  <1>1. last \in Nat /\ len \in Nat /\ len # 0
    <2>1. ops # << >> /\ ops \in Seq(User)
      BY DEF ExecuteAddSign, Roster
    <2> QED
      BY <2>1 DEF IInv, TypeOK
  <1>2. \A k \in 1 .. len :
          /\ row(k).node = n /\ row(k).parent = t /\ row(k).st = "DOING" /\ row(k).back = NoBack
          /\ row(k).scopes = buildScopes(n, t, last + k)
    BY DEF NewRow
  <1>3. task' = Appended(d, new) /\ last' = last + len
    BY DEF ExecuteAddSign
  <1>4. Len(new) = len /\ \A k \in 1 .. len : new[k] = row(k)
    BY <1>1
  <1> HIDE DEF d, n, new, row, len, round
  <1>5. \A i \in Id : task'[i] = d[i]
    BY <1>1, <1>3, <1>4, AppendedRows
  <1>6. ASSUME NEW x \in last+1 .. last'
        PROVE  /\ x \in Nat \ {0} /\ x > last /\ task'[x].node = n /\ task'[x].parent = t
               /\ task'[x].st = "DOING" /\ task'[x].back = NoBack
               /\ task'[x].scopes = buildScopes(n, t, x)
    <2>1. x - last \in 1 .. len /\ last + (x - last) = x /\ x \in Nat \ {0} /\ x > last
      BY <1>1, <1>3
    <2>2. task'[x] = row(x - last)
      BY <1>1, <1>3, <1>4, <2>1, AppendedRows
    <2> QED
      BY <1>2, <2>1, <2>2
  <1> QED
    BY <1>1, <1>3, <1>5, <1>6 DEF d, n

LEMMA StillCalm ==
  ASSUME UNCHANGED <<task, last>>, last \in Nat
  PROVE  Calm(task') /\ NewRows
  BY DEF Calm, NewRows

LEMMA CompletedCalm ==
  ASSUME IInv({}), NEW t \in Id, NEW u \in User, NEW submit \in Submit, Allowed(t, u)
  PROVE  Calm(Completed(t, u, submit))
  <1>1. TypeOK /\ task[t].st = "DOING"
    BY DEF IInv, Allowed
  <1>2. /\ Handled(Completed(t, u, submit)[t])
        /\ \A i \in Id \ {t} : Completed(t, u, submit)[i] = task[i]
    BY <1>1, CompletedSettles
  <1> QED
    BY <1>2 DEF Calm, Handled

LEMMA DropCalm ==
  ASSUME NEW d \in [Id -> Row], Calm(d), NEW D, NEW st \in Dropped
  PROVE  Calm([i \in Id |-> IF i \in D THEN [d[i] EXCEPT !.st = st] ELSE d[i]])
  <1>1. \A i \in Id : [d[i] EXCEPT !.st = st].st = st
    BY DEF Row
  <1> QED
    BY <1>1 DEF Calm, Dropped

LEMMA DropOpenCalm ==
  ASSUME NEW d \in [Id -> Row], Calm(d), NEW n, NEW B \in BOOLEAN
  PROVE  Calm([i \in Id |-> IF B /\ i \in DoingAt(d, n)
                            THEN [d[i] EXCEPT !.st = "ABANDONED"] ELSE d[i]])
  <1> DEFINE D == { i \in DoingAt(d, n) : B }
  <1>1. Calm([i \in Id |-> IF i \in D THEN [d[i] EXCEPT !.st = "ABANDONED"] ELSE d[i]])
    BY DropCalm DEF Dropped
  <1>2. [i \in Id |-> IF i \in D THEN [d[i] EXCEPT !.st = "ABANDONED"] ELSE d[i]]
          = [i \in Id |-> IF B /\ i \in DoingAt(d, n)
                          THEN [d[i] EXCEPT !.st = "ABANDONED"] ELSE d[i]]
    OBVIOUS
  <1> QED
    BY <1>1, <1>2

LEMMA AppendedCalm ==
  ASSUME last \in Nat, NEW e, NEW new, NEW len \in Nat, Len(new) = len, Calm(e)
  PROVE  Calm(Appended(e, new))
  BY AppendedRows DEF Calm

LEMMA AppendedOneCalm ==
  ASSUME last \in Nat, NEW e, NEW r, Calm(e)
  PROVE  Calm(Appended(e, << r >>))
  BY AppendedRow DEF Calm

\* A row that follows an open row is the first below it.
LEMMA FirstBelow ==
  ASSUME RInv, Evolves({}, task', last'), NEW t \in Id, task[t].st = "DOING",
         task'[last + 1].parent = t
  PROVE  Replaces(task', last', work', last + 1)
  <1>1. \A i \in Id : task'[i].parent # t
    BY OpenIsLeaf DEF RInv, Evolves
  <1>2. last \in Nat
    BY DEF RInv, IInv, TypeOK
  <1>3. Older(task', last + 1) = {}
    BY <1>1, <1>2 DEF Older, Id
  <1> QED
    BY <1>3 DEF Replaces

LEMMA OpenAtTask ==
  ASSUME RInv, NEW t \in Id
  PROVE  /\ task[t].st = "DOING" \/ Handled(task[t]) => Flow.type[task[t].node] = "task"
         /\ state # "NONE"
  <1>1. t \in 1 .. last /\ last # 0
    BY DEF Id, RInv, IInv, TypeOK
  <1> QED
    BY <1>1 DEF RInv, Undone, Asks, Unstarted

-----------------------------------------------------------------------------
(* The steps of the walk and the commands. *)

LEMMA Walking ==
  ASSUME RInv, ~ Idle
  PROVE  /\ state # "NONE" /\ Source(Current.parent)
         /\ \A x \in RecallNode, i \in Id :
              Leads(Current, x) /\ task[i].node = x => task[i].parent # Current.parent
  <1>1. state # "NONE"
    BY DEF RInv, Unstarted, Idle
  <1>2. 1 \in 1 .. Len(work) /\ Current = work[1]
    BY DEF RInv, IInv, TypeOK, Idle, Current
  <1>3. Source(Current.parent)
    BY <1>2 DEF Source
  <1>4. \A x \in RecallNode, i \in Id :
              Leads(Current, x) /\ task[i].node = x => task[i].parent # Current.parent
    BY <1>2 DEF RInv, Parted, Id
  <1> QED
    BY <1>1, <1>3, <1>4

\* A step that leaves the table alone.
LEMMA PassRInv ==
  ASSUME RInv, ~ Idle, IInv({})', UNCHANGED <<task, last>>, state' # "NONE",
         NEW w \in Seq(WorkItem), Run(w \o Tail(work), cmd),
         \A a \in 1 .. Len(w) :
           /\ w[a].parent = Current.parent
           /\ \A x \in RecallNode : Leads(w[a], x) => Leads(Current, x)
           /\ \A b \in 1 .. Len(w), x \in RecallNode : Leads(w[a], x) /\ Leads(w[b], x) => a = b
  PROVE  RInv'
  <1>1. last \in Nat /\ last+1 .. last' = {}
    BY DEF RInv, IInv, TypeOK
  <1>2. Evolves({}, task', last') /\ Calm(task') /\ NewRows
    BY <1>1, SameTable, StillCalm DEF RInv
  <1> QED
    BY <1>1, <1>2, WalkRInv

LEMMA PushLeads ==
  ASSUME RecallsApart, RInv, ~ Idle, Flow.type[Current.node] \notin {"task", "decision"}
  PROVE  LET w == Children(Current.node, Current.parent)
         IN  /\ w \in Seq(WorkItem)
             /\ \A a \in 1 .. Len(w) :
                  /\ w[a].parent = Current.parent
                  /\ \A x \in RecallNode : Leads(w[a], x) => Leads(Current, x)
                  /\ \A b \in 1 .. Len(w), x \in RecallNode :
                       Leads(w[a], x) /\ Leads(w[b], x) => a = b
  <1> DEFINE w == Children(Current.node, Current.parent)
  <1>1. Current.node \in Node /\ Current.parent \in Nat
    BY CurrentTyped DEF RInv, IInv, TypeOK
  <1>2. w \in Seq(WorkItem)
    BY <1>1, ChildrenTyped
  <1>3. \A a \in 1 .. Len(w) :
          /\ w[a].parent = Current.parent /\ w[a].node \in outgoingTargets(Flow, Current.node)
          /\ \A b \in 1 .. Len(w), x \in RecallNode : Leads(w[a], x) /\ Leads(w[b], x) => a = b
    BY <1>1, ChildrenLead
  <1> HIDE DEF w
  <1>4. \A a \in 1 .. Len(w), x \in RecallNode : Leads(w[a], x) => Leads(Current, x)
    BY <1>1, <1>3, LeadsOn DEF Leads
  <1> QED
    BY <1>2, <1>3, <1>4 DEF w

LEMMA PushRInv ==
  ASSUME RecallsApart, RInv, ~ Idle, IInv({})', UNCHANGED <<state, task, last>>,
         Flow.type[Current.node] \notin {"task", "decision"},
         PushChildren(Current.node, Current.parent)
  PROVE  RInv'
  <1>1. state' # "NONE"
    BY Walking
  <1> QED
    BY <1>1, PushLeads, PassRInv DEF PushChildren

LEMMA UnwindRInv ==
  ASSUME RInv, ~ Idle, IInv({})', UNCHANGED <<task, last>>, state' # "NONE", Unwind
  PROVE  RInv'
  <1>1. Run(<< >> \o Tail(work), cmd)
    BY UnwindIsRun DEF RInv
  <1>2. << >> \in Seq(WorkItem) /\ Len(<< >>) = 0 /\ 1 .. 0 = {}
    OBVIOUS
  <1> QED
    BY <1>1, <1>2, PassRInv

LEMMA createTaskRInv ==
  ASSUME RecallsApart, RInv, createTask
  PROVE  RInv'
  <1> DEFINE n == Current.node
             p == Current.parent
             roster == resolveActors(n)
             teams == Teams(n, roster)
             len == Len(teams)
             row(k) == [NewRow(n, p, teams[k]) EXCEPT
                          !.scopes = buildScopes(n, p, last + k), !.cs = CsStart(n, roster)]
             new == [k \in 1 .. len |-> row(k)]
  <1>0. /\ ~ Idle /\ last \in Nat /\ IInv({}) /\ Flow.type[n] = "task"
        /\ Evolves({}, task', last') /\ IInv({})'
    BY createTaskKeeps DEF createTask, Executing, RInv, IInv, TypeOK
  <1>1. n \in Node /\ roster \in Roster
    BY <1>0, CurrentTyped, resolveActorsTyped
  <1>2. len \in Nat
    BY <1>1, TeamsTyped
  <1>3. Len(new) = len /\ \A k \in 1 .. len : new[k] = row(k)
    BY <1>2
  <1>4. task' = Appended(task, new) /\ last' = last + len /\ Unwind /\ state' = state
    BY <1>3 DEF createTask
  <1>5. \A k \in 1 .. len : row(k).node = n /\ row(k).parent = p
    BY DEF NewRow
  <1>6. n \in RecallNode => len = 1
    <2> SUFFICES ASSUME n \in RecallNode PROVE len = 1
      OBVIOUS
    <2>1. Props[n].countersign = "none"
      BY PropsAssumption DEF RecallNode, validateAddSignFlow
    <2>2. \E S : teams = <<S>>
      BY <2>1 DEF Teams
    <2> HIDE DEF teams
    <2> QED
      BY <2>2
  <1> HIDE DEF new, row, len, teams, roster
  <1>7. \A x \in last+1 .. last' : task'[x].node = n /\ task'[x].parent = p
    BY <1>0, <1>2, <1>3, <1>4, <1>5, AppendedRows
  <1>8. Calm(task')
    <2>1. Calm(task)
      BY DEF Calm
    <2> QED
      BY <1>0, <1>2, <1>3, <1>4, <2>1, AppendedCalm
  <1>9. NewRows
    <2> SUFFICES ASSUME NEW x \in last+1 .. last'
                 PROVE  /\ Source(task'[x].parent) /\ Asks(task'[x])
                        /\ Replaces(task', last', work', x)
      BY DEF NewRows
    <2>1. Source(task'[x].parent)
      BY <1>0, <1>7, Walking
    <2>2. Asks(task'[x])
      BY <1>0, <1>7 DEF Asks
    <2>3. Replaces(task', last', work', x)
      <3> SUFFICES ASSUME Recalled(task'[x]) PROVE Older(task', x) = {}
        BY DEF Replaces
      <3>1. n \in RecallNode
        BY <1>7 DEF Recalled
      <3>2. x = last + 1
        BY <1>0, <1>4, <1>6, <3>1
      <3>3. Leads(Current, n)
        BY <1>1, MetHas DEF Leads
      <3>4. \A i \in Id : task[i].node = n => task[i].parent # p
        BY <1>0, <3>1, <3>3, Walking
      <3>5. \A i \in Id : task'[i].node = n => task'[i].parent # p
        BY <1>0, <3>4 DEF Evolves
      <3>6. \A i \in 1 .. x-1 : i \in Id
        BY <1>0, <3>2 DEF Id
      <3> QED
        BY <1>7, <3>5, <3>6 DEF Older
    <2> QED
      BY <2>1, <2>2, <2>3
  <1>10. Run(<< >> \o Tail(work), cmd) /\ << >> \in Seq(WorkItem) /\ 1 .. Len(<< >>) = {}
    <2>1. Run(<< >> \o Tail(work), cmd)
      BY <1>0, <1>4, UnwindIsRun
    <2>2. << >> \in Seq(WorkItem) /\ Len(<< >>) = 0
      OBVIOUS
    <2> QED
      BY <2>1, <2>2
  <1>11. state' # "NONE"
    BY <1>0, <1>4, Walking
  <1> QED
    BY <1>0, <1>7, <1>8, <1>9, <1>10, <1>11, WalkRInv

LEMMA execCustomNodeRInv ==
  ASSUME RecallsApart, RInv, execCustomNode
  PROVE  RInv'
  <1> DEFINE n == Current.node
             p == Current.parent
             r == [NewRow(n, p, {cmd.user}) EXCEPT !.st = "DONE", !.by = cmd.user]
             w == Children(n, p)
  <1>0. /\ ~ Idle /\ last \in Nat /\ IInv({}) /\ Flow.type[n] = "custom"
        /\ Evolves({}, task', last') /\ IInv({})'
    BY execCustomNodeKeeps DEF execCustomNode, Executing, RInv, IInv, TypeOK
  <1>1. /\ task' = Appended(task, << r >>) /\ last' = last + 1 /\ state' = state
        /\ Run(w \o Tail(work), cmd)
    BY DEF execCustomNode, PushChildren
  <1>2. r.node = n /\ r.parent = p /\ r.st = "DONE" /\ r.owner = NoUser
    BY DEF NewRow
  <1> HIDE DEF r
  <1>3. task'[last + 1] = r /\ last+1 .. last' = {last + 1}
    <2>1. task'[last + 1] = r
      <3>1. last + 1 \in last+1 .. last+1
        BY <1>0
      <3> QED
        BY <1>0, <1>1, <3>1, AppendedRow
    <2> QED
      BY <1>0, <1>1, <2>1
  <1>4. Calm(task')
    <2>1. Calm(task)
      BY DEF Calm
    <2> QED
      BY <1>0, <1>1, <2>1, AppendedOneCalm
  <1>5. NewRows
    <2>1. Source(r.parent)
      BY <1>0, <1>2, Walking
    <2>2. Asks(r)
      BY <1>2, UserAssumption DEF Asks, Handled
    <2>3. Replaces(task', last', work', last + 1)
      BY <1>2, <1>3 DEF Replaces, Recalled
    <2> QED
      BY <1>3, <2>1, <2>2, <2>3 DEF NewRows
  <1>6. state' # "NONE"
    BY <1>0, <1>1, Walking
  <1>7. /\ w \in Seq(WorkItem)
        /\ \A a \in 1 .. Len(w) :
             /\ w[a].parent = Current.parent
             /\ \A x \in RecallNode : Leads(w[a], x) => Leads(Current, x)
             /\ \A b \in 1 .. Len(w), x \in RecallNode : Leads(w[a], x) /\ Leads(w[b], x) => a = b
    BY <1>0, PushLeads
  <1> HIDE DEF w
  <1>8. \A x \in last+1 .. last' : task'[x].node \notin RecallNode
    BY <1>0, <1>2, <1>3 DEF RecallNode, OfType
  <1> QED
    BY <1>0, <1>1, <1>4, <1>5, <1>6, <1>7, <1>8, WalkRInv

LEMMA evaluateDecisionRInv ==
  ASSUME RInv, evaluateDecision
  PROVE  RInv'
  <1>0. /\ ~ Idle /\ IInv({}) /\ Flow.type[Current.node] = "decision" /\ IInv({})'
        /\ UNCHANGED <<state, task, last>>
    BY evaluateDecisionKeeps DEF evaluateDecision, Executing, RInv
  <1>2. Current.node \in Node /\ Current.parent \in Nat
    BY <1>0, CurrentTyped, SMTT(30) DEF IInv, TypeOK
  <1>3. PICK m \in Node : /\ m \in outgoingTargets(Flow, Current.node)
                          /\ Run(<<[node |-> m, parent |-> Current.parent]>> \o Tail(work), cmd)
    BY <1>2, RoutedBranch
  <1> DEFINE item == [node |-> m, parent |-> Current.parent]
             w == << item >>
  <1>4. item.node = m /\ item.parent = Current.parent /\ item \in WorkItem
    BY <1>2, <1>3 DEF WorkItem
  <1>5. Run(w \o Tail(work), cmd)
    BY <1>3
  <1> HIDE DEF item
  <1>6. \A x \in RecallNode : Leads(item, x) => Leads(Current, x)
    BY <1>0, <1>2, <1>3, <1>4, LeadsOn DEF Leads
  <1>7. w \in Seq(WorkItem) /\ Len(w) = 1 /\ w[1] = item
    BY <1>4
  <1> HIDE DEF w
  <1>8. \A a \in 1 .. Len(w) : a = 1
    BY <1>7
  <1>9. state' # "NONE"
    BY <1>0, Walking
  <1> QED
    BY <1>0, <1>4, <1>5, <1>6, <1>7, <1>8, <1>9, PassRInv

LEMMA abortRInv ==
  ASSUME RInv, abort
  PROVE  RInv'
  <1>1. IInv({})' /\ IInv({})
    BY abortKeeps DEF RInv
  <1>2. Run(<< >>, NoCmd)
    BY DEF abort
  <1>3. work' = << >> /\ Restores(saved')
    BY <1>2, RunRestores DEF RInv, Restores
  <1>4. Undone(task', last', << >>) /\ Unstarted(state', last', << >>)
    <2>1. CASE Transactional
      BY <2>1 DEF abort, RInv
    <2>2. CASE ~ Transactional
      <3>1. Undone(task, last, << >>)
        BY DEF RInv, Undone, Replaces, Unheld
      <3>2. state # "NONE"
        BY Walking DEF abort, Executing
      <3> QED
        BY <2>2, <3>1, <3>2 DEF abort, Unstarted
    <2> QED
      BY <2>1, <2>2
  <1>5. Parted(task', last', << >>)
    BY DEF Parted
  <1> QED
    BY <1>1, <1>3, <1>4, <1>5, RInvNext

LEMMA StepRInv ==
  ASSUME RecallsApart, RInv, Step
  PROVE  RInv'
  <1>0. IInv({})
    BY DEF RInv
  <1>1. CASE abort
    BY <1>1, abortRInv
  <1>2. CASE ~ abort
    <2>1. IInv({})'
      BY <1>0, <1>2, StepKeeps
    <2>2. CASE executeFork \/ joinReleases
      BY <2>1, <2>2, PushRInv DEF executeFork, joinReleases, Executing
    <2>3. CASE joinWaits \/ executeUnknown
      BY <2>1, <2>3, UnwindRInv, Walking DEF joinWaits, executeUnknown, Executing
    <2>4. CASE executeEnd
      BY <2>1, <2>4, UnwindRInv DEF executeEnd, Executing
    <2> QED
      BY <1>2, <2>2, <2>3, <2>4, createTaskRInv, execCustomNodeRInv, evaluateDecisionRInv DEF Step
  <1> QED
    BY <1>1, <1>2

\* A command on row t that appends one row r.
LEMMA OneRowRInv ==
  ASSUME RInv, Idle, IInv({})', Evolves({}, task', last'), NEW e, Calm(e), NEW r,
         task' = Appended(e, << r >>), last' = last + 1,
         NEW t \in Id, state' = state, work' = work, saved' = saved,
         Source(r.parent), Asks(r), Replaces(task', last', work', last + 1)
  PROVE  RInv'
  <1>1. last \in Nat
    BY DEF RInv, IInv, TypeOK
  <1>2. Calm(task')
    BY <1>1, AppendedOneCalm
  <1>3. \A x \in last+1 .. last' : x = last + 1 /\ task'[x] = r
    BY <1>1, AppendedRow
  <1>4. NewRows
    BY <1>3 DEF NewRows
  <1> QED
    BY <1>2, <1>4, IdleRInv, OpenAtTask

\* One whose new row is the first below row t.
LEMMA NextRowRInv ==
  ASSUME RInv, Idle, IInv({})', Evolves({}, task', last'), NEW e, Calm(e), NEW r,
         task' = Appended(e, << r >>), last' = last + 1,
         NEW t \in Id, task[t].st = "DOING", state' = state, work' = work, saved' = saved,
         r.parent = t, Flow.type[r.node] = "task"
  PROVE  RInv'
  <1>1. task'[last + 1] = r
    <2>1. last \in Nat
      BY DEF RInv, IInv, TypeOK
    <2>2. last + 1 \in last+1 .. last+1
      BY <2>1
    <2> QED
      BY <2>1, <2>2, AppendedRow
  <1>2. Replaces(task', last', work', last + 1)
    BY <1>1, FirstBelow
  <1>3. Source(r.parent) /\ Asks(r)
    BY DEF Source, Asks
  <1> QED
    BY <1>2, <1>3, OneRowRInv

\* A command that settles rows and appends none.
LEMMA SettleRInv ==
  ASSUME RInv, Idle, IInv({})', Evolves({}, task', last'), Calm(task'), last' = last,
         state' # "NONE", work' = work, saved' = saved
  PROVE  RInv'
  <1>1. last \in Nat /\ last+1 .. last' = {}
    BY DEF RInv, IInv, TypeOK
  <1>2. NewRows
    BY <1>1 DEF NewRows
  <1> QED
    BY <1>2, IdleRInv

LEMMA StartProcessInstanceRInv ==
  ASSUME RecallsApart, RInv, StartProcessInstance
  PROVE  RInv'
  <1> DEFINE w == Children(startNode(Flow), 0)
  <1>1. last = 0 /\ Idle /\ Id = {}
    BY DEF RInv, Unstarted, StartProcessInstance, Idle, Id
  <1>2. Evolves({}, task', last') /\ IInv({})' /\ IInv({})
    BY StartProcessInstanceKeeps DEF RInv
  <1>3. UNCHANGED <<task, last>> /\ state' # "NONE" /\ Calm(task')
    BY <1>1 DEF StartProcessInstance, Calm
  <1>4. \A a \in 1 .. Len(w) :
          /\ w[a].parent = 0
          /\ \A b \in 1 .. Len(w), x \in RecallNode : Leads(w[a], x) /\ Leads(w[b], x) => a = b
    BY StartTyped, StartIsStart, ChildrenLead
  <1>5. Run(w, [NoCmd EXCEPT !.user = Initiator])
    BY DEF StartProcessInstance
  <1> HIDE DEF w
  <1> QED
    BY <1>1, <1>2, <1>3, <1>4, <1>5, GoRInv

LEMMA ExecuteWaitRInv ==
  ASSUME RInv, NEW t \in Id, NEW u \in User, NEW submit \in Submit, ExecuteWait(t, u, submit)
  PROVE  RInv'
  <1>1. Idle /\ Allowed(t, u) /\ IInv({})
    BY DEF ExecuteWait, Executes, RInv
  <1>2. Evolves({}, task', last') /\ IInv({})'
    BY <1>1, ExecuteWaitKeeps
  <1>3. Calm(task')
    BY <1>1, CompletedCalm DEF ExecuteWait
  <1>4. last' = last /\ state' = state /\ work' = work /\ saved' = saved
    BY DEF ExecuteWait
  <1> QED
    BY <1>1, <1>2, <1>3, <1>4, OpenAtTask, SettleRInv

LEMMA ExecuteNextMemberRInv ==
  ASSUME RInv, NEW t \in Id, NEW u \in User, NEW submit \in Submit,
         ExecuteNextMember(t, u, submit)
  PROVE  RInv'
  <1> DEFINE d == Completed(t, u, submit)
             n == task[t].node
             s == d[t].cs[n]
             r == [NewRow(n, t, {s.members[s.idx + 2]}) EXCEPT
                     !.cs[n] = [s EXCEPT !.idx = s.idx + 1]]
  <1>1. Idle /\ Allowed(t, u) /\ task[t].st = "DOING" /\ IInv({})
    BY DEF ExecuteNextMember, Executes, Allowed, RInv
  <1>2. Evolves({}, task', last') /\ IInv({})'
    BY <1>1, ExecuteNextMemberKeeps
  <1>3. Calm(d)
    BY <1>1, CompletedCalm
  <1>4. /\ task' = Appended(d, << r >>) /\ last' = last + 1
        /\ state' = state /\ work' = work /\ saved' = saved
    BY DEF ExecuteNextMember
  <1>5. r.node = n /\ r.parent = t
    BY DEF NewRow
  <1>6. Flow.type[n] = "task"
    BY <1>1, OpenAtTask
  <1> HIDE DEF d, r
  <1> QED
    BY <1>1, <1>2, <1>3, <1>4, <1>5, <1>6, NextRowRInv

LEMMA ExecuteAddSignRInv ==
  ASSUME RecallsApart, RInv, NEW t \in Id, NEW u \in User, NEW submit \in Submit,
         NEW ops \in Roster, ExecuteAddSign(t, u, submit, ops)
  PROVE  RInv'
  <1> DEFINE d == Completed(t, u, submit)
             n == task[t].node
  <1>1. Idle /\ Allowed(t, u) /\ task[t].st = "DOING" /\ IInv({})
    BY DEF ExecuteAddSign, Executes, Allowed, RInv
  <1>2. Evolves({}, task', last') /\ IInv({})'
    BY <1>1, ExecuteAddSignKeeps
  <1>3. Calm(d)
    BY <1>1, CompletedCalm
  <1>4. Flow.type[n] = "task" /\ n \in Node /\ state # "NONE"
    BY <1>1, OpenAtTask DEF IInv, TypeOK, Row
  <1>5. n \notin RecallNode
    BY <1>4 DEF RecallsApart, ExecuteAddSign, AddSign
  <1>6. state' = state /\ work' = work /\ saved' = saved
    BY DEF ExecuteAddSign
  <1>7. /\ \A x \in last+1 .. last' : task'[x].node = n /\ task'[x].parent = t
        /\ \A i \in Id : task'[i] = d[i]
    BY <1>1, AddSignRows
  <1> HIDE DEF d
  <1>8. NewRows
    BY <1>1, <1>4, <1>5, <1>7 DEF NewRows, Source, Asks, Replaces, Recalled
  <1>9. Calm(task')
    BY <1>3, <1>7 DEF Calm
  <1> QED
    BY <1>1, <1>2, <1>4, <1>6, <1>8, <1>9, IdleRInv

LEMMA ExecuteAdvanceRInv ==
  ASSUME RecallsApart, RInv, NEW t \in Id, NEW u \in User, NEW submit \in Submit,
         NEW next \in Roster, ExecuteAdvance(t, u, submit, next)
  PROVE  RInv'
  <1> DEFINE d == Completed(t, u, submit)
             n == task[t].node
             w == Children(n, t)
  <1>1. Idle /\ Allowed(t, u) /\ task[t].st = "DOING" /\ IInv({})
    BY DEF ExecuteAdvance, Executes, Allowed, RInv
  <1>2. Evolves({}, task', last') /\ IInv({})'
    BY <1>1, ExecuteAdvanceKeeps
  <1>3. Calm(d) /\ d \in [Id -> Row]
    BY <1>1, CompletedCalm, CompletedSource DEF Settles
  <1>4. Flow.type[n] = "task" /\ n \in Node /\ state # "NONE" /\ t \in Nat
    BY <1>1, OpenAtTask DEF IInv, TypeOK, Row, Id
  <1>5. Calm(AbandonRest(d, n))
    <2>1. (Props[n].countersign # "none") \in BOOLEAN
      OBVIOUS
    <2> HIDE DEF d, n
    <2> QED
      BY <1>3, <2>1, DropOpenCalm DEF AbandonRest
  <1>6. /\ task' = AbandonRest(d, n) /\ last' = last /\ state' = state
        /\ Run(w, [user |-> u, next |-> next, home |-> {}])
    BY DEF ExecuteAdvance
  <1>7. \A a \in 1 .. Len(w) :
          /\ w[a].parent = t
          /\ \A b \in 1 .. Len(w), x \in RecallNode : Leads(w[a], x) /\ Leads(w[b], x) => a = b
    BY <1>4, ChildrenLead
  <1>8. \A i \in Id : task[i].parent # t
    BY <1>1, OpenIsLeaf
  <1> HIDE DEF w, d, n
  <1> QED
    BY <1>1, <1>2, <1>4, <1>5, <1>6, <1>7, <1>8, GoRInv

LEMMA executeReapplyRInv ==
  ASSUME RInv, NEW t \in Id, NEW u \in User, executeReapply(t, u)
  PROVE  RInv'
  <1> DEFINE d == Completed(t, u, "reapply")
             n == task[task[t].back.src].node
             r == [NewRow(n, t, FlowRange(Props[n].assignee)) EXCEPT
                     !.scopes = task[t].back.branch]
  <1>1. Idle /\ Allowed(t, u) /\ task[t].st = "DOING" /\ IInv({})
    BY DEF executeReapply, Allowed, RInv
  <1>2. Evolves({}, task', last') /\ IInv({})'
    BY <1>1, executeReapplyKeeps
  <1>3. Calm(d)
    BY <1>1, CompletedCalm DEF Submit
  <1>4. /\ task' = Appended(d, << r >>) /\ last' = last + 1
        /\ state' = state /\ work' = work /\ saved' = saved /\ Flow.type[n] = "task"
    BY DEF executeReapply
  <1>5. r.node = n /\ r.parent = t
    BY DEF NewRow
  <1> HIDE DEF d, r, n
  <1> QED
    BY <1>1, <1>2, <1>3, <1>4, <1>5, NextRowRInv

LEMMA LeftCalm ==
  ASSUME IInv({}), NEW t \in Id, NEW u \in User, NEW submit \in Submit, Allowed(t, u),
         NEW n \in Node
  PROVE  Calm(DropOpenAt(Completed(t, u, submit), n))
  <1> DEFINE d == Completed(t, u, submit)
  <1>1. Calm(d) /\ d \in [Id -> Row]
    BY CompletedCalm, CompletedSource DEF Settles
  <1>2. AddSignGate(n) \in BOOLEAN
    BY PropsAssumption DEF AddSignGate, PropType
  <1> HIDE DEF d
  <1>3. Calm(DropOpenAt(d, n))
    BY <1>1, <1>2, DropOpenCalm DEF DropOpenAt
  <1> QED
    BY <1>3 DEF d

LEMMA ExecuteAndJumpToEndRInv ==
  ASSUME RInv, NEW t \in Id, NEW u \in User, ExecuteAndJumpToEnd(t, u)
  PROVE  RInv'
  <1>1. Idle /\ Allowed(t, u) /\ IInv({}) /\ task[t].node \in Node
    BY DEF ExecuteAndJumpToEnd, RInv, IInv, TypeOK, Row
  <1>2. Evolves({}, task', last') /\ IInv({})'
    BY <1>1, ExecuteAndJumpToEndKeeps
  <1>3. Calm(task')
    BY <1>1, LeftCalm DEF ExecuteAndJumpToEnd, Submit
  <1>4. last' = last /\ state' # "NONE" /\ work' = work /\ saved' = saved
    BY DEF ExecuteAndJumpToEnd
  <1> QED
    BY <1>1, <1>2, <1>3, <1>4, SettleRInv

LEMMA ReturnFailsRInv ==
  ASSUME RInv, NEW t \in Id, NEW u \in User, ReturnFails(t, u)
  PROVE  RInv'
  <1>1. Idle /\ Allowed(t, u) /\ IInv({}) /\ task[t].node \in Node
    BY DEF ReturnFails, RInv, IInv, TypeOK, Row
  <1>2. Evolves({}, task', last') /\ IInv({})'
    BY <1>1, ReturnFailsKeeps
  <1>3. Calm(task')
    BY <1>1, LeftCalm DEF ReturnFails, Submit
  <1>4. last' = last /\ state' # "NONE" /\ work' = work /\ saved' = saved
    BY OpenAtTask DEF ReturnFails
  <1> QED
    BY <1>1, <1>2, <1>3, <1>4, SettleRInv

\* The row that comes to life again keeps its owner, so it is not taken for one
\* that a recall has made.
LEMMA rollbackToParentRInv ==
  ASSUME RInv, NEW t \in Id, NEW u \in User, rollbackToParent(t, u)
  PROVE  RInv'
  <1> DEFINE d == Completed(t, u, "rollback")
             p == task[t].parent
             his == task[p]
             actor == IF his.node \in FirstTaskNode THEN his.owner ELSE his.by
             r == [NewRow(his.node, his.parent, {actor}) EXCEPT
                     !.owner = his.owner, !.scopes = his.scopes,
                     !.back = his.back, !.round = his.round]
  <1>1. Idle /\ Allowed(t, u) /\ task[t].st = "DOING" /\ IInv({}) /\ p # 0 /\ last \in Nat
    BY DEF rollbackToParent, Allowed, RInv, IInv, TypeOK
  <1>2. Evolves({}, task', last') /\ IInv({})'
    BY <1>1, rollbackToParentKeeps DEF NoWayBack
  <1>3. Calm(d)
    BY <1>1, CompletedCalm DEF Submit
  <1>4. /\ task' = Appended(d, << r >>) /\ last' = last + 1
        /\ state' = state /\ work' = work /\ saved' = saved
    BY DEF rollbackToParent
  <1>5. r.node = his.node /\ r.parent = his.parent /\ r.owner = his.owner
    BY DEF NewRow
  <1>6. p \in Id /\ Handled(his)
    <2>1. RefsOK({}, task, t) /\ t \in 1 .. last
      BY <1>1 DEF IInv, Sound, Id
    <2> QED
      BY <1>1, <2>1 DEF RefsOK, Below, Id
  <1>7. task'[last + 1] = r
    <2> HIDE DEF d, r
    <2>1. last + 1 \in last+1 .. last+1
      BY <1>1
    <2> QED
      BY <1>1, <1>4, <2>1, AppendedRow
  <1> HIDE DEF d, r
  <1>8. Source(r.parent)
    BY <1>5, <1>6 DEF Source, Handled, Dropped
  <1>9. Asks(r)
    BY <1>5, <1>6, OpenAtTask DEF Asks
  <1>10. Replaces(task', last', work', last + 1)
    BY <1>5, <1>6, <1>7, UserAssumption DEF Replaces, Recalled, Handled
  <1> QED
    BY <1>1, <1>2, <1>3, <1>4, <1>8, <1>9, <1>10, OneRowRInv

\* One token is put on one node.
LEMMA LandRInv ==
  ASSUME RInv, Idle, IInv({})', Evolves({}, task', last'), Calm(task'), last' = last,
         state' = state, NEW t \in Id, task[t].st = "DOING",
         NEW n, NEW c, Run(<<[node |-> n, parent |-> t]>>, c)
  PROVE  RInv'
  <1> DEFINE w == <<[node |-> n, parent |-> t]>>
  <1>1. Len(w) = 1 /\ w[1].parent = t
    OBVIOUS
  <1>2. Run(w, c)
    OBVIOUS
  <1> HIDE DEF w
  <1>3. \A a \in 1 .. Len(w) :
          /\ w[a].parent = t
          /\ \A b \in 1 .. Len(w), x \in RecallNode : Leads(w[a], x) /\ Leads(w[b], x) => a = b
    BY <1>1
  <1>4. \A i \in Id : task[i].parent # t
    BY OpenIsLeaf DEF RInv
  <1> QED
    BY <1>2, <1>3, <1>4, OpenAtTask, GoRInv

LEMMA ExecuteAndJumpTaskRInv ==
  ASSUME RInv, NEW t \in Id, NEW u \in User, NEW target \in Node, NEW next \in Roster,
         ExecuteAndJumpTask(t, u, target, next)
  PROVE  RInv'
  <1> DEFINE c == [user |-> u, next |-> next,
                   home |-> {target} \cap FirstTaskNode \cap OfType(Flow, "task")]
  <1>1. Idle /\ Allowed(t, u) /\ task[t].st = "DOING" /\ IInv({})
    BY DEF ExecuteAndJumpTask, Allowed, RInv
  <1>2. Evolves({}, task', last') /\ IInv({})'
    BY <1>1, ExecuteAndJumpTaskKeeps
  <1>3. Calm(task')
    BY <1>1, CompletedCalm DEF ExecuteAndJumpTask, Submit
  <1>4. last' = last /\ state' = state /\ Run(<<[node |-> target, parent |-> t]>>, c)
    BY DEF ExecuteAndJumpTask
  <1> HIDE DEF c
  <1> QED
    BY <1>1, <1>2, <1>3, <1>4, LandRInv

LEMMA ExecuteAndJumpToFirstTaskNodeRInv ==
  ASSUME RInv, NEW t \in Id, NEW u \in User, ExecuteAndJumpToFirstTaskNode(t, u)
  PROVE  RInv'
  <1>1. Idle /\ Allowed(t, u) /\ task[t].st = "DOING" /\ IInv({}) /\ task[t].node \in Node
    BY DEF ExecuteAndJumpToFirstTaskNode, Allowed, RInv, IInv, TypeOK, Row
  <1>2. Evolves({}, task', last') /\ IInv({})'
    BY <1>1, ExecuteAndJumpToFirstTaskNodeKeeps
  <1>3. Calm(task')
    BY <1>1, LeftCalm DEF ExecuteAndJumpToFirstTaskNode, Submit
  <1>4. last' = last /\ state' = state
    BY DEF ExecuteAndJumpToFirstTaskNode
  <1>5. PICK n \in firstAfterStart(Flow, {"task", "custom"}) :
          Run(<<[node |-> n, parent |-> t]>>, [user |-> u, next |-> << >>, home |-> {n}])
    BY DEF ExecuteAndJumpToFirstTaskNode
  <1> QED
    BY <1>1, <1>2, <1>3, <1>4, <1>5, LandRInv

LEMMA ReturnForChangeRInv ==
  ASSUME RInv, NEW t \in Id, NEW u \in User, ReturnForChange(t, u)
  PROVE  RInv'
  <1> DEFINE d == DropOpenAt(Completed(t, u, "return"), task[t].node)
             row(n) == [NewRow(n, t, {Initiator}) EXCEPT
                          !.back = [src |-> t, branch |-> task[t].scopes]]
  <1>1. Idle /\ Allowed(t, u) /\ task[t].st = "DOING" /\ IInv({}) /\ task[t].node \in Node
    BY DEF ReturnForChange, Allowed, RInv, IInv, TypeOK, Row
  <1>2. Evolves({}, task', last') /\ IInv({})'
    BY <1>1, ReturnForChangeKeeps
  <1>3. Calm(d)
    BY <1>1, LeftCalm DEF Submit
  <1>4. PICK n \in firstAfterStart(Flow, {"task"}) : task' = Appended(d, << row(n) >>)
    BY DEF ReturnForChange
  <1>5. last' = last + 1 /\ state' = state /\ work' = work /\ saved' = saved
    BY DEF ReturnForChange
  <1>6. row(n).node = n /\ row(n).parent = t
    BY DEF NewRow
  <1>7. Flow.type[n] = "task"
    BY DEF firstAfterStart
  <1> HIDE DEF d, row
  <1> QED
    BY <1>1, <1>2, <1>3, <1>4, <1>5, <1>6, <1>7, NextRowRInv

\* What is below the row was never handled and is dropped now: the row is void,
\* and the new one stands for it.
LEMMA RecallTaskRInv ==
  ASSUME RInv, NEW t \in Id, NEW u \in User, RecallTask(t, u)
  PROVE  RInv'
  <1> DEFINE D == recallDescendants(t) \cap DoingIn(task)
             e == [i \in Id |-> IF i \in D THEN [task[i] EXCEPT !.st = "ABANDONED"] ELSE task[i]]
             r == NewRow(task[t].node, task[t].parent, task[t].actors)
  <1>1. /\ Idle /\ task[t].st = "DONE" /\ IInv({}) /\ last \in Nat /\ task \in [Id -> Row]
        /\ Flow.type[task[t].node] = "task"
    BY DEF RecallTask, RInv, IInv, TypeOK
  <1>2. Evolves({}, task', last') /\ IInv({})'
    BY <1>1, RecallTaskKeeps
  <1>3. Calm(e)
    <2>1. Calm(task)
      BY DEF Calm
    <2> HIDE DEF D
    <2> QED
      BY <1>1, <2>1, DropCalm DEF Dropped
  <1>4. /\ task' = Appended(e, << r >>) /\ last' = last + 1
        /\ state' = state /\ work' = work /\ saved' = saved
    BY DEF RecallTask
  <1>5. r.node = task[t].node /\ r.parent = task[t].parent
    BY DEF NewRow
  <1>6. ASSUME NEW x \in Id, task[x].parent = t
        PROVE  e[x].st \in Dropped
    <2>1. x \in recallDescendants(t)
      BY <1>1, <1>6, RecallHeirs, HeirsFixed
    <2>2. task[x].st \in RowState /\ task[x].st # "DONE"
      BY <1>1, <2>1 DEF RecallTask, RecallWindow, Row
    <2>3. CASE x \in D
      <3>1. [task[x] EXCEPT !.st = "ABANDONED"].st = "ABANDONED"
        BY <1>1 DEF Row
      <3> QED
        BY <2>3, <3>1 DEF Dropped
    <2>4. CASE x \notin D
      <3>1. task[x].st # "DOING"
        BY <1>1, <2>1, <2>4 DEF DoingIn
      <3> QED
        BY <2>2, <2>4, <3>1 DEF RowState, Dropped
    <2> QED
      BY <2>3, <2>4
  <1> HIDE DEF e, r, D
  <1>7. /\ \A i \in Id : task'[i] = e[i]
        /\ task'[last + 1] = r
    <2>1. last + 1 \in last+1 .. last+1
      BY <1>1
    <2> QED
      BY <1>1, <1>4, <2>1, AppendedRow
  <1>8. task[t].parent \in 0 .. t-1 /\ t \in 1 .. last
    BY <1>1 DEF IInv, Sound, RefsOK, Id
  <1>9. Void(task', last', t)
    <2>1. task'[t].st = "DONE"
      BY <1>1, <1>2 DEF Evolves
    <2>2. ASSUME NEW x \in 1 .. last', task'[x].parent = t PROVE task'[x].st \in Dropped
      <3>1. CASE x \in Id
        <4>1. task[x].parent = t
          BY <1>2, <2>2, <3>1 DEF Evolves
        <4> QED
          BY <1>6, <1>7, <3>1, <4>1
      <3>2. CASE x \notin Id
        <4>1. x = last + 1
          BY <1>1, <1>4, <3>2 DEF Id
        <4> QED
          BY <1>5, <1>7, <1>8, <2>2, <4>1
      <3> QED
        BY <3>1, <3>2
    <2> QED
      BY <2>1, <2>2 DEF Void
  <1>10. t \in Older(task', last + 1)
    <2>1. task'[t].node = task[t].node /\ task'[t].parent = task[t].parent
      BY <1>2 DEF Evolves
    <2>2. t \in 1 .. (last + 1) - 1
      BY <1>1, <1>8
    <2> QED
      BY <1>5, <1>7, <2>1, <2>2 DEF Older
  <1>11. Replaces(task', last', work', last + 1)
    <2>1. Unheld(t, work')
      BY <1>1, <1>4 DEF Unheld, Idle
    <2> QED
      BY <1>9, <1>10, <2>1 DEF Replaces
  <1>12. Source(r.parent)
    BY <1>1, <1>5 DEF Source, Dropped
  <1>13. Asks(r)
    BY <1>1, <1>5 DEF Asks
  <1> QED
    BY <1>1, <1>2, <1>3, <1>4, <1>11, <1>12, <1>13, OneRowRInv

LEMMA withdrawRInv ==
  ASSUME RInv, NEW u \in User, withdraw(u)
  PROVE  RInv'
  <1>1. Idle /\ IInv({}) /\ task \in [Id -> Row]
    BY DEF withdraw, RInv, IInv, TypeOK
  <1>2. Evolves({}, task', last') /\ IInv({})'
    BY <1>1, withdrawKeeps
  <1>3. Calm(task')
    <2>1. Calm(task)
      BY DEF Calm
    <2> QED
      BY <1>1, <2>1, DropCalm DEF withdraw, Dropped
  <1>4. last' = last /\ state' # "NONE" /\ work' = work /\ saved' = saved
    BY DEF withdraw
  <1> QED
    BY <1>1, <1>2, <1>3, <1>4, SettleRInv

LEMMA ExecuteRInv ==
  ASSUME RecallsApart, RInv, NEW t \in Id, NEW u \in User, Execute(t, u)
  PROVE  RInv'
  <1>1. \A submit \in Submits : submit \in Submit
    BY InputAssumption DEF Submit
  <1>2. \A roster \in NextOps \cup SignOps : roster \in Roster
    BY InputAssumption
  <1>3. CASE executeReapply(t, u)
    BY <1>3, executeReapplyRInv
  <1>4. ASSUME NEW submit \in Submits, ExecuteWait(t, u, submit)
        PROVE  RInv'
    BY <1>1, <1>4, ExecuteWaitRInv
  <1>5. ASSUME NEW submit \in Submits, ExecuteNextMember(t, u, submit)
        PROVE  RInv'
    BY <1>1, <1>5, ExecuteNextMemberRInv
  <1>6. ASSUME NEW submit \in Submits, NEW ops \in SignOps, ExecuteAddSign(t, u, submit, ops)
        PROVE  RInv'
    BY <1>1, <1>2, <1>6, ExecuteAddSignRInv
  <1>7. ASSUME NEW submit \in Submits, NEW next \in NextOps, ExecuteAdvance(t, u, submit, next)
        PROVE  RInv'
    BY <1>1, <1>2, <1>7, ExecuteAdvanceRInv
  <1> QED
    BY <1>3, <1>4, <1>5, <1>6, <1>7 DEF Execute

LEMMA RowCommandRInv ==
  ASSUME RecallsApart, RInv, NEW t \in Id, NEW u \in User, RowCommand(t, u)
  PROVE  RInv'
  <1>1. CASE Execute(t, u)
    BY <1>1, ExecuteRInv
  <1>2. CASE ExecuteAndJumpToEnd(t, u)
    BY <1>2, ExecuteAndJumpToEndRInv
  <1>3. CASE rollbackToParent(t, u)
    BY <1>3, rollbackToParentRInv
  <1>4. ASSUME NEW target \in JumpTargets, NEW next \in NextOps,
               ExecuteAndJumpTask(t, u, target, next)
        PROVE  RInv'
    <2>1. target \in Node /\ next \in Roster
      BY InputAssumption
    <2> QED
      BY <1>4, <2>1, ExecuteAndJumpTaskRInv
  <1>5. CASE Return(t, u)
    BY <1>5, ReturnForChangeRInv, ExecuteAndJumpToFirstTaskNodeRInv, ReturnFailsRInv DEF Return
  <1>6. CASE RecallTask(t, u)
    BY <1>6, RecallTaskRInv
  <1> QED
    BY <1>1, <1>2, <1>3, <1>4, <1>5, <1>6 DEF RowCommand

LEMMA NextRInv ==
  ASSUME RecallsApart, RInv, [Next]_vars
  PROVE  RInv'
  <1>1. CASE Next
    BY <1>1, StepRInv, StartProcessInstanceRInv, RowCommandRInv, withdrawRInv DEF Next
  <1>2. CASE UNCHANGED vars
    <2>1. IInv({})'
      BY <1>2, StutterKeeps DEF RInv
    <2> QED
      BY <1>2, <2>1, RInvNext DEF RInv, Restores, vars
  <1> QED
    BY <1>1, <1>2

LEMMA InitRInv ==
  ASSUME Init
  PROVE  RInv
  <1>1. IInv({})
    BY InitIInv
  <1>2. Restores(NoSnapshot)
    BY SnapshotRestores
  <1> QED
    BY <1>1, <1>2 DEF Init, RInv, Restores, Undone, Parted, Unstarted

\* No command, failure or recall makes two tokens of one row lead to the same
\* task, or lets anything come of a row that was taken back.
THEOREM RecallInductive == ASSUME RecallsApart PROVE Spec => []RInv
  <1>1. Init => RInv
    BY InitRInv
  <1>2. RInv /\ [Next]_vars => RInv'
    BY NextRInv
  <1> QED
    BY <1>1, <1>2, PTL DEF Spec

\* A row that a recall made stands for an older row, and all that followed that
\* row was dropped without having been handled (RecallTask).
THEOREM TakenBack == ASSUME RecallsApart PROVE Spec => []RecallUndoes
  <1>1. RInv => RecallUndoes
    <2> SUFFICES ASSUME RInv, NEW k \in DoingIn(task),
                        Props[task[k].node].recall, task[k].owner = NoUser,
                        NEW o \in 1 .. k-1, task[o].node = task[k].node,
                        task[o].parent = task[k].parent
                 PROVE  \E i \in 1 .. k-1 :
                          /\ task[i].node = task[k].node /\ task[i].parent = task[k].parent
                          /\ \A d \in recallDescendants(i) : task[d].st \in {"ABANDONED", "WITHDRAW"}
      BY DEF RecallUndoes
    <2>1. /\ k \in Id /\ task[k].st = "DOING" /\ IInv({}) /\ last \in Nat
          /\ task[k].node \in Node /\ k \in 1 .. last
      BY DEF RInv, IInv, TypeOK, DoingIn, Row, Id
    <2>2. Recalled(task[k]) /\ o \in Older(task, k)
      BY <2>1, OpenAtTask DEF Recalled, RecallNode, OfType, Node, Older
    <2>3. PICK i \in Older(task, k) : Void(task, last, i)
      BY <2>1, <2>2 DEF RInv, Undone, Replaces
    <2>4. i \in Id /\ i \in 1 .. k-1
      BY <2>1 DEF Older, Id
    <2> DEFINE S == { x \in Id : task[x].parent = i }
    <2>5. \A x \in S : task[x].st \in Dropped
      BY <2>3 DEF Void, Id
    <2>6. ClosedBelow(i, S)
      <3> SUFFICES ASSUME NEW x \in Id, task[x].parent \in S PROVE FALSE
        BY DEF ClosedBelow
      <3>1. task[task[x].parent].st \in Dropped /\ task[x].parent \in 1 .. last
        BY <2>5 DEF Id
      <3>2. RefsOK({}, task, x)
        BY <2>1 DEF IInv, Sound, Id
      <3> QED
        BY <3>1, <3>2 DEF RefsOK, Below, Handled, Dropped
    <2>7. recallDescendants(i) \subseteq S
      <3>1. recallDescendants(i) = Heirs(i)
        BY <2>1, <2>4, RecallHeirs
      <3>2. S \in SUBSET Id
        OBVIOUS
      <3> HIDE DEF S
      <3> QED
        BY <2>6, <3>1, <3>2 DEF Heirs
    <2> QED
      BY <2>4, <2>5, <2>7 DEF Older, Dropped
  <1> QED
    BY <1>1, RecallInductive, PTL

-----------------------------------------------------------------------------
(* What a join lets through: the inductive invariant, of the rows 1 .. n of a *)
(* table d and the nodes w still to be executed.                             *)

\* Row i lies in round r of join j.  Row q has a row behind the join below it:
\* its round was let through in its name.  Row i keeps the round from that.
InRound(d, i, j, r) == d[i].scopes[j].root # 0 /\ d[i].scopes[j].round = r
Beyond(x, j) == j \notin ScopesOfNode[x] /\ x \notin FirstTaskNode
Through(d, n, j, r, q) ==
  /\ q \in 1 .. n /\ InRound(d, q, j, r)
  /\ \E i \in 1 .. n : d[i].parent = q /\ Beyond(d[i].node, j)
Hampers(d, i, j, r) ==
  /\ d[i].st = "DOING"
  /\ \/ InRound(d, i, j, r)
     \/ d[i].back.branch[j].root # 0 /\ d[i].back.branch[j].round = r

Unpassed(d, n, j, r) == \A q \in 1 .. n : ~ Through(d, n, j, r, q)
PassedBy(d, n, j, r, p) ==
  /\ \A i \in 1 .. n : ~ Hampers(d, i, j, r)
  /\ \A q \in 1 .. n : Through(d, n, j, r, q) => q = p

\* Nothing has come through the join, or from one row, and nothing keeps it.
Passes(d, n, j, r) == Unpassed(d, n, j, r) \/ \E p \in 1 .. n : PassedBy(d, n, j, r, p)
PassedOnce(d, n) == \A j \in Join, r \in 0 .. n : Passes(d, n, j, r)

\* The scopes of row x are those its node and its parent imply, an apply row
\* keeps those of the row it waits for, and a round starts at a handled row.
Suits(d, x) ==
  /\ Asks(x)
  /\ \A j \in Join :
       /\ x.scopes[j].root # 0 =>
            /\ j \in ScopesOfNode[x.node]
            /\ x.scopes[j].round # 0 => Handled(d[x.scopes[j].round])
       /\ x.back.branch[j].root # 0 =>
            x.back.src # 0 /\ x.back.branch = d[x.back.src].scopes
       /\ x.parent # 0 =>
            /\ d[x.parent].back.branch[j].root # 0 =>
                 x.scopes[j] = d[x.parent].back.branch[j]
            /\ /\ d[x.parent].scopes[j].root # 0 /\ j \in ScopesOfNode[x.node]
               /\ Flow.type[x.node] = "task"
               /\ ~ (x.node \in Sequential /\ x.node = d[x.parent].node)
               => x.scopes[j] = d[x.parent].scopes[j]
AllSuit(d, n) == \A i \in 1 .. n : Suits(d, d[i])

\* The tokens of a walk come from one row p.  Of each range p lies in they are
\* all inside, and nothing has come through the join, or all behind it.
Inside(d, n, w, p, j, r) ==
  (\A a \in 1 .. Len(w) : StaysIn(j, w[a].node)) /\ Unpassed(d, n, j, r)
Behind(d, n, w, p, j, r) ==
  (\A a \in 1 .. Len(w) : StaysBehind(j, w[a].node)) /\ PassedBy(d, n, j, r, p)
Joinless(w) == \A a \in 1 .. Len(w) : Met({w[a].node}) \cap Join = {}
Walks(d, n, w, p) ==
  /\ \A a \in 1 .. Len(w) : w[a].parent = p
  /\ Len(w) <= 1 \/ Joinless(w)
  /\ \A i \in 1 .. n, j \in Join : InRound(d, i, j, p) => d[i].st = "DOING"
  /\ p # 0 => \A j \in Join :
       /\ d[p].back.branch[j].root = 0
       /\ d[p].scopes[j].root # 0 =>
            LET r == d[p].scopes[j].round
            IN  Inside(d, n, w, p, j, r) \/ Behind(d, n, w, p, j, r)

Rejoins(s) == AllSuit(s.task, s.last) /\ PassedOnce(s.task, s.last) /\ Unstarted(s.state, s.last, << >>)
JInv(H) ==
  /\ IInv(H) /\ AllSuit(task, last) /\ PassedOnce(task, last)
  /\ Unstarted(state, last, work)
  /\ work # << >> => Walks(task, last, work, Current.parent)
  /\ Rejoins(saved)

-----------------------------------------------------------------------------
(* How the rounds fare when a command appends rows below row p. *)

Grows(H, p) == /\ Evolves(H, task', last') /\ p \in 0 .. last
               /\ \A x \in last+1 .. last' : task'[x].parent = p
ComesThrough(p, j, r) == /\ p \in Id /\ InRound(task, p, j, r)
                         /\ \E x \in last+1 .. last' : Beyond(task'[x].node, j)
NewHampers(j, r) == \E x \in last+1 .. last' : Hampers(task', x, j, r)

LEMMA GrownThrough ==
  ASSUME NEW H, IInv(H), NEW p, Grows(H, p), NEW j \in Join, NEW r, NEW q,
         Through(task', last', j, r, q)
  PROVE  Through(task, last, j, r, q) \/ (q = p /\ ComesThrough(p, j, r))
  <1>0. /\ last \in Nat /\ last' \in Nat /\ last <= last'
        /\ \A i \in Id : /\ task'[i].node = task[i].node /\ task'[i].parent = task[i].parent
                         /\ task'[i].scopes = task[i].scopes
    BY DEF Evolves, IInv, TypeOK, Grows
  <1>1. PICK i \in 1 .. last' : task'[i].parent = q /\ Beyond(task'[i].node, j)
    BY DEF Through
  <1>2. q \in 1 .. last' /\ InRound(task', q, j, r)
    BY DEF Through
  <1>3. CASE i \in Id
    <2>1. task[i].parent \in 0 .. i-1 /\ task[i].parent = q /\ Beyond(task[i].node, j)
      BY <1>0, <1>1, <1>3 DEF IInv, Sound, RefsOK, Id
    <2>2. q \in Id /\ q \in 1 .. last
      BY <1>0, <1>2, <1>3, <2>1 DEF Id
    <2>3. InRound(task, q, j, r)
      BY <1>0, <1>2, <2>2 DEF InRound
    <2> QED
      BY <1>3, <2>1, <2>2, <2>3 DEF Through, Id
  <1>4. CASE i \notin Id
    <2>1. i \in last+1 .. last'
      BY <1>0, <1>4 DEF Id
    <2>2. q = p /\ p \in Id
      BY <1>0, <1>1, <1>2, <2>1 DEF Grows, Id
    <2>3. InRound(task, p, j, r)
      BY <1>0, <1>2, <2>2 DEF InRound
    <2> QED
      BY <1>1, <2>1, <2>2, <2>3 DEF ComesThrough
  <1> QED
    BY <1>3, <1>4

LEMMA GrownHampers ==
  ASSUME NEW H, IInv(H), Evolves(H, task', last'), NEW j \in Join, NEW r, NEW i \in 1 .. last',
         Hampers(task', i, j, r)
  PROVE  (i \in 1 .. last /\ Hampers(task, i, j, r)) \/ NewHampers(j, r)
  <1>0. last \in Nat /\ last' \in Nat /\ last <= last'
    BY DEF Evolves, IInv, TypeOK
  <1>1. CASE i \in Id
    <2>1. /\ task[i].st # "DOING" => task'[i] = task[i]
          /\ task'[i].scopes = task[i].scopes /\ task'[i].back = task[i].back
      BY <1>1 DEF Evolves
    <2> QED
      BY <1>1, <2>1 DEF Hampers, InRound, Id
  <1>2. CASE i \notin Id
    BY <1>0, <1>2 DEF Id, NewHampers
  <1> QED
    BY <1>1, <1>2

LEMMA StillUnpassed ==
  ASSUME NEW H, IInv(H), NEW p, Grows(H, p), NEW j \in Join, NEW r, ~ ComesThrough(p, j, r),
         Unpassed(task, last, j, r)
  PROVE  Unpassed(task', last', j, r)
  <1> SUFFICES ASSUME NEW q \in 1 .. last', Through(task', last', j, r, q) PROVE FALSE
    BY DEF Unpassed
  <1>1. Through(task, last, j, r, q)
    BY GrownThrough
  <1>2. q \in 1 .. last
    BY <1>1 DEF Through
  <1> QED
    BY <1>1, <1>2 DEF Unpassed

LEMMA StillPassed ==
  ASSUME NEW H, IInv(H), NEW p, Grows(H, p), NEW j \in Join, NEW r, NEW k,
         ComesThrough(p, j, r) => k = p, ~ NewHampers(j, r), PassedBy(task, last, j, r, k)
  PROVE  PassedBy(task', last', j, r, k)
  <1>1. ASSUME NEW i \in 1 .. last' PROVE ~ Hampers(task', i, j, r)
    BY GrownHampers DEF Grows, PassedBy
  <1>2. ASSUME NEW q \in 1 .. last', Through(task', last', j, r, q) PROVE q = k
    <2>1. CASE Through(task, last, j, r, q)
      <3>1. q \in 1 .. last
        BY <2>1 DEF Through
      <3> QED
        BY <2>1, <3>1 DEF PassedBy
    <2> QED
      BY <1>2, <2>1, GrownThrough
  <1> QED
    BY <1>1, <1>2 DEF PassedBy

\* New rows do not lie in a round that is let through, and only the row it was let
\* through in the name of gets rows behind the join.
Timely(p, j, r) ==
  /\ NewHampers(j, r) => Unpassed(task, last, j, r)
  /\ ComesThrough(p, j, r) => \/ Through(task, last, j, r, p)
                              \/ PassedBy(task, last, j, r, p) /\ ~ NewHampers(j, r)

LEMMA RoundKept ==
  ASSUME NEW H, IInv(H), NEW p, Grows(H, p), NEW j \in Join, NEW r, Timely(p, j, r),
         Passes(task, last, j, r)
  PROVE  Passes(task', last', j, r)
  <1>0. \A k \in 1 .. last : k \in 1 .. last'
    BY DEF Grows, Evolves, IInv, TypeOK
  <1>1. CASE Unpassed(task, last, j, r) /\ ~ ComesThrough(p, j, r)
    BY <1>1, StillUnpassed DEF Passes
  <1>2. CASE ~ Unpassed(task, last, j, r)
    <2>1. PICK k \in 1 .. last : PassedBy(task, last, j, r, k)
      BY <1>2 DEF Passes
    <2>2. ComesThrough(p, j, r) => k = p
      <3>1. PICK q \in 1 .. last : Through(task, last, j, r, q)
        BY <1>2 DEF Unpassed
      <3>2. q = k
        BY <2>1, <3>1 DEF PassedBy
      <3> SUFFICES ASSUME ComesThrough(p, j, r) PROVE k = p
        OBVIOUS
      <3>3. CASE Through(task, last, j, r, p)
        <4>1. p \in 1 .. last
          BY <3>3 DEF Through
        <4> QED
          BY <2>1, <3>3, <4>1 DEF PassedBy
      <3>4. CASE PassedBy(task, last, j, r, p)
        BY <3>1, <3>2, <3>4 DEF PassedBy
      <3> QED
        BY <3>3, <3>4 DEF Timely
    <2>3. ~ NewHampers(j, r)
      BY <1>2 DEF Timely
    <2>4. PassedBy(task', last', j, r, k)
      BY <2>1, <2>2, <2>3, StillPassed
    <2> QED
      BY <1>0, <2>4 DEF Passes
  <1>3. CASE Unpassed(task, last, j, r) /\ ComesThrough(p, j, r)
    <2>1. p \in 1 .. last
      BY <1>3 DEF ComesThrough, Id
    <2>2. ~ Through(task, last, j, r, p)
      BY <1>3, <2>1 DEF Unpassed
    <2>3. PassedBy(task, last, j, r, p) /\ ~ NewHampers(j, r)
      BY <1>3, <2>2 DEF Timely
    <2>4. PassedBy(task', last', j, r, p)
      BY <2>3, StillPassed
    <2> QED
      BY <1>0, <2>1, <2>4 DEF Passes
  <1> QED
    BY <1>1, <1>2, <1>3

\* A row lies in no round but of older rows.
LEMMA EveryRound ==
  ASSUME NEW H, IInv(H), PassedOnce(task, last), NEW j \in Join, NEW r
  PROVE  Passes(task, last, j, r)
  <1>1. CASE r \in 0 .. last
    BY <1>1 DEF PassedOnce
  <1>2. CASE r \notin 0 .. last
    <2> SUFFICES ASSUME NEW q \in 1 .. last, InRound(task, q, j, r) PROVE FALSE
      BY DEF Passes, Unpassed, Through
    <2>1. task[q].scopes[j] \in Scope /\ last \in Nat
      BY DEF IInv, TypeOK, Row, Id
    <2>2. ScopeOK(task, q, j, task[q].scopes[j])
      BY DEF IInv, Sound, ScopesOK
    <2> QED
      BY <1>2, <2>1, <2>2 DEF ScopeOK, InRound, Scope
  <1> QED
    BY <1>1, <1>2

LEMMA RoundsKept ==
  ASSUME NEW H, IInv(H), PassedOnce(task, last), NEW p, Grows(H, p),
         \A j \in Join : \A r : Timely(p, j, r)
  PROVE  PassedOnce(task', last')
  <1> SUFFICES ASSUME NEW j \in Join, NEW r \in 0 .. last' PROVE Passes(task', last', j, r)
    BY DEF PassedOnce
  <1> QED
    BY EveryRound, RoundKept

-----------------------------------------------------------------------------
(* Rows keep the scopes they were made with. *)

LEMMA OldSuits ==
  ASSUME NEW H, IInv(H), Evolves(H, task', last'), NEW i \in Id, Suits(task, task[i])
  PROVE  Suits(task', task'[i])
  <1>0. last \in Nat /\ i \in 1 .. last
    BY DEF IInv, TypeOK, Id
  <1>1. \A k \in Id : /\ task[k].st # "DOING" => task'[k] = task[k]
                      /\ task'[k].node = task[k].node /\ task'[k].parent = task[k].parent
                      /\ task'[k].scopes = task[k].scopes /\ task'[k].back = task[k].back
    BY DEF Evolves
  <1>2. /\ task[i].parent # 0 => task[i].parent \in Id
        /\ task[i].back.src # 0 => task[i].back.src \in Id
    BY <1>0 DEF IInv, Sound, RefsOK, Id
  <1>3. Asks(task'[i])
    BY <1>1 DEF Suits, Asks
  <1> SUFFICES ASSUME NEW j \in Join
               PROVE  /\ task'[i].scopes[j].root # 0 =>
                           /\ j \in ScopesOfNode[task'[i].node]
                           /\ task'[i].scopes[j].round # 0 => Handled(task'[task'[i].scopes[j].round])
                      /\ task'[i].back.branch[j].root # 0 =>
                           task'[i].back.src # 0 /\ task'[i].back.branch = task'[task'[i].back.src].scopes
                      /\ task'[i].parent # 0 =>
                           /\ task'[task'[i].parent].back.branch[j].root # 0 =>
                                task'[i].scopes[j] = task'[task'[i].parent].back.branch[j]
                           /\ /\ task'[task'[i].parent].scopes[j].root # 0
                              /\ j \in ScopesOfNode[task'[i].node]
                              /\ Flow.type[task'[i].node] = "task"
                              /\ ~ (task'[i].node \in Sequential
                                    /\ task'[i].node = task'[task'[i].parent].node)
                              => task'[i].scopes[j] = task'[task'[i].parent].scopes[j]
    BY <1>3 DEF Suits
  <1>4. task[i].scopes[j].root # 0 =>
          /\ j \in ScopesOfNode[task[i].node]
          /\ task[i].scopes[j].round # 0 => Handled(task'[task[i].scopes[j].round])
    <2>1. task[i].scopes[j] \in Scope /\ ScopeOK(task, i, j, task[i].scopes[j])
      BY <1>0 DEF IInv, TypeOK, Row, Sound, ScopesOK
    <2>2. task[i].scopes[j].root # 0 /\ task[i].scopes[j].round # 0 => task[i].scopes[j].round \in Id
      BY <1>0, <2>1 DEF Scope, ScopeOK, Id
    <2>3. task[i].scopes[j].root # 0 =>
            /\ j \in ScopesOfNode[task[i].node]
            /\ task[i].scopes[j].round # 0 => Handled(task[task[i].scopes[j].round])
      BY DEF Suits
    <2> QED
      BY <1>1, <2>2, <2>3 DEF Handled
  <1>5. task[i].back.branch[j].root # 0 =>
          task[i].back.src # 0 /\ task[i].back.branch = task[task[i].back.src].scopes
    BY DEF Suits
  <1>6. task[i].parent # 0 =>
          /\ task[task[i].parent].back.branch[j].root # 0 =>
               task[i].scopes[j] = task[task[i].parent].back.branch[j]
          /\ /\ task[task[i].parent].scopes[j].root # 0
             /\ j \in ScopesOfNode[task[i].node]
             /\ Flow.type[task[i].node] = "task"
             /\ ~ (task[i].node \in Sequential /\ task[i].node = task[task[i].parent].node)
             => task[i].scopes[j] = task[task[i].parent].scopes[j]
    BY DEF Suits
  <1>7. /\ task'[i].node = task[i].node /\ task'[i].parent = task[i].parent
        /\ task'[i].scopes = task[i].scopes /\ task'[i].back = task[i].back
    BY <1>1
  <1>8. task'[i].back.branch[j].root # 0 =>
          task'[i].back.src # 0 /\ task'[i].back.branch = task'[task'[i].back.src].scopes
    BY <1>1, <1>2, <1>5, <1>7
  <1>9. task[i].parent # 0 =>
          /\ task'[task[i].parent].node = task[task[i].parent].node
          /\ task'[task[i].parent].scopes = task[task[i].parent].scopes
          /\ task'[task[i].parent].back = task[task[i].parent].back
    BY <1>1, <1>2
  <1>10. task'[i].scopes[j].root # 0 =>
           /\ j \in ScopesOfNode[task'[i].node]
           /\ task'[i].scopes[j].round # 0 => Handled(task'[task'[i].scopes[j].round])
    BY <1>4, <1>7
  <1> QED
    BY <1>6, <1>7, <1>8, <1>9, <1>10

LEMMA RowsSuit ==
  ASSUME NEW H, IInv(H), Evolves(H, task', last'), AllSuit(task, last),
         \A x \in last+1 .. last' : Suits(task', task'[x])
  PROVE  AllSuit(task', last')
  <1>1. \A i \in 1 .. last' : i \in Id \/ i \in last+1 .. last'
    BY DEF IInv, TypeOK, Evolves, Id
  <1>2. \A i \in Id : Suits(task, task[i])
    BY DEF AllSuit, Id
  <1> QED
    BY <1>1, <1>2, OldSuits DEF AllSuit

\* A row that is asked for keeps its round from being let through.
LEMMA Hampered ==
  ASSUME NEW H, IInv(H), PassedOnce(task, last), NEW i \in Id, NEW j \in Join, NEW r,
         Hampers(task, i, j, r)
  PROVE  Unpassed(task, last, j, r)
  <1>1. Passes(task, last, j, r)
    BY EveryRound
  <1> QED
    BY <1>1 DEF Passes, PassedBy, Id

\* What makes up JInv' after a step.
Joined(H) == IInv(H)' /\ AllSuit(task', last') /\ PassedOnce(task', last')
            /\ Unstarted(state', last', work')
LEMMA JInvNext ==
  ASSUME NEW H, Joined(H), Rejoins(saved'),
         work' # << >> => Walks(task', last', work', Head(work').parent)
  PROVE  JInv(H)'
  <1>1. JInv(H)' <=> /\ Joined(H)
                     /\ work' # << >> => Walks(task', last', work', Head(work').parent)
                     /\ Rejoins(saved')
    BY DEF JInv, Joined, AllSuit, Suits, Asks, Handled, PassedOnce, Passes, Unpassed, PassedBy,
           Through, Hampers, InRound, Beyond, Unstarted, Walks, Inside, Behind, Joinless, StaysIn,
           StaysBehind, MetBefore, ClosedBefore, Met, Closed, Rejoins, Current
  <1> QED
    BY <1>1

LEMMA RunRejoins ==
  ASSUME NEW H, JInv(H), NEW w, NEW c, Run(w, c)
  PROVE  Rejoins(saved') /\ work' = w
  <1>1. Rejoins(NoSnapshot)
    BY DEF Rejoins, NoSnapshot, AllSuit, PassedOnce, Passes, Unpassed, Unstarted
  <1>2. Idle => Rejoins(Snapshot)
    BY DEF JInv, Rejoins, Snapshot, Unstarted, Idle
  <1>3. Rejoins(saved)
    BY DEF JInv
  <1> QED
    BY <1>1, <1>2, <1>3 DEF Run

\* A command that executes no node.
LEMMA IdleJInv ==
  ASSUME NEW H, JInv(H), Idle, IInv(H)', NEW p, Grows(H, p),
         \A x \in last+1 .. last' : Suits(task', task'[x]),
         \A j \in Join : \A r : Timely(p, j, r),
         work' = work, saved' = saved, state' # "NONE"
  PROVE  JInv(H)'
  <1>1. work' = << >> /\ Rejoins(saved')
    BY DEF Idle, JInv
  <1>2. AllSuit(task', last')
    BY RowsSuit DEF JInv, Grows
  <1>3. PassedOnce(task', last')
    BY RoundsKept DEF JInv
  <1>4. Joined(H)
    BY <1>2, <1>3 DEF Joined, Unstarted
  <1> QED
    BY <1>1, <1>4, JInvNext

\* A command that settles rows and appends none.
LEMMA SameRows ==
  ASSUME NEW H, IInv(H), Evolves(H, task', last'), last' = last, NEW p \in 0 .. last
  PROVE  /\ Grows(H, p) /\ \A j \in Join : \A r : Timely(p, j, r) /\ ~ ComesThrough(p, j, r)
         /\ \A x \in last+1 .. last' : Suits(task', task'[x])
  <1>1. last+1 .. last' = {}
    BY DEF IInv, TypeOK
  <1> QED
    BY <1>1 DEF Grows, Timely, ComesThrough, NewHampers

LEMMA SettleJInv ==
  ASSUME NEW H, JInv(H), Idle, IInv(H)', Evolves(H, task', last'), last' = last,
         state' # "NONE", work' = work, saved' = saved
  PROVE  JInv(H)'
  <1>1. IInv(H) /\ 0 \in 0 .. last
    BY DEF JInv, IInv, TypeOK
  <1>2. /\ Grows(H, 0) /\ \A j \in Join : \A r : Timely(0, j, r)
        /\ \A x \in last+1 .. last' : Suits(task', task'[x])
    BY <1>1, SameRows
  <1> QED
    BY <1>2, IdleJInv

\* A command that sends tokens w on the way from its open row t.
LEMMA GoJInv ==
  ASSUME NEW H, JInv(H), Idle, IInv(H)', Evolves(H, task', last'), last' = last, state' # "NONE",
         NEW t \in Id, task[t].st = "DOING", task[t].back.src = 0,
         NEW w \in Seq(WorkItem), NEW c, Run(w, c), \A a \in 1 .. Len(w) : w[a].parent = t,
         Len(w) <= 1 \/ Joinless(w),
         \A j \in ScopesOfNode[task[t].node] : \A a \in 1 .. Len(w) : StaysIn(j, w[a].node)
  PROVE  JInv(H)'
  <1>0. IInv(H) /\ last \in Nat /\ t \in 1 .. last /\ t \in 0 .. last /\ t # 0
        /\ Suits(task, task[t]) /\ \A i \in 1 .. last : Suits(task, task[i])
    BY DEF JInv, IInv, TypeOK, Id, AllSuit
  <1>1. /\ Grows(H, t) /\ \A j \in Join : \A r : Timely(t, j, r) /\ ~ ComesThrough(t, j, r)
        /\ \A x \in last+1 .. last' : Suits(task', task'[x])
    BY <1>0, SameRows
  <1>2. AllSuit(task', last') /\ PassedOnce(task', last')
    BY <1>0, <1>1, RowsSuit, RoundsKept DEF JInv
  <1>3. work' = w /\ Rejoins(saved')
    BY RunRejoins
  <1>4. Joined(H)
    BY <1>2 DEF Joined, Unstarted
  <1>5. \A i \in 1 .. last : /\ task'[i].scopes = task[i].scopes
                             /\ task'[i].back = task[i].back
    BY DEF Evolves, Id
  <1>6. ASSUME NEW i \in 1 .. last', NEW j \in Join, InRound(task', i, j, t) PROVE task'[i].st = "DOING"
    <2>1. InRound(task, i, j, t) /\ Suits(task, task[i])
      BY <1>0, <1>5, <1>6 DEF InRound
    <2>2. Handled(task[t])
      BY <1>0, <2>1 DEF InRound, Suits
    <2> QED
      BY <2>2 DEF Handled
  <1>7. ASSUME NEW j \in Join
        PROVE  /\ task'[t].back.branch[j].root = 0
               /\ task'[t].scopes[j].root # 0 =>
                    Inside(task', last', w, t, j, task'[t].scopes[j].round)
    <2>1. task[t].back.branch[j].root = 0
      BY <1>0 DEF Suits
    <2>2. ASSUME task[t].scopes[j].root # 0
          PROVE  Inside(task', last', w, t, j, task[t].scopes[j].round)
      <3>1. j \in ScopesOfNode[task[t].node]
        BY <1>0, <2>2 DEF Suits
      <3>2. Hampers(task, t, j, task[t].scopes[j].round)
        BY <2>2 DEF Hampers, InRound
      <3>3. Unpassed(task, last, j, task[t].scopes[j].round)
        BY <1>0, <3>2, Hampered DEF JInv
      <3>4. Unpassed(task', last', j, task[t].scopes[j].round)
        BY <1>0, <1>1, <3>3, StillUnpassed
      <3> QED
        BY <3>1, <3>4 DEF Inside
    <2> QED
      BY <1>0, <1>5, <2>1, <2>2
  <1>8. Walks(task', last', w, t)
    BY <1>6, <1>7 DEF Walks
  <1>9. w # << >> => Head(w).parent = t
    <2> SUFFICES ASSUME w # << >> PROVE Head(w).parent = t
      OBVIOUS
    <2>1. Len(w) \in Nat \ {0} /\ Head(w) = w[1]
      OBVIOUS
    <2> QED
      BY <2>1
  <1> QED
    BY <1>3, <1>4, <1>8, <1>9, JInvNext

-----------------------------------------------------------------------------
(* Tokens inside a range, and behind its join. *)

LEMMA MetFrom ==
  ASSUME NEW m \in Node, NEW x \in outgoingTargets(Flow, m), Flow.type[m] # "task"
  PROVE  Met({x}) \subseteq Met({m})
  <1>1. m \in Met({m})
    BY MetHas
  <1>2. x \in Met({m})
    BY <1>1, MetGoes
  <1> SUFFICES ASSUME NEW y \in Met({x}), NEW C \in SUBSET Node, {m} \subseteq C, Closed(C)
               PROVE  y \in C
    BY DEF Met
  <1>3. x \in C
    BY <1>2 DEF Met
  <1> QED
    BY <1>3 DEF Met

LEMMA MetBeforeFrom ==
  ASSUME NEW m \in Node, NEW x \in outgoingTargets(Flow, m), Flow.type[m] # "task",
         NEW j, m # j
  PROVE  m \in MetBefore(j, m) /\ MetBefore(j, x) \subseteq MetBefore(j, m)
  <1>1. m \in MetBefore(j, m)
    BY DEF MetBefore
  <1> SUFFICES ASSUME NEW y \in MetBefore(j, x), NEW C \in SUBSET Node, m \in C, ClosedBefore(j, C)
               PROVE  y \in C
    BY <1>1 DEF MetBefore
  <1>2. x \in C
    BY DEF ClosedBefore
  <1> QED
    BY <1>2 DEF MetBefore

LEMMA StaysOn ==
  ASSUME NEW m \in Node, NEW x \in outgoingTargets(Flow, m), Flow.type[m] # "task", NEW j
  PROVE  /\ StaysIn(j, m) /\ m # j => StaysIn(j, x)
         /\ StaysBehind(j, m) => StaysBehind(j, x)
  BY MetFrom, MetBeforeFrom DEF StaysIn, StaysBehind

LEMMA StaysHere ==
  ASSUME NEW m \in Node \cap Recorded, NEW j
  PROVE  /\ StaysIn(j, m) => ~ Beyond(m, j)
         /\ StaysBehind(j, m) => j \notin ScopesOfNode[m]
  <1>1. m \in Met({m}) /\ m \in MetBefore(j, m)
    BY DEF Met, MetBefore
  <1> QED
    BY <1>1 DEF StaysIn, StaysBehind, Beyond

\* The walk replaces its first token by the tokens w.
LEMMA Tokens ==
  ASSUME work \in Seq(WorkItem), work # << >>, NEW w \in Seq(WorkItem)
  PROVE  LET s == w \o Tail(work)
         IN  /\ Len(s) = Len(w) + Len(work) - 1
             /\ \A a \in 1 .. Len(s) : \/ \E b \in 1 .. Len(w) : s[a] = w[b]
                                       \/ \E b \in 2 .. Len(work) : s[a] = work[b]
             /\ Len(work) \in Nat \ {0} /\ Current = work[1]
  <1>1. /\ Len(work) \in Nat \ {0} /\ Current = work[1] /\ Tail(work) \in Seq(WorkItem)
        /\ Len(Tail(work)) = Len(work) - 1
        /\ \A k \in 1 .. Len(work) - 1 : Tail(work)[k] = work[k+1]
    BY DEF Current
  <1> DEFINE s == w \o Tail(work)
  <1>2. /\ Len(s) = Len(w) + Len(Tail(work))
        /\ \A i \in 1 .. Len(w) + Len(Tail(work)) :
             s[i] = IF i <= Len(w) THEN w[i] ELSE Tail(work)[i - Len(w)]
    BY <1>1, ConcatProperties
  <1>3. Len(w) \in Nat
    OBVIOUS
  <1> HIDE DEF s
  <1>4. Len(s) = Len(w) + Len(work) - 1
    BY <1>1, <1>2, <1>3
  <1>5. ASSUME NEW a \in 1 .. Len(s)
        PROVE  \/ \E b \in 1 .. Len(w) : s[a] = w[b]
               \/ \E b \in 2 .. Len(work) : s[a] = work[b]
    <2>1. CASE a <= Len(w)
      BY <1>2, <1>3, <2>1
    <2>2. CASE ~ (a <= Len(w))
      <3>1. a - Len(w) \in 1 .. Len(work) - 1
        BY <1>1, <1>3, <1>4, <2>2
      <3>2. s[a] = Tail(work)[a - Len(w)]
        BY <1>1, <1>2, <1>3, <1>4, <2>2
      <3>3. a - Len(w) + 1 \in 2 .. Len(work)
        BY <1>1, <1>3, <3>1
      <3>4. s[a] = work[a - Len(w) + 1]
        BY <1>1, <3>1, <3>2
      <3> QED
        BY <3>3, <3>4
    <2> QED
      BY <2>1, <2>2
  <1> QED
    BY <1>1, <1>4, <1>5 DEF s

\* What a step of the walk writes: rows at the current node that belong to a
\* round of the row the token comes from, or start one.
Here == LET p == Current.parent
        IN  \A x \in last+1 .. last' :
              /\ Current.node \in Recorded /\ task'[x].node = Current.node
              /\ task'[x].back = NoBack
              /\ \A j \in Join : task'[x].scopes[j].root # 0 =>
                   /\ j \in ScopesOfNode[Current.node] /\ task'[x].st = "DOING"
                   /\ \/ task'[x].scopes[j].round = p
                      \/ p # 0 /\ task[p].scopes[j] = task'[x].scopes[j]

LEMMA Started ==
  ASSUME NEW H, JInv(H), ~ Idle, NEW j \in Join
  PROVE  Unpassed(task, last, j, Current.parent)
  <1> SUFFICES ASSUME NEW q \in 1 .. last, Through(task, last, j, Current.parent, q) PROVE FALSE
    BY DEF Unpassed
  <1>1. task[q].st = "DOING"
    BY DEF JInv, Walks, Through, Idle
  <1>2. PICK i \in 1 .. last : task[i].parent = q /\ Beyond(task[i].node, j)
    BY DEF Through
  <1>3. RefsOK(H, task, i) /\ q # 0
    BY <1>2 DEF JInv, IInv, TypeOK, Sound
  <1>4. j \in ScopesOfNode[task[q].node]
    BY DEF Through, InRound, JInv, AllSuit, Suits
  <1>5. task[i].node # task[q].node
    BY <1>2, <1>4 DEF Beyond
  <1> QED
    BY <1>1, <1>2, <1>3, <1>5 DEF RefsOK, Below, Handled

LEMMA WalkTimely ==
  ASSUME NEW H, JInv(H), ~ Idle, Grows(H, Current.parent), Here, NEW j \in Join, NEW r
  PROVE  /\ Timely(Current.parent, j, r)
         /\ StaysBehind(j, Current.node) => ~ NewHampers(j, r)
         /\ StaysIn(j, Current.node) => ~ ComesThrough(Current.parent, j, r)
  <1> DEFINE p == Current.parent
             n == Current.node
  <1>0. /\ n \in Node /\ p \in 0 .. last /\ last \in Nat
        /\ work # << >> /\ 1 \in 1 .. Len(work) /\ Current = work[1]
    BY CurrentTyped DEF JInv, IInv, TypeOK, Idle, Current
  <1>1. InRound(task, p, j, r) /\ p # 0 =>
          \/ StaysIn(j, n) /\ Unpassed(task, last, j, r)
          \/ StaysBehind(j, n) /\ PassedBy(task, last, j, r, p)
    BY <1>0 DEF JInv, Walks, Inside, Behind, InRound
  <1>2. ASSUME NEW x \in last+1 .. last', Hampers(task', x, j, r)
        PROVE  /\ n \in Recorded /\ j \in ScopesOfNode[n]
               /\ r = p \/ (p # 0 /\ InRound(task, p, j, r))
    <2>1. NoBack.branch[j].root = 0
      BY DEF NoBack, NoScopes, NoScope
    <2>2. InRound(task', x, j, r)
      BY <1>2, <2>1 DEF Hampers, Here
    <2> QED
      BY <2>2 DEF InRound, Here
  <1>3. NewHampers(j, r) => Unpassed(task, last, j, r)
    <2> SUFFICES ASSUME NEW x \in last+1 .. last', Hampers(task', x, j, r)
                 PROVE  Unpassed(task, last, j, r)
      BY DEF NewHampers
    <2>1. n \in Recorded /\ j \in ScopesOfNode[n] /\ (r = p \/ (p # 0 /\ InRound(task, p, j, r)))
      BY <1>2
    <2>2. ~ StaysBehind(j, n)
      BY <1>0, <2>1, StaysHere
    <2> QED
      BY <1>1, <2>1, <2>2, Started
  <1>4. ASSUME ComesThrough(p, j, r)
        PROVE  PassedBy(task, last, j, r, p) /\ ~ NewHampers(j, r) /\ ~ StaysIn(j, n)
    <2>1. PICK x \in last+1 .. last' : Beyond(task'[x].node, j)
      BY <1>4 DEF ComesThrough
    <2>2. n \in Recorded /\ Beyond(n, j)
      BY <2>1 DEF Here
    <2>3. ~ StaysIn(j, n) /\ j \notin ScopesOfNode[n]
      BY <1>0, <2>2, StaysHere DEF Beyond
    <2>4. InRound(task, p, j, r) /\ p # 0
      BY <1>4 DEF ComesThrough, Id
    <2> QED
      BY <1>1, <1>2, <2>3, <2>4 DEF NewHampers
  <1>5. StaysBehind(j, n) => ~ NewHampers(j, r)
    BY <1>0, <1>2, StaysHere DEF NewHampers
  <1> QED
    BY <1>3, <1>4, <1>5 DEF Timely

\* A step of the walk that goes on with the tokens w.
Onward(w) ==
  /\ \A a \in 1 .. Len(w) : /\ w[a].parent = Current.parent
                            /\ w[a].node \in outgoingTargets(Flow, Current.node)
                            /\ Flow.type[Current.node] # "task"
  /\ Len(w) <= 1 \/ Joinless(w)
  /\ w # << >> /\ Current.node \in Join =>
       mergeReady(Current.node, Current.parent) /\ UNCHANGED <<task, last>>

LEMMA WalkJoinless ==
  ASSUME NEW H, JInv(H), ~ Idle, NEW w \in Seq(WorkItem), Onward(w)
  PROVE  LET s == w \o Tail(work)
         IN  /\ \A a \in 1 .. Len(s) : s[a].parent = Current.parent
             /\ Len(s) <= 1 \/ Joinless(s)
  <1> DEFINE s == w \o Tail(work)
  <1>0. /\ work \in Seq(WorkItem) /\ work # << >> /\ Current.node \in Node
        /\ \A a \in 1 .. Len(work) : work[a].parent = Current.parent
        /\ Len(work) <= 1 \/ Joinless(work)
    BY CurrentTyped DEF JInv, IInv, TypeOK, Idle, Walks
  <1>1. /\ Len(s) = Len(w) + Len(work) - 1
        /\ \A a \in 1 .. Len(s) : \/ \E b \in 1 .. Len(w) : s[a] = w[b]
                                  \/ \E b \in 2 .. Len(work) : s[a] = work[b]
        /\ Len(work) \in Nat \ {0} /\ Current = work[1]
    BY <1>0, Tokens
  <1> HIDE DEF s
  <1>2. Len(w) \in Nat
    OBVIOUS
  <1>3. \A b \in 2 .. Len(work) : b \in 1 .. Len(work)
    BY <1>1
  <1>4. ASSUME NEW a \in 1 .. Len(s) PROVE s[a].parent = Current.parent
    BY <1>0, <1>1, <1>3, SMTT(30) DEF Onward
  <1>5. CASE Len(work) <= 1
    <2>1. 2 .. Len(work) = {} /\ Len(s) = Len(w)
      BY <1>1, <1>2, <1>5
    <2>2. Joinless(w) => Joinless(s)
      BY <1>1, <2>1 DEF Joinless
    <2> QED
      BY <1>4, <2>1, <2>2 DEF Onward, s
  <1>6. CASE ~ (Len(work) <= 1)
    <2>1. \A b \in 1 .. Len(work) : Met({work[b].node}) \cap Join = {}
      BY <1>0, <1>6 DEF Joinless
    <2>2. Met({Current.node}) \cap Join = {}
      BY <1>1, <2>1
    <2>3. ASSUME NEW b \in 1 .. Len(w) PROVE Met({w[b].node}) \cap Join = {}
      BY <1>0, <2>2, MetFrom DEF Onward
    <2>4. Joinless(s)
      BY <1>1, <1>3, <2>1, <2>3 DEF Joinless
    <2> QED
      BY <1>4, <2>4 DEF s
  <1> QED
    BY <1>5, <1>6

\* When the join lets the round through, nothing keeps it.
LEMMA Ready ==
  ASSUME NEW H, JInv(H), NEW j \in Join, NEW p \in Id, task[p].scopes[j].root # 0, mergeReady(j, p),
         Unpassed(task, last, j, task[p].scopes[j].round)
  PROVE  PassedBy(task, last, j, task[p].scopes[j].round, p)
  <1> DEFINE r == task[p].scopes[j].round
  <1>1. ASSUME NEW i \in 1 .. last, Hampers(task, i, j, r) PROVE FALSE
    <2>1. i \in DoingIn(task)
      BY <1>1 DEF Hampers, DoingIn, JInv, IInv, TypeOK, Id
    <2>2. ~ Blocks(i, j, r)
      BY <2>1 DEF mergeReady, Id
    <2>3. task[i].back.branch[j].root # 0 => task[i].back.src # 0
      BY DEF JInv, AllSuit, Suits
    <2> QED
      BY <1>1, <2>2, <2>3 DEF Blocks, Hampers, InRound
  <1>2. ASSUME NEW q \in 1 .. last, Through(task, last, j, r, q) PROVE q = p
    BY <1>2 DEF Unpassed
  <1> HIDE DEF r
  <1> QED
    BY <1>1, <1>2 DEF PassedBy, r

LEMMA WalkRanges ==
  ASSUME NEW H, BranchesMeet, JInv(H), ~ Idle, Grows(H, Current.parent), Here,
         NEW w \in Seq(WorkItem), Onward(w), NEW s, s = w \o Tail(work),
         NEW j \in Join, NEW r,
         Current.parent \in Id, InRound(task, Current.parent, j, r)
  PROVE  \/ Inside(task', last', s, Current.parent, j, r)
         \/ Behind(task', last', s, Current.parent, j, r)
  <1> DEFINE p == Current.parent
             n == Current.node
  <1>0. /\ work \in Seq(WorkItem) /\ work # << >> /\ n \in Node /\ p # 0 /\ IInv(H)
        /\ Len(work) <= 1 \/ Joinless(work)
        /\ Inside(task, last, work, p, j, r) \/ Behind(task, last, work, p, j, r)
    <2>1. work # << >> /\ p # 0 /\ IInv(H) /\ Walks(task, last, work, p)
      BY DEF JInv, Idle, Id
    <2>2. work \in Seq(WorkItem) /\ n \in Node
      BY <2>1, CurrentTyped DEF IInv, TypeOK
    <2>3. Len(work) <= 1 \/ Joinless(work)
      BY <2>1 DEF Walks
    <2>4. Inside(task, last, work, p, j, r) \/ Behind(task, last, work, p, j, r)
      BY <2>1 DEF Walks, InRound
    <2> QED
      BY <2>1, <2>2, <2>3, <2>4
  <1>1. /\ \A a \in 1 .. Len(s) : \/ \E b \in 1 .. Len(w) : s[a] = w[b]
                                  \/ \E b \in 2 .. Len(work) : s[a] = work[b]
        /\ Len(work) \in Nat \ {0} /\ Current = work[1]
    BY <1>0, Tokens
  <1>2. 1 \in 1 .. Len(work) /\ \A b \in 2 .. Len(work) : b \in 1 .. Len(work)
    BY <1>1
  <1>3. CASE Behind(task, last, work, p, j, r)
    <2>1. \A b \in 1 .. Len(work) : StaysBehind(j, work[b].node)
      BY <1>3 DEF Behind
    <2>2. StaysBehind(j, n)
      BY <1>1, <1>2, <2>1
    <2>3. \A b \in 1 .. Len(w) : StaysBehind(j, w[b].node)
      BY <1>0, <2>2, StaysOn DEF Onward
    <2>4. PassedBy(task', last', j, r, p)
      <3>1. ~ NewHampers(j, r)
        BY <2>2, WalkTimely
      <3>2. PassedBy(task, last, j, r, p)
        BY <1>3 DEF Behind
      <3> QED
        BY <1>0, <3>1, <3>2, StillPassed
    <2> QED
      BY <1>1, <1>2, <2>1, <2>3, <2>4 DEF Behind
  <1>4. CASE Inside(task, last, work, p, j, r) /\ (n # j \/ w = << >>)
    <2>1. \A b \in 1 .. Len(work) : StaysIn(j, work[b].node)
      BY <1>4 DEF Inside
    <2>2. StaysIn(j, n)
      BY <1>1, <1>2, <2>1
    <2>3. ASSUME NEW b \in 1 .. Len(w) PROVE StaysIn(j, w[b].node)
      <3>1. w # << >>
        OBVIOUS
      <3> QED
        BY <1>0, <1>4, <2>2, <3>1, StaysOn DEF Onward
    <2>4. Unpassed(task', last', j, r)
      <3>1. ~ ComesThrough(p, j, r)
        BY <2>2, WalkTimely
      <3>2. Unpassed(task, last, j, r)
        BY <1>4 DEF Inside
      <3> QED
        BY <1>0, <3>1, <3>2, StillUnpassed
    <2> QED
      BY <1>1, <1>2, <2>1, <2>3, <2>4 DEF Inside
  <1>5. CASE Inside(task, last, work, p, j, r) /\ n = j /\ w # << >>
    <2>1. mergeReady(j, p) /\ UNCHANGED <<task, last>>
      BY <1>5 DEF Onward
    <2>2. PassedBy(task, last, j, r, p)
      BY <1>5, <2>1, Ready DEF Inside, InRound
    <2>3. PassedBy(task', last', j, r, p)
      BY <2>1, <2>2
    <2>4. \A b \in 1 .. Len(w) : StaysBehind(j, w[b].node)
      BY <1>5 DEF Onward, BranchesMeet
    <2>5. 2 .. Len(work) = {}
      <3> SUFFICES ASSUME ~ (Len(work) <= 1) PROVE FALSE
        BY <1>1
      <3>1. Met({n}) \cap Join = {}
        BY <1>0, <1>1, <1>2 DEF Joinless
      <3>2. n \in Met({n})
        BY <1>0, MetHas
      <3> QED
        BY <1>5, <3>1, <3>2
    <2> QED
      BY <1>1, <2>3, <2>4, <2>5 DEF Behind
  <1> QED
    BY <1>0, <1>3, <1>4, <1>5

LEMMA WalkJInv ==
  ASSUME NEW H, BranchesMeet, JInv(H), ~ Idle, IInv(H)', Grows(H, Current.parent), Here,
         \A i \in Id : task'[i] = task[i],
         \A x \in last+1 .. last' : Suits(task', task'[x]),
         NEW w \in Seq(WorkItem), Onward(w), Run(w \o Tail(work), cmd), state' # "NONE"
  PROVE  JInv(H)'
  <1> DEFINE p == Current.parent
             s == w \o Tail(work)
  <1>0. /\ IInv(H) /\ p \in 0 .. last /\ last \in Nat /\ last' \in Nat /\ last <= last'
    BY CurrentTyped DEF JInv, IInv, TypeOK, Grows, Evolves
  <1>1. /\ AllSuit(task', last') /\ PassedOnce(task', last')
        /\ work' = s /\ Rejoins(saved')
    <2>1. \A j \in Join : \A r : Timely(p, j, r)
      BY WalkTimely
    <2> QED
      BY <1>0, <2>1, RowsSuit, RoundsKept, RunRejoins DEF JInv, Grows
  <1>2. /\ \A a \in 1 .. Len(s) : s[a].parent = p
        /\ Len(s) <= 1 \/ Joinless(s)
    BY WalkJoinless
  <1>3. ASSUME NEW i \in 1 .. last', NEW j \in Join, InRound(task', i, j, p)
        PROVE  task'[i].st = "DOING"
    <2>1. CASE i \in Id
      BY <1>3, <2>1 DEF JInv, Walks, InRound, Id, Idle
    <2>2. CASE i \notin Id
      <3>1. i \in last+1 .. last'
        BY <1>0, <2>2 DEF Id
      <3> QED
        BY <1>3, <3>1 DEF Here, InRound
    <2> QED
      BY <2>1, <2>2
  <1>4. s \in Seq(WorkItem)
    BY <1>0, CurrentTyped, ConcatProperties
  <1>5. s # << >> => Head(s).parent = p
    <2> HIDE DEF s
    <2> SUFFICES ASSUME s # << >> PROVE Head(s).parent = p
      OBVIOUS
    <2>1. Len(s) \in Nat \ {0} /\ Head(s) = s[1]
      BY <1>4
    <2> QED
      BY <1>2, <2>1
  <1>6. ASSUME p # 0, NEW j \in Join
        PROVE  /\ task'[p].back.branch[j].root = 0
               /\ task'[p].scopes[j].root # 0 =>
                    \/ Inside(task', last', s, p, j, task'[p].scopes[j].round)
                    \/ Behind(task', last', s, p, j, task'[p].scopes[j].round)
    <2>1. p \in Id
      BY <1>0, <1>6 DEF Id
    <2>2. task[p].back.branch[j].root = 0
      BY <1>6 DEF JInv, Walks, Idle
    <2>3. task[p].scopes[j].root # 0 => InRound(task, p, j, task[p].scopes[j].round)
      BY DEF InRound
    <2> QED
      BY <2>1, <2>2, <2>3, WalkRanges
  <1> HIDE DEF s
  <1>7. Walks(task', last', s, p)
    BY <1>2, <1>3, <1>6 DEF Walks
  <1>8. Joined(H)
    BY <1>1 DEF Joined, Unstarted
  <1> QED
    BY <1>1, <1>5, <1>7, <1>8, JInvNext

-----------------------------------------------------------------------------
(* The rows a command makes. *)

LEMMA NewSuits ==
  ASSUME NEW H, IInv(H), Evolves(H, task', last'), NEW y, y.parent \in 0 .. last,
         y.back.src \in 0 .. last,
         Asks(y),
         \A j \in Join :
           /\ y.scopes[j].root # 0 => /\ j \in ScopesOfNode[y.node]
                                      /\ y.scopes[j].round # 0 => Handled(task'[y.scopes[j].round])
           /\ y.back.branch[j].root # 0 =>
                y.back.src # 0 /\ y.back.branch = task[y.back.src].scopes
           /\ y.parent # 0 =>
                /\ task[y.parent].back.branch[j].root # 0 =>
                     y.scopes[j] = task[y.parent].back.branch[j]
                /\ /\ task[y.parent].scopes[j].root # 0 /\ j \in ScopesOfNode[y.node]
                   /\ Flow.type[y.node] = "task"
                   /\ ~ (y.node \in Sequential /\ y.node = task[y.parent].node)
                   => y.scopes[j] = task[y.parent].scopes[j]
  PROVE  Suits(task', y)
  <1>1. last \in Nat
    BY DEF IInv, TypeOK
  <1>2. /\ y.parent # 0 => /\ task'[y.parent].node = task[y.parent].node
                           /\ task'[y.parent].scopes = task[y.parent].scopes
                           /\ task'[y.parent].back = task[y.parent].back
        /\ y.back.src # 0 => task'[y.back.src].scopes = task[y.back.src].scopes
    BY <1>1 DEF Evolves, Id
  <1> QED
    BY <1>2 DEF Suits

\* A round that a row lies in started at a row that is still handled.
LEMMA RoundHandled ==
  ASSUME NEW H, JInv(H), Evolves(H, task', last'), NEW i \in Id, NEW j \in Join,
         task[i].scopes[j].root # 0, task[i].scopes[j].round # 0
  PROVE  Handled(task'[task[i].scopes[j].round])
  <1>1. Suits(task', task'[i])
    BY OldSuits DEF JInv, AllSuit, Id
  <1>2. task'[i].scopes = task[i].scopes
    BY DEF Evolves
  <1> QED
    BY <1>1, <1>2 DEF Suits

LEMMA RowFacts ==
  ASSUME NEW H, JInv(H), NEW i \in Id, NEW j \in Join
  PROVE  /\ Asks(task[i])
         /\ task[i].scopes[j].root # 0 => j \in ScopesOfNode[task[i].node]
         /\ task[i].back.branch[j].root # 0 =>
              task[i].back.src # 0 /\ task[i].back.branch = task[task[i].back.src].scopes
         /\ task[i].parent # 0 =>
              /\ task[task[i].parent].back.branch[j].root # 0 =>
                   task[i].scopes[j] = task[task[i].parent].back.branch[j]
              /\ /\ task[task[i].parent].scopes[j].root # 0 /\ j \in ScopesOfNode[task[i].node]
                 /\ Flow.type[task[i].node] = "task"
                 /\ ~ (task[i].node \in Sequential /\ task[i].node = task[task[i].parent].node)
                 => task[i].scopes[j] = task[task[i].parent].scopes[j]
         /\ task[i].parent \in 0 .. last /\ task[i].back.src \in 0 .. last
  <1>1. last \in Nat /\ i \in 1 .. last
    BY DEF JInv, IInv, TypeOK, Id
  <1>2. Suits(task, task[i])
    BY <1>1 DEF JInv, AllSuit
  <1>3. task[i].parent \in 0 .. i-1 /\ task[i].back.src \in 0 .. i-1
    BY <1>1 DEF JInv, IInv, Sound, RefsOK
  <1>4. task[i].parent \in 0 .. last /\ task[i].back.src \in 0 .. last
    BY <1>1, <1>3
  <1> QED
    BY <1>2, <1>4 DEF Suits

\* A row whose scopes buildScopes made.
LEMMA BuiltSuits ==
  ASSUME NEW H, JInv(H), Evolves(H, task', last'), NEW n, Flow.type[n] = "task",
         NEW p \in 0 .. last,
         p # 0 => Handled(task'[p]) /\ \A j \in Join : task[p].back.branch[j].root = 0,
         NEW x, NEW y, y.node = n, y.parent = p, y.back = NoBack, y.scopes = buildScopes(n, p, x)
  PROVE  /\ Suits(task', y)
         /\ \A j \in Join : y.scopes[j].root # 0 =>
              /\ j \in ScopesOfNode[n]
              /\ y.scopes[j].round = p \/ (p # 0 /\ task[p].scopes[j] = y.scopes[j])
  <1>0. IInv(H) /\ last \in Nat /\ NoBack.src = 0 /\ NoScope.root = 0
        /\ \A j \in Join : NoBack.branch[j].root = 0
    BY DEF JInv, IInv, TypeOK, NoBack, NoScopes, NoScope
  <1>1. \A j \in Join :
          y.scopes[j] = IF j \notin ScopesOfNode[n] THEN NoScope
                        ELSE IF p # 0 /\ task[p].scopes[j].root # 0 THEN task[p].scopes[j]
                        ELSE [round |-> p, root |-> x]
    BY DEF buildScopes
  <1>2. ASSUME NEW j \in Join, y.scopes[j].root # 0
        PROVE  /\ j \in ScopesOfNode[n]
               /\ y.scopes[j].round = p \/ (p # 0 /\ task[p].scopes[j] = y.scopes[j])
               /\ y.scopes[j].round # 0 => Handled(task'[y.scopes[j].round])
    <2>1. j \in ScopesOfNode[n]
      BY <1>0, <1>1, <1>2
    <2>2. CASE p # 0 /\ task[p].scopes[j].root # 0
      <3>1. p \in Id
        BY <1>0, <2>2 DEF Id
      <3> QED
        BY <1>1, <2>1, <2>2, <3>1, RoundHandled
    <2>3. CASE ~ (p # 0 /\ task[p].scopes[j].root # 0)
      <3>1. y.scopes[j].round = p
        BY <1>1, <2>1, <2>3
      <3> QED
        BY <2>1, <3>1
    <2> QED
      BY <2>2, <2>3
  <1>3. Asks(y)
    BY DEF Asks
  <1>4. ASSUME NEW j \in Join, p # 0
        PROVE  /\ task[p].back.branch[j].root = 0
               /\ task[p].scopes[j].root # 0 /\ j \in ScopesOfNode[n] =>
                    y.scopes[j] = task[p].scopes[j]
    BY <1>1, <1>4
  <1>5. Suits(task', y)
    BY <1>0, <1>2, <1>3, <1>4, NewSuits
  <1> QED
    BY <1>2, <1>5

\* A row outside every range.
LEMMA BareSuits ==
  ASSUME NEW H, JInv(H), Evolves(H, task', last'), NEW y, y.parent \in 0 .. last,
         y.scopes = NoScopes,
         y.back.src \in 0 .. last,
         y.back = NoBack \/ (y.back.src # 0 /\ y.back.branch = task[y.back.src].scopes),
         Asks(y),
         y.parent # 0 => \A j \in Join :
           /\ task[y.parent].back.branch[j].root = 0
           /\ \/ task[y.parent].scopes[j].root = 0
              \/ j \notin ScopesOfNode[y.node]
              \/ Flow.type[y.node] # "task"
              \/ y.node \in Sequential /\ y.node = task[y.parent].node
  PROVE  Suits(task', y)
  <1>1. \A j \in Join : NoBack.branch[j].root = 0 /\ y.scopes[j].root = 0
    BY DEF NoBack, NoScopes, NoScope
  <1>2. IInv(H)
    BY DEF JInv
  <1> QED
    BY <1>1, <1>2, NewSuits

-----------------------------------------------------------------------------
(* The steps of the walk. *)

LEMMA Underway ==
  ASSUME NEW H, JInv(H), ~ Idle
  PROVE  /\ IInv(H) /\ state # "NONE" /\ last \in Nat
         /\ Current.node \in Node /\ Current.parent \in 0 .. last
         /\ Current.parent # 0 =>
              /\ Current.parent \in Id /\ Handled(task[Current.parent])
              /\ \A j \in Join : task[Current.parent].back.branch[j].root = 0
  <1>1. IInv(H) /\ state # "NONE" /\ last \in Nat /\ Walks(task, last, work, Current.parent)
    BY DEF JInv, Unstarted, Idle, IInv, TypeOK
  <1>2. Current.node \in Node /\ Current.parent \in 0 .. last /\ SourceOK(task, last, Current.parent)
    BY <1>1, CurrentTyped
  <1> QED
    BY <1>1, <1>2 DEF SourceOK, Walks, Id

\* A step that leaves the table alone.
LEMMA PassJInv ==
  ASSUME NEW H, BranchesMeet, JInv(H), ~ Idle, IInv(H)', UNCHANGED <<task, last>>, state' # "NONE",
         NEW w \in Seq(WorkItem), Onward(w), Run(w \o Tail(work), cmd)
  PROVE  JInv(H)'
  <1>1. IInv(H) /\ last \in Nat /\ Current.parent \in 0 .. last
    BY Underway
  <1>2. Evolves(H, task', last') /\ last+1 .. last' = {}
    BY <1>1, SameTable
  <1>3. /\ Grows(H, Current.parent) /\ \A x \in last+1 .. last' : Suits(task', task'[x])
    BY <1>1, <1>2, SameRows
  <1>4. Here
    BY <1>2 DEF Here
  <1> QED
    BY <1>3, <1>4, WalkJInv

\* The tokens a row, or the start, sends on its outgoing edges.
LEMMA Leaves ==
  ASSUME BranchesMeet, NEW n \in Node, Flow.type[n] # "decision", NEW p \in Nat
  PROVE  LET w == Children(n, p)
         IN  /\ w \in Seq(WorkItem)
             /\ \A a \in 1 .. Len(w) : w[a].parent = p /\ w[a].node \in outgoingTargets(Flow, n)
             /\ Len(w) <= 1 \/ Joinless(w)
  <1> DEFINE w == Children(n, p)
  <1>1. /\ Len(w) = Len(Flow.succ[n]) /\ w \in Seq(WorkItem)
        /\ \A k \in 1 .. Len(w) : /\ w[k].parent = p
                                  /\ w[k].node \in outgoingTargets(Flow, n)
    <2>1. Flow.succ[n] \in Seq(Node) /\ Len(Flow.succ[n]) \in Nat
          /\ DOMAIN Flow.succ[n] = 1 .. Len(Flow.succ[n])
      BY PropTyped
    <2>2. w \in Seq(WorkItem)
      BY ChildrenTyped
    <2>3. /\ Len(w) = Len(Flow.succ[n])
          /\ \A k \in 1 .. Len(Flow.succ[n]) : w[k].parent = p /\ w[k].node = Flow.succ[n][k]
      BY <2>1 DEF Children
    <2> HIDE DEF w
    <2>4. \A k \in 1 .. Len(Flow.succ[n]) : Flow.succ[n][k] \in outgoingTargets(Flow, n)
      BY <2>1 DEF outgoingTargets, FlowRange
    <2> QED
      BY <2>2, <2>3, <2>4
  <1> HIDE DEF w
  <1>2. Len(w) <= 1 \/ Joinless(w)
    <2> SUFFICES ASSUME ~ (Len(w) <= 1) PROVE Joinless(w)
      OBVIOUS
    <2>1. Len(Flow.succ[n]) > 1 /\ n \in Node \ OfType(Flow, "decision")
      BY <1>1 DEF OfType
    <2>2. \A m \in outgoingTargets(Flow, n) : Met({m}) \cap Join = {}
      BY <2>1 DEF BranchesMeet
    <2> QED
      BY <1>1, <2>2 DEF Joinless
  <1> QED
    BY <1>1, <1>2 DEF w

LEMMA ChildrenOnward ==
  ASSUME NEW H, BranchesMeet, JInv(H), ~ Idle, Flow.type[Current.node] \notin {"task", "decision"},
         Current.node \in Join =>
           mergeReady(Current.node, Current.parent) /\ UNCHANGED <<task, last>>
  PROVE  LET w == Children(Current.node, Current.parent)
         IN  w \in Seq(WorkItem) /\ Onward(w)
  <1> DEFINE n == Current.node
             w == Children(n, Current.parent)
  <1>0. n \in Node /\ Current.parent \in Nat
    BY Underway
  <1>1. /\ w \in Seq(WorkItem)
        /\ Len(w) <= 1 \/ Joinless(w)
        /\ \A k \in 1 .. Len(w) : /\ w[k].parent = Current.parent
                                  /\ w[k].node \in outgoingTargets(Flow, n)
    BY <1>0, Leaves
  <1> HIDE DEF w
  <1> QED
    BY <1>1 DEF Onward, w

LEMMA NoneOnward == << >> \in Seq(WorkItem) /\ Onward(<< >>)
  <1>1. << >> \in Seq(WorkItem) /\ Len(<< >>) = 0 /\ 1 .. 0 = {}
    OBVIOUS
  <1> QED
    BY <1>1 DEF Onward

LEMMA PushJInv ==
  ASSUME NEW H, BranchesMeet, JInv(H), ~ Idle, IInv(H)', UNCHANGED <<state, task, last>>,
         Flow.type[Current.node] \notin {"task", "decision"},
         Current.node \in Join => mergeReady(Current.node, Current.parent),
         PushChildren(Current.node, Current.parent)
  PROVE  JInv(H)'
  <1>1. state' # "NONE"
    BY Underway
  <1> QED
    BY <1>1, ChildrenOnward, PassJInv DEF PushChildren

LEMMA UnwindJInv ==
  ASSUME NEW H, BranchesMeet, JInv(H), ~ Idle, IInv(H)', UNCHANGED <<task, last>>,
         state' # "NONE", Unwind
  PROVE  JInv(H)'
  <1>1. IInv(H)
    BY Underway
  <1>2. Run(<< >> \o Tail(work), cmd)
    BY <1>1, UnwindIsRun
  <1> QED
    BY <1>2, NoneOnward, PassJInv

LEMMA createTaskJInv ==
  ASSUME NEW H, BranchesMeet, JInv(H), createTask
  PROVE  JInv(H)'
  <1> DEFINE n == Current.node
             p == Current.parent
             roster == resolveActors(n)
             len == Len(Teams(n, roster))
  <1>0. /\ ~ Idle /\ IInv(H) /\ Flow.type[n] = "task"
        /\ Evolves(H, task', last') /\ IInv(H)'
    BY createTaskKeeps DEF createTask, Executing, JInv
  <1>1. n \in Node /\ roster \in Roster /\ last \in Nat /\ p \in 0 .. last /\ state # "NONE"
    BY <1>0, Underway, resolveActorsTyped
  <1>2. len \in Nat
    BY <1>1, TeamsTyped
  <1>4. last' = last + len /\ Unwind /\ state' = state
    BY <1>0, <1>1, createTaskRows DEF createTask
  <1>6. \A i \in Id : task'[i] = task[i]
    BY <1>0, <1>1, createTaskRows
  <1>7. ASSUME NEW x \in last+1 .. last'
        PROVE  /\ task'[x].node = n /\ task'[x].parent = p /\ task'[x].back = NoBack
               /\ task'[x].st = "DOING" /\ \E z : task'[x].scopes = buildScopes(n, p, z)
    BY <1>0, <1>1, createTaskRows
  <1> HIDE DEF len, roster
  <1>8. Grows(H, p)
    BY <1>0, <1>1, <1>7 DEF Grows
  <1>9. p # 0 => Handled(task'[p]) /\ \A j \in Join : task[p].back.branch[j].root = 0
    BY <1>0, <1>6, Underway
  <1>10. ASSUME NEW x \in last+1 .. last'
         PROVE  /\ Suits(task', task'[x])
                /\ \A j \in Join : task'[x].scopes[j].root # 0 =>
                     /\ j \in ScopesOfNode[n]
                     /\ \/ task'[x].scopes[j].round = p
                        \/ p # 0 /\ task[p].scopes[j] = task'[x].scopes[j]
    <2> DEFINE y == task'[x]
    <2>1. PICK z : y.scopes = buildScopes(n, p, z)
      BY <1>7
    <2>2. y.node = n /\ y.parent = p /\ y.back = NoBack
      BY <1>7
    <2> HIDE DEF y, n, p
    <2>3. /\ Suits(task', y)
          /\ \A j \in Join : y.scopes[j].root # 0 =>
               /\ j \in ScopesOfNode[n]
               /\ y.scopes[j].round = p \/ (p # 0 /\ task[p].scopes[j] = y.scopes[j])
      BY <1>0, <1>1, <1>9, <2>1, <2>2, BuiltSuits
    <2> QED
      BY <2>3 DEF y
  <1>11. Here
    BY <1>0, <1>1, <1>7, <1>10 DEF Here, Recorded, OfType, Node
  <1>12. Run(<< >> \o Tail(work), cmd)
    BY <1>0, <1>4, UnwindIsRun
  <1> QED
    BY <1>0, <1>1, <1>4, <1>6, <1>8, <1>10, <1>11, <1>12, NoneOnward, WalkJInv

LEMMA execCustomNodeJInv ==
  ASSUME NEW H, BranchesMeet, JInv(H), execCustomNode
  PROVE  JInv(H)'
  <1> DEFINE n == Current.node
             p == Current.parent
             r == [NewRow(n, p, {cmd.user}) EXCEPT !.st = "DONE", !.by = cmd.user]
             w == Children(n, p)
  <1>0. /\ ~ Idle /\ IInv(H) /\ Flow.type[n] = "custom"
        /\ Evolves(H, task', last') /\ IInv(H)'
    BY execCustomNodeKeeps DEF execCustomNode, Executing, JInv
  <1>1. n \in Node /\ last \in Nat /\ p \in 0 .. last /\ state # "NONE"
    BY <1>0, Underway
  <1>2. /\ task' = Appended(task, << r >>) /\ last' = last + 1 /\ state' = state
        /\ Run(w \o Tail(work), cmd)
    BY DEF execCustomNode, PushChildren
  <1>3. /\ r.node = n /\ r.parent = p /\ r.st = "DONE" /\ r.owner = NoUser
        /\ r.back = NoBack /\ r.scopes = NoScopes
    BY DEF NewRow
  <1> HIDE DEF r
  <1>4. /\ \A i \in Id : task'[i] = task[i]
        /\ \A x \in last+1 .. last' : task'[x] = r
    BY <1>1, <1>2, AppendedRow
  <1>5. Grows(H, p)
    BY <1>0, <1>1, <1>3, <1>4 DEF Grows
  <1>6. Suits(task', r)
    <2>1. Asks(r)
      BY <1>3, UserAssumption DEF Asks, Handled
    <2>2. NoBack.src \in 0 .. last
      BY <1>1 DEF NoBack
    <2>3. p # 0 => \A j \in Join : task[p].back.branch[j].root = 0
      BY <1>0, Underway
    <2>4. Flow.type[r.node] # "task"
      BY <1>0, <1>3
    <2> QED
      BY <1>0, <1>1, <1>3, <2>1, <2>2, <2>3, <2>4, BareSuits
  <1>7. Here
    <2>1. \A j \in Join : NoScopes[j].root = 0
      BY DEF NoScopes, NoScope
    <2> QED
      BY <1>0, <1>1, <1>3, <1>4, <2>1 DEF Here, Recorded, OfType, Node
  <1>8. w \in Seq(WorkItem) /\ Onward(w)
    <2>1. n \notin Join
      BY <1>0 DEF Join, OfType
    <2> QED
      BY <1>0, <2>1, ChildrenOnward
  <1> HIDE DEF w
  <1> QED
    BY <1>0, <1>1, <1>2, <1>4, <1>5, <1>6, <1>7, <1>8, WalkJInv

LEMMA evaluateDecisionJInv ==
  ASSUME NEW H, BranchesMeet, JInv(H), evaluateDecision
  PROVE  JInv(H)'
  <1>0. /\ ~ Idle /\ Flow.type[Current.node] = "decision" /\ IInv(H)'
        /\ UNCHANGED <<state, task, last>>
    BY evaluateDecisionKeeps DEF evaluateDecision, Executing, JInv
  <1>2. Current.node \in Node /\ Current.parent \in Nat /\ state' # "NONE"
    BY <1>0, Underway
  <1>3. PICK m \in Node : /\ m \in outgoingTargets(Flow, Current.node)
                          /\ Run(<<[node |-> m, parent |-> Current.parent]>> \o Tail(work), cmd)
    BY <1>2, RoutedBranch
  <1> DEFINE item == [node |-> m, parent |-> Current.parent]
             w == << item >>
  <1>4. item.node = m /\ item.parent = Current.parent /\ item \in WorkItem
    BY <1>2, <1>3 DEF WorkItem
  <1>5. Run(w \o Tail(work), cmd)
    BY <1>3
  <1> HIDE DEF item
  <1>6. w \in Seq(WorkItem) /\ Len(w) = 1 /\ w[1] = item
    BY <1>4
  <1> HIDE DEF w
  <1>7. Onward(w)
    <2>1. \A a \in 1 .. Len(w) : a = 1
      BY <1>6
    <2>2. Current.node \notin Join
      BY <1>0 DEF Join, OfType
    <2> QED
      BY <1>0, <1>3, <1>4, <1>6, <2>1, <2>2 DEF Onward
  <1> QED
    BY <1>0, <1>2, <1>5, <1>6, <1>7, PassJInv

LEMMA abortJInv ==
  ASSUME NEW H, JInv(H), abort
  PROVE  JInv(H)'
  <1>1. IInv(H)' /\ ~ Idle
    BY abortKeeps DEF JInv, abort, Executing
  <1>2. Run(<< >>, NoCmd)
    BY DEF abort
  <1>3. work' = << >> /\ Rejoins(saved')
    BY <1>2, RunRejoins
  <1>4. AllSuit(task', last') /\ PassedOnce(task', last') /\ Unstarted(state', last', << >>)
    <2>1. CASE Transactional
      BY <2>1 DEF abort, JInv, Rejoins
    <2>2. CASE ~ Transactional
      BY <1>1, <2>2, Underway DEF abort, JInv, Unstarted
    <2> QED
      BY <2>1, <2>2
  <1>5. Joined(H)
    BY <1>1, <1>3, <1>4 DEF Joined
  <1> QED
    BY <1>3, <1>5, JInvNext

LEMMA StepJInv ==
  ASSUME NEW H, BranchesMeet, JInv(H), Step
  PROVE  JInv(H)'
  <1>0. IInv(H)
    BY DEF JInv
  <1>1. CASE abort
    BY <1>1, abortJInv
  <1>2. CASE ~ abort
    <2>1. IInv(H)'
      BY <1>0, <1>2, StepKeeps
    <2>2. CASE executeFork
      BY <2>1, <2>2, PushJInv DEF executeFork, Executing, Join, OfType
    <2>3. CASE joinReleases
      BY <2>1, <2>3, PushJInv DEF joinReleases, Executing
    <2>4. CASE joinWaits \/ executeUnknown
      BY <2>1, <2>4, UnwindJInv, Underway DEF joinWaits, executeUnknown, Executing
    <2>5. CASE executeEnd
      BY <2>1, <2>5, UnwindJInv DEF executeEnd, Executing
    <2> QED
      BY <1>2, <2>2, <2>3, <2>4, <2>5, createTaskJInv, execCustomNodeJInv, evaluateDecisionJInv
         DEF Step
  <1> QED
    BY <1>1, <1>2

-----------------------------------------------------------------------------
(* The commands. *)

LEMMA CommandRow ==
  ASSUME NEW H, JInv(H), NEW t \in Id
  PROVE  /\ IInv(H) /\ last \in Nat /\ t \in 1 .. last /\ t \in 0 .. last /\ t # 0
         /\ state # "NONE" /\ Asks(task[t]) /\ task[t].node \in Node
  <1>1. IInv(H) /\ last \in Nat /\ t \in 1 .. last /\ task[t].node \in Node
    BY DEF JInv, IInv, TypeOK, Row, Id
  <1> QED
    BY <1>1 DEF JInv, Unstarted, AllSuit, Suits

LEMMA RowRefs ==
  ASSUME NEW H, JInv(H), NEW i \in Id
  PROVE  task[i].parent \in 0 .. last /\ task[i].back.src \in 0 .. last
  <1>1. /\ i \in 1 .. last /\ last \in Nat
        /\ task[i].parent \in 0 .. i-1 /\ task[i].back.src \in 0 .. i-1
    BY CommandRow DEF JInv, IInv, Sound, RefsOK
  <1> QED
    BY <1>1

\* Row r lies in round k of join j, or is to come back into it.
Lies(r, j, k) == \/ r.scopes[j].root # 0 /\ r.scopes[j].round = k
                 \/ r.back.branch[j].root # 0 /\ r.back.branch[j].round = k

\* No round starts at an open row, and those the row lies in are not through.
LEMMA OpenKeeps ==
  ASSUME NEW H, JInv(H), NEW t \in Id, task[t].st = "DOING", NEW j \in Join, NEW k,
         k = t \/ Lies(task[t], j, k)
  PROVE  Unpassed(task, last, j, k)
  <1>1. CASE Lies(task[t], j, k)
    BY <1>1, Hampered DEF Hampers, Lies, InRound, JInv
  <1>2. CASE k = t
    <2> SUFFICES ASSUME NEW q \in 1 .. last, InRound(task, q, j, t) PROVE FALSE
      BY <1>2 DEF Unpassed, Through
    <2>1. Suits(task, task[q]) /\ t # 0
      BY CommandRow DEF JInv, AllSuit
    <2>2. Handled(task[t])
      BY <2>1 DEF Suits, InRound
    <2> QED
      BY <2>2 DEF Handled
  <1> QED
    BY <1>1, <1>2

\* A command that appends rows below row p and may complete its open row t.
LEMMA RowsJInv ==
  ASSUME NEW H, JInv(H), Idle, IInv(H)', NEW t \in Id, NEW p, Grows(H, p),
         \A x \in last+1 .. last' :
           /\ Suits(task', task'[x])
           /\ \A j \in Join : \A k :
                /\ Lies(task'[x], j, k) => task[t].st = "DOING" /\ (k = t \/ Lies(task[t], j, k))
                /\ p # 0 /\ InRound(task, p, j, k) /\ Beyond(task'[x].node, j) =>
                     Through(task, last, j, k, p),
         state' = state, work' = work, saved' = saved
  PROVE  JInv(H)'
  <1> SUFFICES ASSUME NEW j \in Join, NEW k PROVE Timely(p, j, k)
    BY CommandRow, IdleJInv
  <1>1. ASSUME NEW x \in last+1 .. last', Hampers(task', x, j, k)
        PROVE  Unpassed(task, last, j, k)
    <2>1. Lies(task'[x], j, k)
      BY <1>1 DEF Hampers, Lies, InRound
    <2> QED
      BY <2>1, OpenKeeps
  <1>2. ComesThrough(p, j, k) => Through(task, last, j, k, p)
    BY CommandRow DEF ComesThrough, Id
  <1> QED
    BY <1>1, <1>2 DEF Timely, NewHampers

LEMMA OneRowJInv ==
  ASSUME NEW H, JInv(H), Idle, IInv(H)', Evolves(H, task', last'), NEW e, NEW r,
         task' = Appended(e, << r >>), last' = last + 1, NEW t \in Id,
         r.parent \in 0 .. last, Suits(task', r),
         \A j \in Join : \A k :
           /\ Lies(r, j, k) => task[t].st = "DOING" /\ (k = t \/ Lies(task[t], j, k))
           /\ r.parent # 0 /\ InRound(task, r.parent, j, k) /\ Beyond(r.node, j) =>
                Through(task, last, j, k, r.parent),
         state' = state, work' = work, saved' = saved
  PROVE  JInv(H)'
  <1>1. last \in Nat
    BY CommandRow
  <1>2. \A x \in last+1 .. last' : task'[x] = r
    BY <1>1, AppendedRow
  <1>3. Grows(H, r.parent)
    BY <1>2 DEF Grows
  <1> QED
    BY <1>2, <1>3, RowsJInv

LEMMA ExecuteWaitJInv ==
  ASSUME NEW H, JInv(H), NEW t \in Id, NEW u \in User, NEW submit \in Submit, ExecuteWait(t, u,
         submit)
  PROVE  JInv(H)'
  <1>1. Idle /\ IInv(H)
    BY DEF ExecuteWait, Executes, JInv
  <1>2. Evolves(H, task', last') /\ IInv(H)'
    BY <1>1, ExecuteWaitKeeps
  <1>3. last' = last /\ state' = state /\ work' = work /\ saved' = saved
    BY DEF ExecuteWait
  <1> QED
    BY <1>1, <1>2, <1>3, CommandRow, SettleJInv

LEMMA ExecuteAndJumpToEndJInv ==
  ASSUME NEW H, JInv(H), NEW t \in Id, NEW u \in User, ExecuteAndJumpToEnd(t, u)
  PROVE  JInv(H)'
  <1>1. Idle /\ IInv(H)
    BY DEF ExecuteAndJumpToEnd, JInv
  <1>2. Evolves(H, task', last') /\ IInv(H)'
    BY <1>1, ExecuteAndJumpToEndKeeps
  <1>3. last' = last /\ state' # "NONE" /\ work' = work /\ saved' = saved
    BY DEF ExecuteAndJumpToEnd
  <1> QED
    BY <1>1, <1>2, <1>3, SettleJInv

LEMMA ReturnFailsJInv ==
  ASSUME NEW H, JInv(H), NEW t \in Id, NEW u \in User, ReturnFails(t, u)
  PROVE  JInv(H)'
  <1>1. Idle /\ IInv(H)
    BY DEF ReturnFails, JInv
  <1>2. Evolves(H, task', last') /\ IInv(H)'
    BY <1>1, ReturnFailsKeeps
  <1>3. last' = last /\ state' # "NONE" /\ work' = work /\ saved' = saved
    BY CommandRow DEF ReturnFails
  <1> QED
    BY <1>1, <1>2, <1>3, SettleJInv

LEMMA withdrawJInv ==
  ASSUME NEW H, JInv(H), NEW u \in User, withdraw(u)
  PROVE  JInv(H)'
  <1>1. Idle /\ IInv(H)
    BY DEF withdraw, JInv
  <1>2. Evolves(H, task', last') /\ IInv(H)'
    BY <1>1, withdrawKeeps
  <1>3. last' = last /\ state' # "NONE" /\ work' = work /\ saved' = saved
    BY DEF withdraw
  <1> QED
    BY <1>1, <1>2, <1>3, SettleJInv

LEMMA StartProcessInstanceJInv ==
  ASSUME NEW H, BranchesMeet, JInv(H), StartProcessInstance
  PROVE  JInv(H)'
  <1> DEFINE w == Children(startNode(Flow), 0)
  <1>1. last = 0 /\ Idle
    BY DEF JInv, Unstarted, StartProcessInstance, Idle
  <1>2. IInv(H)'
    BY StartProcessInstanceKeeps DEF JInv
  <1>3. UNCHANGED <<task, last>> /\ state' # "NONE"
    BY DEF StartProcessInstance
  <1>4. /\ w \in Seq(WorkItem) /\ \A a \in 1 .. Len(w) : w[a].parent = 0
        /\ Len(w) <= 1 \/ Joinless(w)
    BY StartTyped, StartIsStart, Leaves
  <1>5. Run(w, [NoCmd EXCEPT !.user = Initiator])
    BY DEF StartProcessInstance
  <1> HIDE DEF w
  <1>6. work' = w /\ Rejoins(saved')
    BY <1>5, RunRejoins
  <1>7. Joined(H)
    BY <1>2, <1>3 DEF Joined, Unstarted, JInv
  <1>8. w # << >> => Head(w).parent = 0
    <2> SUFFICES ASSUME w # << >> PROVE Head(w).parent = 0
      OBVIOUS
    <2>1. Len(w) \in Nat \ {0} /\ Head(w) = w[1]
      BY <1>4
    <2> QED
      BY <1>4, <2>1
  <1>9. Walks(task', last', w, 0)
    BY <1>1, <1>3, <1>4 DEF Walks
  <1> QED
    BY <1>6, <1>7, <1>8, <1>9, JInvNext

LEMMA ExecuteAdvanceJInv ==
  ASSUME NEW H, BranchesMeet, JInv(H), NEW t \in Id, NEW u \in User, NEW submit \in Submit,
         NEW next \in Roster, ExecuteAdvance(t, u, submit, next)
  PROVE  JInv(H)'
  <1> DEFINE n == task[t].node
             w == Children(n, t)
             c == [user |-> u, next |-> next, home |-> {}]
  <1>1. Idle /\ task[t].st = "DOING" /\ task[t].back.src = 0 /\ IInv(H)
    BY DEF ExecuteAdvance, Executes, Allowed, JInv
  <1>2. Evolves(H, task', last') /\ IInv(H)'
    BY <1>1, ExecuteAdvanceKeeps
  <1>3. Flow.type[n] = "task" /\ n \in Node /\ state # "NONE" /\ t \in Nat
    BY <1>1, CommandRow DEF Asks
  <1>4. last' = last /\ state' = state /\ Run(w, c)
    BY DEF ExecuteAdvance
  <1>5. /\ w \in Seq(WorkItem)
        /\ \A a \in 1 .. Len(w) : w[a].parent = t /\ w[a].node \in outgoingTargets(Flow, n)
        /\ Len(w) <= 1 \/ Joinless(w)
    BY <1>3, Leaves
  <1> HIDE DEF w, c
  <1>6. \A j \in ScopesOfNode[n] : \A a \in 1 .. Len(w) : StaysIn(j, w[a].node)
    BY <1>3, <1>5 DEF BranchesMeet, OfType, Node
  <1> QED
    BY <1>1, <1>2, <1>3, <1>4, <1>5, <1>6, GoJInv

LEMMA FirstAfterStart ==
  ASSUME NEW types, NEW n \in firstAfterStart(Flow, types)
  PROVE  n \in FirstTaskNode /\ n \in Node /\ Flow.type[n] \in types
  <1>1. PICK i \in DOMAIN Flow.succ[startNode(Flow)] :
          n = Flow.succ[startNode(Flow)][i] /\ Flow.type[n] \in types
    BY DEF firstAfterStart
  <1>2. n \in outgoingTargets(Flow, startNode(Flow)) /\ n \in Node
    BY <1>1, StartTyped DEF outgoingTargets, FlowRange
  <1> QED
    BY <1>1, <1>2, FlowAssumption DEF FirstTaskNode, isFirstTaskNode

LEMMA ExecuteAndJumpToFirstTaskNodeJInv ==
  ASSUME NEW H, BranchesMeet, JInv(H), NEW t \in Id, NEW u \in User,
         ExecuteAndJumpToFirstTaskNode(t, u)
  PROVE  JInv(H)'
  <1>1. Idle /\ task[t].st = "DOING" /\ task[t].back.src = 0 /\ IInv(H)
    BY DEF ExecuteAndJumpToFirstTaskNode, Allowed, JInv
  <1>2. Evolves(H, task', last') /\ IInv(H)'
    BY <1>1, ExecuteAndJumpToFirstTaskNodeKeeps
  <1>3. last' = last /\ state' # "NONE" /\ t \in Nat
    BY CommandRow DEF ExecuteAndJumpToFirstTaskNode
  <1>4. PICK n \in firstAfterStart(Flow, {"task", "custom"}) :
          Run(<<[node |-> n, parent |-> t]>>, [user |-> u, next |-> << >>, home |-> {n}])
    BY DEF ExecuteAndJumpToFirstTaskNode
  <1>5. n \in Node /\ n \in FirstTaskNode /\ Flow.type[n] = "task"
    BY <1>4, FirstAfterStart DEF BranchesMeet, OfType
  <1> DEFINE item == [node |-> n, parent |-> t]
             w == << item >>
             c == [user |-> u, next |-> << >>, home |-> {n}]
  <1>6. item.node = n /\ item.parent = t /\ item \in WorkItem /\ Run(w, c)
    BY <1>3, <1>4, <1>5 DEF WorkItem
  <1> HIDE DEF item, c
  <1>7. w \in Seq(WorkItem) /\ Len(w) = 1 /\ w[1] = item
    BY <1>6
  <1> HIDE DEF w
  <1>8. \A j : StaysIn(j, n)
    <2>1. \A j : ClosedBefore(j, {n}) /\ {n} \in SUBSET Node
      BY <1>5 DEF ClosedBefore
    <2>2. \A j : MetBefore(j, n) \subseteq {n}
      BY <2>1 DEF MetBefore
    <2> QED
      BY <1>5, <2>2 DEF StaysIn
  <1>9. \A a \in 1 .. Len(w) : w[a].node = n /\ w[a].parent = t
    BY <1>6, <1>7
  <1>10. \A j \in ScopesOfNode[task[t].node] : \A a \in 1 .. Len(w) : StaysIn(j, w[a].node)
    BY <1>8, <1>9
  <1>11. Len(w) <= 1 \/ Joinless(w)
    BY <1>7
  <1> QED
    BY <1>1, <1>2, <1>3, <1>6, <1>7, <1>9, <1>10, <1>11, GoJInv

LEMMA ExecuteNextMemberJInv ==
  ASSUME NEW H, JInv(H), NEW t \in Id, NEW u \in User, NEW submit \in Submit,
         ExecuteNextMember(t, u, submit)
  PROVE  JInv(H)'
  <1> DEFINE d == Completed(t, u, submit)
             n == task[t].node
             s == d[t].cs[n]
             r == [NewRow(n, t, {s.members[s.idx + 2]}) EXCEPT
                     !.cs[n] = [s EXCEPT !.idx = s.idx + 1]]
  <1>1. /\ Idle /\ Allowed(t, u) /\ task[t].st = "DOING" /\ task[t].back.src = 0 /\ IInv(H)
        /\ SequentialGate(d, t, submit)
    BY DEF ExecuteNextMember, Executes, Allowed, JInv
  <1>2. Evolves(H, task', last') /\ IInv(H)'
    BY <1>1, ExecuteNextMemberKeeps
  <1>3. n \in Node /\ Flow.type[n] = "task" /\ t \in 0 .. last /\ last \in Nat
    BY <1>1, CommandRow DEF Asks
  <1>4. n \in Sequential
    <2>1. d[t].node = n
      BY <1>1, CompletedSource DEF Settles
    <2> QED
      BY <1>1, <1>3, <2>1 DEF SequentialGate, Sequential
  <1>5. /\ task' = Appended(d, << r >>) /\ last' = last + 1
        /\ state' = state /\ work' = work /\ saved' = saved
    BY DEF ExecuteNextMember
  <1>6. r.node = n /\ r.parent = t /\ r.scopes = NoScopes /\ r.back = NoBack
    BY DEF NewRow
  <1> HIDE DEF d, r
  <1>7. Suits(task', r)
    <2>1. Asks(r) /\ NoBack.src \in 0 .. last
      BY <1>3, <1>6 DEF Asks, NoBack
    <2>2. \A j \in Join : task[t].back.branch[j].root = 0
      BY <1>1, RowFacts
    <2> QED
      BY <1>2, <1>3, <1>4, <1>6, <2>1, <2>2, BareSuits
  <1>8. \A j \in Join : \A k : ~ Lies(r, j, k) /\ ~ (InRound(task, t, j, k) /\ Beyond(n, j))
    BY <1>6, RowFacts, SMTT(30) DEF Lies, NoScopes, NoScope, NoBack, InRound, Beyond
  <1> QED
    BY <1>1, <1>2, <1>3, <1>5, <1>6, <1>7, <1>8, OneRowJInv

LEMMA ExecuteAddSignJInv ==
  ASSUME NEW H, JInv(H), NEW t \in Id, NEW u \in User, NEW submit \in Submit,
         NEW ops \in Roster, ExecuteAddSign(t, u, submit, ops)
  PROVE  JInv(H)'
  <1> DEFINE d == Completed(t, u, submit)
             n == task[t].node
  <1>1. Idle /\ Allowed(t, u) /\ task[t].st = "DOING" /\ task[t].back.src = 0 /\ IInv(H)
    BY DEF ExecuteAddSign, Executes, Allowed, JInv
  <1>2. Evolves(H, task', last') /\ IInv(H)'
    BY <1>1, ExecuteAddSignKeeps
  <1>3. Flow.type[n] = "task" /\ n \in Node /\ t \in 0 .. last /\ t # 0
    BY <1>1, CommandRow DEF Asks
  <1>4. state' = state /\ work' = work /\ saved' = saved
    BY DEF ExecuteAddSign
  <1>5. /\ \A i \in Id : task'[i] = d[i]
        /\ \A x \in last+1 .. last' :
             /\ task'[x].node = n /\ task'[x].parent = t /\ task'[x].back = NoBack
             /\ task'[x].scopes = buildScopes(n, t, x)
    BY <1>1, AddSignRows
  <1> HIDE DEF d
  <1>6. Handled(task'[t])
    <2>1. SourceOK(d, last, t)
      BY <1>1, CompletedSource DEF d
    <2> QED
      BY <1>3, <1>5, <2>1 DEF SourceOK
  <1>7. Grows(H, t)
    BY <1>2, <1>3, <1>5 DEF Grows
  <1>8. \A j \in Join : task[t].back.branch[j].root = 0
    BY <1>1, RowFacts
  <1>9. ASSUME NEW x \in last+1 .. last'
        PROVE  /\ Suits(task', task'[x])
               /\ \A j \in Join : \A k : Lies(task'[x], j, k) => k = t \/ Lies(task[t], j, k)
    <2> DEFINE y == task'[x]
    <2>1. y.node = n /\ y.parent = t /\ y.back = NoBack /\ y.scopes = buildScopes(n, t, x)
      BY <1>5
    <2> HIDE DEF y
    <2>2. /\ Suits(task', y)
          /\ \A j \in Join : y.scopes[j].root # 0 =>
               /\ j \in ScopesOfNode[n]
               /\ y.scopes[j].round = t \/ (t # 0 /\ task[t].scopes[j] = y.scopes[j])
      BY <1>2, <1>3, <1>6, <1>8, <2>1, BuiltSuits
    <2>3. \A j \in Join : y.back.branch[j].root = 0
      BY <2>1 DEF NoBack, NoScopes, NoScope
    <2> QED
      BY <2>2, <2>3 DEF Lies, y
  <1>10. \A j \in Join : \A k : ~ (InRound(task, t, j, k) /\ Beyond(n, j))
    BY RowFacts DEF InRound, Beyond
  <1> QED
    BY <1>1, <1>4, <1>2, <1>5, <1>7, <1>9, <1>10, RowsJInv

LEMMA executeReapplyJInv ==
  ASSUME NEW H, BranchesMeet, JInv(H), NEW t \in Id, NEW u \in User, executeReapply(t, u)
  PROVE  JInv(H)'
  <1> DEFINE d == Completed(t, u, "reapply")
             src == task[t].back.src
             n == task[src].node
             r == [NewRow(n, t, FlowRange(Props[n].assignee)) EXCEPT
                     !.scopes = task[t].back.branch]
  <1>1. Idle /\ task[t].st = "DOING" /\ IInv(H)
    BY DEF executeReapply, Allowed, JInv
  <1>2. Evolves(H, task', last') /\ IInv(H)'
    BY <1>1, executeReapplyKeeps
  <1>3. /\ task' = Appended(d, << r >>) /\ last' = last + 1 /\ src # 0
        /\ state' = state /\ work' = work /\ saved' = saved /\ Flow.type[n] = "task"
        /\ task[t].node \in FirstTaskNode
    BY DEF executeReapply
  <1>4. r.node = n /\ r.parent = t /\ r.scopes = task[t].back.branch /\ r.back = NoBack
    BY DEF NewRow
  <1> HIDE DEF d, r
  <1>5. last \in Nat /\ t \in 0 .. last /\ src \in Id
    <2>1. last \in Nat /\ t \in 0 .. last
      BY CommandRow
    <2>2. task[t].back.src \in 0 .. t-1 /\ t \in 1 .. last
      BY <1>1, CommandRow DEF IInv, Sound, RefsOK
    <2> HIDE DEF src
    <2>3. src \in 0 .. t-1
      BY <2>2 DEF src
    <2> QED
      BY <1>3, <2>1, <2>2, <2>3 DEF Id
  <1>6. ScopesOfNode[task[t].node] = {}
    BY <1>3 DEF BranchesMeet
  <1>7. \A j \in Join : task[t].scopes[j].root = 0
    BY <1>6, RowFacts
  <1>8. \A j \in Join : NoBack.branch[j].root = 0
    BY DEF NoBack, NoScopes, NoScope
  <1>9. \A j \in Join : task[t].back.branch[j].root # 0 => task[t].back.branch = task[src].scopes
    BY RowFacts
  <1>10. \A j \in Join : r.scopes[j].root # 0 =>
           /\ j \in ScopesOfNode[n]
           /\ r.scopes[j].round # 0 => Handled(task'[r.scopes[j].round])
    <2> SUFFICES ASSUME NEW j \in Join, r.scopes[j].root # 0
                 PROVE  /\ j \in ScopesOfNode[n]
                        /\ r.scopes[j].round # 0 => Handled(task'[r.scopes[j].round])
      OBVIOUS
    <2>1. r.scopes[j] = task[src].scopes[j]
      BY <1>4, <1>9
    <2>2. task[src].scopes[j].root # 0
      BY <2>1
    <2> HIDE DEF src
    <2>3. j \in ScopesOfNode[task[src].node]
      BY <1>5, <2>2, RowFacts
    <2>4. task[src].scopes[j].round # 0 => Handled(task'[task[src].scopes[j].round])
      BY <1>2, <1>5, <2>2, RoundHandled
    <2> QED
      BY <2>1, <2>3, <2>4
  <1>11. Suits(task', r)
    <2>1. Asks(r) /\ NoBack.src \in 0 .. last
      BY <1>3, <1>4, <1>5 DEF Asks, NoBack
    <2> QED
      BY <1>1, <1>2, <1>4, <1>5, <1>7, <1>8, <1>10, <2>1, NewSuits
  <1>12. \A j \in Join : \A k : /\ Lies(r, j, k) => Lies(task[t], j, k)
                                /\ ~ InRound(task, t, j, k)
    BY <1>4, <1>7, <1>8 DEF Lies, InRound
  <1> QED
    BY <1>1, <1>2, <1>3, <1>4, <1>5, <1>11, <1>12, OneRowJInv

LEMMA ReturnForChangeJInv ==
  ASSUME NEW H, BranchesMeet, JInv(H), NEW t \in Id, NEW u \in User, ReturnForChange(t, u)
  PROVE  JInv(H)'
  <1> DEFINE d == DropOpenAt(Completed(t, u, "return"), task[t].node)
             row(n) == [NewRow(n, t, {Initiator}) EXCEPT
                          !.back = [src |-> t, branch |-> task[t].scopes]]
  <1>1. Idle /\ task[t].st = "DOING" /\ task[t].back.src = 0 /\ IInv(H)
    BY DEF ReturnForChange, Allowed, JInv
  <1>2. Evolves(H, task', last') /\ IInv(H)'
    BY <1>1, ReturnForChangeKeeps
  <1>3. PICK n \in firstAfterStart(Flow, {"task"}) : task' = Appended(d, << row(n) >>)
    BY DEF ReturnForChange
  <1>4. last' = last + 1 /\ state' = state /\ work' = work /\ saved' = saved
    BY DEF ReturnForChange
  <1>5. /\ n \in FirstTaskNode /\ Flow.type[n] = "task" /\ ScopesOfNode[n] = {}
        /\ last \in Nat /\ t \in 0 .. last /\ t # 0
    BY <1>3, FirstAfterStart, CommandRow DEF BranchesMeet
  <1> DEFINE r == row(n)
  <1>6. /\ r.node = n /\ r.parent = t /\ r.scopes = NoScopes
        /\ r.back.src = t /\ r.back.branch = task[t].scopes
    BY DEF NewRow
  <1>7. task' = Appended(d, << r >>)
    BY <1>3
  <1> HIDE DEF d, r, row
  <1>8. Suits(task', r)
    <2>1. Asks(r)
      BY <1>5, <1>6 DEF Asks
    <2>2. \A j \in Join : task[t].back.branch[j].root = 0
      BY <1>1, RowFacts
    <2> QED
      BY <1>2, <1>5, <1>6, <2>1, <2>2, BareSuits
  <1>9. \A j \in Join : \A k : (Lies(r, j, k) => Lies(task[t], j, k)) /\ ~ Beyond(n, j)
    BY <1>5, <1>6 DEF Lies, NoScopes, NoScope, Beyond
  <1> QED
    BY <1>1, <1>2, <1>4, <1>5, <1>6, <1>7, <1>8, <1>9, OneRowJInv

\* The row a rollback goes back to was handled.
LEMMA RolledBackTo ==
  ASSUME NEW H, NoWayBack(H), JInv(H), NEW t \in Id, task[t].st = "DOING", task[t].parent # 0,
         task[task[t].parent].node \in CanReject[task[t].node]
  PROVE  task[t].parent \in Id /\ Handled(task[task[t].parent]) /\ last \in Nat
  <1>1. RefsOK(H, task, t) /\ t \in 1 .. last /\ last \in Nat
    BY CommandRow DEF IInv, Sound
  <1>2. task[t].parent \in 0 .. t-1
    BY <1>1 DEF RefsOK
  <1>3. Handled(task[task[t].parent])
    BY <1>1 DEF RefsOK, Below, NoWayBack
  <1>4. \A q \in 0 .. t-1 : q # 0 => q \in 1 .. last
    BY <1>1
  <1> QED
    BY <1>1, <1>2, <1>3, <1>4 DEF Id

\* The row that comes to life again belongs to the rounds of the one it replaces:
\* those of the row that rolled back, which kept them from being let through.
LEMMA rollbackToParentJInv ==
  ASSUME NEW H, NoWayBack(H), BranchesMeet, JInv(H), NEW t \in Id, NEW u \in User,
         rollbackToParent(t, u)
  PROVE  JInv(H)'
  <1> DEFINE d == Completed(t, u, "rollback")
             p == task[t].parent
             his == task[p]
             actor == IF his.node \in FirstTaskNode THEN his.owner ELSE his.by
             r == [NewRow(his.node, his.parent, {actor}) EXCEPT
                     !.owner = his.owner, !.scopes = his.scopes,
                     !.back = his.back, !.round = his.round]
  <1>1. /\ Idle /\ task[t].st = "DOING" /\ IInv(H) /\ p # 0
        /\ his.node \in CanReject[task[t].node]
    BY DEF rollbackToParent, Allowed, JInv
  <1>2. Evolves(H, task', last') /\ IInv(H)'
    BY <1>1, rollbackToParentKeeps
  <1>3. /\ task' = Appended(d, << r >>) /\ last' = last + 1
        /\ state' = state /\ work' = work /\ saved' = saved
    BY DEF rollbackToParent
  <1>4. r.node = his.node /\ r.parent = his.parent /\ r.scopes = his.scopes /\ r.back = his.back
    BY DEF NewRow
  <1> HIDE DEF d, r, actor
  <1>5. p \in Id /\ Handled(his) /\ last \in Nat
    BY <1>1, RolledBackTo
  <1> HIDE DEF p
  <1>6. Flow.type[his.node] = "task" /\ Flow.type[task[t].node] = "task"
        /\ task[t].node \in Node /\ his.node \in Node
    BY <1>1, <1>5, CommandRow DEF Asks
  <1>7. /\ ScopesOfNode[his.node] \subseteq ScopesOfNode[task[t].node]
        /\ ~ (task[t].node \in Sequential /\ task[t].node = his.node)
    BY <1>1, <1>6 DEF BranchesMeet, OfType, Node
  <1>8. \A j \in Join :
          /\ his.scopes[j].root # 0 => task[t].scopes[j] = his.scopes[j]
          /\ his.back.branch[j].root # 0 => task[t].scopes[j] = his.back.branch[j]
    BY <1>1, <1>5, <1>6, <1>7, RowFacts DEF p
  <1>9. \A j \in Join : \A k : Lies(r, j, k) => Lies(task[t], j, k)
    BY <1>4, <1>8 DEF Lies
  <1>10. \A j \in Join : \A k : InRound(task, his.parent, j, k) /\ his.parent # 0
                                  /\ Beyond(his.node, j) => Through(task, last, j, k, his.parent)
    <2>1. his.parent \in 0 .. last
      BY <1>5, RowRefs
    <2>2. his.parent # 0 => his.parent \in 1 .. last
      BY <1>5, <2>1
    <2> QED
      BY <1>5, <2>2 DEF Through, Id
  <1>11. Suits(task', r)
    <2>1. /\ r.parent \in 0 .. last /\ r.back.src \in 0 .. last /\ Asks(r)
      BY <1>4, <1>5, <1>6, RowRefs DEF Asks
    <2>2. \A j \in Join : r.scopes[j].root # 0 =>
            /\ j \in ScopesOfNode[r.node]
            /\ r.scopes[j].round # 0 => Handled(task'[r.scopes[j].round])
      <3>1. \A j \in Join : his.scopes[j].root # 0 /\ his.scopes[j].round # 0 =>
              Handled(task'[his.scopes[j].round])
        BY <1>2, <1>5, RoundHandled
      <3> QED
        BY <1>4, <1>5, <3>1, RowFacts
    <2>3. \A j \in Join : r.back.branch[j].root # 0 =>
            r.back.src # 0 /\ r.back.branch = task[r.back.src].scopes
      BY <1>4, <1>5, RowFacts
    <2>4. \A j \in Join : r.parent # 0 =>
            /\ task[r.parent].back.branch[j].root # 0 =>
                 r.scopes[j] = task[r.parent].back.branch[j]
            /\ /\ task[r.parent].scopes[j].root # 0 /\ j \in ScopesOfNode[r.node]
               /\ Flow.type[r.node] = "task"
               /\ ~ (r.node \in Sequential /\ r.node = task[r.parent].node)
               => r.scopes[j] = task[r.parent].scopes[j]
      BY <1>4, <1>5, RowFacts, ZenonT(40)
    <2> HIDE DEF his
    <2> QED
      BY <1>1, <1>2, <2>1, <2>2, <2>3, <2>4, NewSuits
  <1>12. r.parent \in 0 .. last
    BY <1>4, <1>5, RowRefs
  <1>13. \A j \in Join : \A k :
           /\ Lies(r, j, k) => task[t].st = "DOING" /\ (k = t \/ Lies(task[t], j, k))
           /\ r.parent # 0 /\ InRound(task, r.parent, j, k) /\ Beyond(r.node, j) =>
                Through(task, last, j, k, r.parent)
    BY <1>1, <1>4, <1>9, <1>10
  <1> HIDE DEF his
  <1> QED
    BY <1>1, <1>2, <1>3, <1>11, <1>12, <1>13, OneRowJInv

\* The recalled row is outside the ranges, and if it is behind a join then so was
\* the row it stands for.
LEMMA RecallTaskJInv ==
  ASSUME NEW H, BranchesMeet, JInv(H), NEW t \in Id, NEW u \in User, RecallTask(t, u)
  PROVE  JInv(H)'
  <1> DEFINE D == recallDescendants(t) \cap DoingIn(task)
             e == [i \in Id |-> IF i \in D THEN [task[i] EXCEPT !.st = "ABANDONED"] ELSE task[i]]
             r == NewRow(task[t].node, task[t].parent, task[t].actors)
             p == task[t].parent
  <1>1. Idle /\ IInv(H) /\ task[t].node \in RecallNode
    <2>1. task[t].node \in Node
      BY CommandRow
    <2> QED
      BY <2>1 DEF RecallTask, JInv, RecallNode, OfType, Node
  <1>2. Evolves(H, task', last') /\ IInv(H)'
    BY <1>1, RecallTaskKeeps
  <1>3. /\ task' = Appended(e, << r >>) /\ last' = last + 1
        /\ state' = state /\ work' = work /\ saved' = saved
    BY DEF RecallTask
  <1>4. r.node = task[t].node /\ r.parent = p /\ r.scopes = NoScopes /\ r.back = NoBack
    BY DEF NewRow
  <1> HIDE DEF e, r, D
  <1>5. ScopesOfNode[task[t].node] = {} /\ Flow.type[task[t].node] = "task"
    BY <1>1 DEF BranchesMeet, RecallNode, OfType
  <1>6. last \in Nat /\ p \in 0 .. last /\ t \in 1 .. last
    BY CommandRow, RowRefs
  <1>7. Suits(task', r)
    <2>1. Asks(r) /\ NoBack.src \in 0 .. last
      BY <1>4, <1>5, <1>6 DEF Asks, NoBack
    <2>2. p # 0 => \A j \in Join : task[p].back.branch[j].root = 0
      BY <1>5, RowFacts
    <2> HIDE DEF p
    <2> QED
      BY <1>2, <1>4, <1>5, <1>6, <2>1, <2>2, BareSuits
  <1>8. \A j \in Join : \A k : ~ Lies(r, j, k)
    BY <1>4 DEF Lies, NoScopes, NoScope, NoBack
  <1>9. \A j \in Join : \A k : p # 0 /\ InRound(task, p, j, k) /\ Beyond(task[t].node, j) =>
          Through(task, last, j, k, p)
    BY <1>6 DEF Through
  <1> HIDE DEF p
  <1>10. \A j \in Join : \A k :
           /\ Lies(r, j, k) => task[t].st = "DOING" /\ (k = t \/ Lies(task[t], j, k))
           /\ r.parent # 0 /\ InRound(task, r.parent, j, k) /\ Beyond(r.node, j) =>
                Through(task, last, j, k, r.parent)
    BY <1>4, <1>8, <1>9
  <1> QED
    BY <1>1, <1>2, <1>3, <1>4, <1>6, <1>7, <1>10, OneRowJInv

LEMMA ExecuteJInv ==
  ASSUME NEW H, BranchesMeet, JInv(H), NEW t \in Id, NEW u \in User, Execute(t, u)
  PROVE  JInv(H)'
  <1>1. \A submit \in Submits : submit \in Submit
    BY InputAssumption DEF Submit
  <1>2. \A roster \in NextOps \cup SignOps : roster \in Roster
    BY InputAssumption
  <1>3. CASE executeReapply(t, u)
    BY <1>3, executeReapplyJInv
  <1>4. ASSUME NEW submit \in Submits, ExecuteWait(t, u, submit)
        PROVE  JInv(H)'
    BY <1>1, <1>4, ExecuteWaitJInv
  <1>5. ASSUME NEW submit \in Submits, ExecuteNextMember(t, u, submit)
        PROVE  JInv(H)'
    BY <1>1, <1>5, ExecuteNextMemberJInv
  <1>6. ASSUME NEW submit \in Submits, NEW ops \in SignOps, ExecuteAddSign(t, u, submit, ops)
        PROVE  JInv(H)'
    BY <1>1, <1>2, <1>6, ExecuteAddSignJInv
  <1>7. ASSUME NEW submit \in Submits, NEW next \in NextOps, ExecuteAdvance(t, u, submit, next)
        PROVE  JInv(H)'
    BY <1>1, <1>2, <1>7, ExecuteAdvanceJInv
  <1> QED
    BY <1>3, <1>4, <1>5, <1>6, <1>7 DEF Execute

LEMMA RowCommandJInv ==
  ASSUME NEW H, NoWayBack(H), BranchesMeet, JInv(H), NEW t \in Id, NEW u \in User,
         RowCommand(t, u)
  PROVE  JInv(H)'
  <1>1. CASE Execute(t, u)
    BY <1>1, ExecuteJInv
  <1>2. CASE ExecuteAndJumpToEnd(t, u)
    BY <1>2, ExecuteAndJumpToEndJInv
  <1>3. CASE rollbackToParent(t, u)
    BY <1>3, rollbackToParentJInv
  <1>4. CASE Return(t, u)
    BY <1>4, ReturnForChangeJInv, ExecuteAndJumpToFirstTaskNodeJInv, ReturnFailsJInv DEF Return
  <1>5. CASE RecallTask(t, u)
    BY <1>5, RecallTaskJInv
  <1>6. "jump" \notin Commands
    BY DEF BranchesMeet
  <1> QED
    BY <1>1, <1>2, <1>3, <1>4, <1>5, <1>6 DEF RowCommand

LEMMA NextJInv ==
  ASSUME NEW H, NoWayBack(H), BranchesMeet, JInv(H), [Next]_vars
  PROVE  JInv(H)'
  <1>1. CASE Next
    BY <1>1, StepJInv, StartProcessInstanceJInv, RowCommandJInv, withdrawJInv DEF Next
  <1>2. CASE UNCHANGED vars
    <2>1. IInv(H)'
      BY <1>2, StutterKeeps DEF JInv
    <2>2. /\ state' = state /\ last' = last /\ task' = task /\ work' = work /\ saved' = saved
      BY <1>2 DEF vars
    <2>3. Joined(H) /\ Rejoins(saved')
      BY <2>1, <2>2 DEF JInv, Joined
    <2> QED
      BY <2>2, <2>3, JInvNext DEF JInv, Current
  <1> QED
    BY <1>1, <1>2

LEMMA InitJInv ==
  ASSUME NEW H, Init
  PROVE  JInv(H)
  <1>1. IInv(H)
    BY InitIInv
  <1>2. last = 0 /\ work = << >> /\ saved = NoSnapshot
    BY DEF Init
  <1>3. AllSuit(task, last) /\ PassedOnce(task, last) /\ Unstarted(state, last, work)
    BY <1>2 DEF AllSuit, PassedOnce, Passes, Unpassed, Unstarted
  <1>4. Rejoins(NoSnapshot)
    BY DEF Rejoins, NoSnapshot, AllSuit, PassedOnce, Passes, Unpassed, Unstarted
  <1> QED
    BY <1>1, <1>2, <1>3, <1>4 DEF JInv

\* No command, failure or return lets a round through its join a second time, or
\* puts an open row into a round that is through.
THEOREM JoinInductive == ASSUME BranchesMeet PROVE Spec => []JInv({})
  <1>1. Init => JInv({})
    BY InitJInv
  <1>2. JInv({}) /\ [Next]_vars => JInv({})'
    BY NextJInv DEF NoWayBack
  <1> QED
    BY <1>1, <1>2, PTL DEF Spec

\* The rows in whose name a round was released are those something came through.
LEMMA ReleasedThrough ==
  ASSUME NEW H, JInv(H), NEW j \in Join, NEW r \in Id
  PROVE  /\ ReleasedBy(j, r) = { q \in Id : Through(task, last, j, r, q) }
         /\ r \in 0 .. last
  BY CommandRow DEF ReleasedBy, Through, InRound, Beyond, Id

\* A round of a join is released in the name of at most one of its rows.
THEOREM LetThroughOnce == ASSUME BranchesMeet PROVE Spec => []JoinOnce
  <1>1. JInv({}) => JoinOnce
    <2> SUFFICES ASSUME JInv({}), NEW j \in Join, NEW r \in Id
                 PROVE  Cardinality(ReleasedBy(j, r)) <= 1
      BY DEF JoinOnce
    <2>1. ReleasedBy(j, r) = { q \in Id : Through(task, last, j, r, q) } /\ Passes(task, last, j, r)
      BY ReleasedThrough DEF JInv, PassedOnce
    <2>2. ReleasedBy(j, r) = {} \/ \E p : ReleasedBy(j, r) = {p}
      BY <2>1 DEF Passes, Unpassed, PassedBy, Id
    <2>3. Cardinality({}) = 0 /\ \A p : Cardinality({p}) = 1
      BY FS_EmptySet, FS_Singleton
    <2>4. Cardinality(ReleasedBy(j, r)) \in {0, 1}
      BY <2>2, <2>3
    <2> QED
      BY <2>4
  <1> QED
    BY <1>1, JoinInductive, PTL

\* When a round is through its join no open row is left in it, and none that is
\* to bring one back.
THEOREM LetThroughWhole == ASSUME BranchesMeet PROVE Spec => []JoinComplete
  <1>1. JInv({}) => JoinComplete
    <2> SUFFICES ASSUME JInv({}), NEW j \in Join, NEW r \in Id, ReleasedBy(j, r) # {},
                        NEW i \in DoingIn(task)
                 PROVE  ~ Blocks(i, j, r)
      BY DEF JoinComplete
    <2>1. PICK q \in 1 .. last : Through(task, last, j, r, q)
      BY ReleasedThrough DEF Id
    <2>2. PICK p : PassedBy(task, last, j, r, p)
      BY <2>1, ReleasedThrough DEF JInv, PassedOnce, Passes, Unpassed
    <2>3. i \in 1 .. last /\ task[i].st = "DOING"
      BY DEF DoingIn, JInv, IInv, TypeOK, Id
    <2> QED
      BY <2>2, <2>3 DEF PassedBy, Hampers, InRound, Blocks
  <1> QED
    BY <1>1, JoinInductive, PTL

-----------------------------------------------------------------------------
(* Somebody can always act: the inductive invariant.                         *)

\* A row that counts for its countersign: open, or answered.
Live(r) == r.st \in {"DOING", "DONE"}

\* Of the rows 1 .. m of a table d, those at node n that are answered; and those
\* that were created together at n, below row p, and still count.
FinishedAt(d, m, n) == { i \in 1 .. m : d[i].node = n /\ d[i].st = "DONE" }
Team(d, m, n, p) == { i \in 1 .. m : d[i].node = n /\ d[i].parent = p /\ Live(d[i]) }
Reached(d, m, n) == Cardinality(FinishedAt(d, m, n)) >= Props[n].need
Full(d, m, n, p) == Cardinality(Team(d, m, n, p)) >= Props[n].need

\* A countersign with an expression has all the answers it waits for, or enough
\* members who can still give them.
Enough(d, m) ==
  \A n \in Ratio :
    \/ Reached(d, m, n)
    \/ \A i \in 1 .. m : d[i].node = n /\ Live(d[i]) => Full(d, m, n, d[i].parent)

\* What a user is asked is a task; a form that came back came from one without
\* countersign.
SentRow(d, r) ==
  /\ Asks(r)
  /\ r.back.src # 0 => Props[d[r.back.src].node].countersign = "none"

\* A running instance has an open row, or a node still to be executed.
Waits(d, m) == \E i \in 1 .. m : d[i].st = "DOING"
Ongoing(s, d, m, w) ==
  /\ \A i \in 1 .. m : SentRow(d, d[i])
  /\ Unstarted(s, m, w)
  /\ s = "DOING" => Enough(d, m) /\ (Waits(d, m) \/ w # << >>)

\* The nodes still to be executed are of a type the engine knows, and the rosters
\* the command brings are those it may bring.
Serves(w) == \A k \in 1 .. Len(w) : Flow.type[w[k].node] \in Serving
Brings(c) == c.next \in NextOps \cup {<< >>} /\ c.home \subseteq FirstTaskNode

ZInv ==
  /\ IInv({})
  /\ Ongoing(state, task, last, work)
  /\ Ongoing(saved.state, saved.task, saved.last, << >>)
  /\ Serves(work) /\ Brings(cmd)

LEMMA ZInvNext ==
  ASSUME IInv({})', Ongoing(state', task', last', work'),
         Ongoing(saved'.state, saved'.task, saved'.last, << >>), Serves(work'), Brings(cmd')
  PROVE  ZInv'
  <1>1. ZInv' <=> /\ IInv({})'
                  /\ Ongoing(state', task', last', work')
                  /\ Ongoing(saved'.state, saved'.task, saved'.last, << >>)
                  /\ Serves(work') /\ Brings(cmd')
    BY DEF ZInv, Ongoing, SentRow, Asks, Handled, Unstarted, Enough, Reached, Full, Team,
           FinishedAt, Live, Waits, Serves, Brings
  <1> QED
    BY <1>1

LEMMA NoneBrings == Brings(NoCmd)
  BY DEF Brings, NoCmd

\* What a command that fails would go back to, and the tokens it sends.
LEMMA RunOngoing ==
  ASSUME ZInv, NEW w, NEW c, Run(w, c), Serves(w), Brings(c)
  PROVE  /\ Ongoing(saved'.state, saved'.task, saved'.last, << >>)
         /\ work' = w /\ Serves(work') /\ Brings(cmd')
  <1>1. Ongoing(NoSnapshot.state, NoSnapshot.task, NoSnapshot.last, << >>)
    BY DEF Ongoing, NoSnapshot, Unstarted
  <1>2. Idle => Ongoing(Snapshot.state, Snapshot.task, Snapshot.last, << >>)
    BY DEF ZInv, Snapshot, Idle
  <1> QED
    BY <1>1, <1>2, NoneBrings DEF Run, ZInv

-----------------------------------------------------------------------------
(* Countersigns keep their members. *)

LEMMA RatioTyped ==
  ASSUME TokensLand, NEW n \in Ratio
  PROVE  /\ n \in Node /\ Flow.type[n] = "task" /\ Props[n].need \in Nat
         /\ Props[n].countersign = "PARALLEL" /\ Props[n].condition = "GE"
         /\ ~ Props[n].recall /\ ~ Props[n].addSign /\ ~ Props[n].collect
         /\ n \notin FirstTaskNode
  <1>1. n \in Node /\ n \in OfType(Flow, "task") /\ Props[n].countersign = "PARALLEL"
    BY DEF Ratio, OfType, Node
  <1>2. Props[n].need \in Nat
    BY <1>1, PropsAssumption DEF PropType
  <1>3. ~ Props[n].recall /\ ~ Props[n].addSign /\ ~ Props[n].collect
    BY <1>1, PropsAssumption DEF validateAddSignFlow
  <1>4. Flow.type[n] = "task"
    BY <1>1 DEF OfType
  <1> QED
    BY <1>1, <1>2, <1>3, <1>4 DEF TokensLand

\* More of the rows there are count no less.
LEMMA MoreRows ==
  ASSUME NEW m \in Nat, NEW S, NEW T \in SUBSET (1 .. m), S \subseteq T, NEW k \in Nat,
         Cardinality(S) >= k
  PROVE  Cardinality(T) >= k
  <1>1. IsFiniteSet(1 .. m)
    BY FS_Interval
  <1>2. IsFiniteSet(T)
    BY <1>1, FS_Subset
  <1>3. Cardinality(S) <= Cardinality(T) /\ IsFiniteSet(S)
    BY <1>2, FS_Subset
  <1>4. Cardinality(S) \in Nat /\ Cardinality(T) \in Nat
    BY <1>2, <1>3, FS_CardinalityType
  <1> QED
    BY <1>3, <1>4

\* Of those who were asked together, all are dropped or none.
Spares(n) ==
  \A i, k \in Id : /\ task[i].node = n /\ task[k].node = n /\ task[i].parent = task[k].parent
                   /\ Live(task[k]) /\ Live(task'[i])
                   => Live(task'[k])
\* New rows are enough by themselves, or take the side of one there is.
Fills(n) ==
  \A x \in last+1 .. last' : task'[x].node = n =>
    \/ Full(task', last', n, task'[x].parent)
    \/ \E i \in Id : task[i].node = n /\ task[i].parent = task'[x].parent /\ Live(task'[i])

LEMMA EnoughKept ==
  ASSUME TokensLand, IInv({}), Evolves({}, task', last'), Enough(task, last),
         \A n \in Ratio : Reached(task', last', n) \/ (Spares(n) /\ Fills(n))
  PROVE  Enough(task', last')
  <1> SUFFICES ASSUME NEW n \in Ratio, ~ Reached(task', last', n), NEW i \in 1 .. last',
                      task'[i].node = n, Live(task'[i])
               PROVE  Full(task', last', n, task'[i].parent)
    BY DEF Enough
  <1>0. /\ last \in Nat /\ last' \in Nat /\ last <= last' /\ Props[n].need \in Nat
        /\ Spares(n) /\ Fills(n)
    BY RatioTyped DEF IInv, TypeOK, Evolves
  <1>1. ASSUME NEW k \in Id, task[k].node = n, Live(task'[k])
        PROVE  Full(task', last', n, task[k].parent)
    <2>1. Live(task[k]) /\ k \in 1 .. last
      BY <1>1 DEF Live, Evolves, Id
    <2>2. FinishedAt(task, last, n) \subseteq FinishedAt(task', last', n)
      BY <1>0 DEF FinishedAt, Evolves, Id
    <2>3. FinishedAt(task', last', n) \in SUBSET (1 .. last')
      BY DEF FinishedAt
    <2>4. ~ Reached(task, last, n)
      BY <1>0, <2>2, <2>3, MoreRows DEF Reached
    <2>5. Full(task, last, n, task[k].parent)
      BY <1>1, <2>1, <2>4 DEF Enough
    <2>6. Team(task, last, n, task[k].parent) \subseteq Team(task', last', n, task[k].parent)
      <3> SUFFICES ASSUME NEW x \in Id, task[x].node = n, task[x].parent = task[k].parent,
                          Live(task[x])
                   PROVE  /\ x \in 1 .. last' /\ task'[x].node = n /\ Live(task'[x])
                          /\ task'[x].parent = task[k].parent
        BY DEF Team, Id
      <3>1. Live(task'[x])
        BY <1>0, <1>1 DEF Spares
      <3> QED
        BY <1>0, <3>1 DEF Evolves, Id
    <2>7. Team(task', last', n, task[k].parent) \in SUBSET (1 .. last')
      BY DEF Team
    <2> DEFINE S == Team(task, last, n, task[k].parent)
               T == Team(task', last', n, task[k].parent)
    <2>8. Cardinality(S) >= Props[n].need /\ S \subseteq T /\ T \in SUBSET (1 .. last')
      BY <2>5, <2>6, <2>7 DEF Full
    <2> HIDE DEF S, T
    <2>9. Cardinality(T) >= Props[n].need
      BY <1>0, <2>8, MoreRows
    <2> QED
      BY <2>9 DEF Full, T
  <1>2. CASE i \in Id
    BY <1>1, <1>2 DEF Evolves
  <1>3. CASE i \notin Id
    <2>1. i \in last+1 .. last'
      BY <1>0, <1>3 DEF Id
    <2> QED
      BY <1>0, <1>1, <2>1 DEF Fills
  <1> QED
    BY <1>2, <1>3

\* A step that drops no row of a countersign with an expression and adds none.
LEMMA EnoughStays ==
  ASSUME TokensLand, IInv({}), Evolves({}, task', last'), Enough(task, last),
         \A i \in Id : Live(task[i]) /\ task[i].node \in Ratio => Live(task'[i]),
         \A x \in last+1 .. last' : task'[x].node \notin Ratio
  PROVE  Enough(task', last')
  <1>1. \A n \in Ratio : Spares(n) /\ Fills(n)
    BY DEF Spares, Fills
  <1> QED
    BY <1>1, EnoughKept

-----------------------------------------------------------------------------
(* Where tokens land, and what is left to show of one action.                *)

LEMMA ChildrenServe ==
  ASSUME TokensLand, NEW n \in Node, NEW p \in Nat
  PROVE  /\ Children(n, p) \in Seq(WorkItem) /\ Serves(Children(n, p))
         /\ Flow.type[n] \notin {"decision", "end"} => Children(n, p) # << >>
         /\ \A x \in outgoingTargets(Flow, n) : x \in Node /\ Flow.type[x] \in Serving
  <1>1. /\ Flow.succ[n] \in Seq(Node) /\ Len(Flow.succ[n]) \in Nat
        /\ DOMAIN Flow.succ[n] = 1 .. Len(Flow.succ[n])
    BY PropTyped
  <1>2. ASSUME NEW x \in outgoingTargets(Flow, n) PROVE x \in Node /\ Flow.type[x] \in Serving
    <2>1. x \in Node
      BY <1>2, SuccessorTyped
    <2>2. x \notin OfType(Flow, "start")
      BY <1>2 DEF TokensLand
    <2> QED
      BY <2>1, <2>2 DEF TokensLand, OfType, Node
  <1> DEFINE w == Children(n, p)
  <1>3. /\ Len(w) = Len(Flow.succ[n])
        /\ \A k \in 1 .. Len(Flow.succ[n]) : w[k].node = Flow.succ[n][k]
    BY <1>1 DEF Children
  <1>4. w \in Seq(WorkItem)
    BY ChildrenTyped
  <1> HIDE DEF w
  <1>5. Serves(w)
    BY <1>1, <1>2, <1>3 DEF Serves, outgoingTargets, FlowRange
  <1>6. ASSUME Flow.type[n] \notin {"decision", "end"} PROVE w # << >>
    <2>1. Flow.succ[n] # << >>
      BY <1>6 DEF TokensLand
    <2> QED
      BY <1>1, <1>3, <1>4, <2>1
  <1> QED
    BY <1>2, <1>4, <1>5, <1>6 DEF w

LEMMA TailServes ==
  ASSUME ZInv, ~ Idle, NEW w \in Seq(WorkItem), Serves(w)
  PROVE  Serves(w \o Tail(work)) /\ (w # << >> => w \o Tail(work) # << >>)
  <1>1. work \in Seq(WorkItem) /\ work # << >>
    BY DEF ZInv, IInv, TypeOK, Idle
  <1>2. Tail(work) \in Seq(WorkItem) /\ Len(Tail(work)) = Len(work) - 1
    BY <1>1
  <1>3. \A k \in 1 .. Len(work) - 1 : Tail(work)[k] = work[k+1]
    BY <1>1
  <1>4. Serves(Tail(work))
    <2>1. Len(work) \in Nat
      BY <1>1
    <2> QED
      BY <1>2, <1>3, <2>1 DEF ZInv, Serves
  <1> DEFINE b == Tail(work)
  <1> HIDE DEF b
  <1>5. b \in Seq(WorkItem) /\ Serves(b)
    BY <1>2, <1>4 DEF b
  <1>6. /\ w \o b \in Seq(WorkItem)
        /\ Len(w \o b) = Len(w) + Len(b)
        /\ \A i \in 1 .. Len(w) + Len(b) : (w \o b)[i] = IF i <= Len(w) THEN w[i] ELSE b[i - Len(w)]
    BY <1>5, ConcatProperties
  <1>7. Len(w) \in Nat /\ Len(b) \in Nat /\ (w # << >> => Len(w) # 0)
    BY <1>5
  <1>8. Serves(w \o b)
    <2> SUFFICES ASSUME NEW k \in 1 .. Len(w) + Len(b) PROVE Flow.type[(w \o b)[k].node] \in Serving
      BY <1>6 DEF Serves
    <2>1. CASE k <= Len(w)
      BY <1>6, <1>7, <2>1 DEF Serves
    <2>2. CASE k > Len(w)
      <3>1. k - Len(w) \in 1 .. Len(b)
        BY <1>7, <2>2
      <3> QED
        BY <1>5, <1>6, <1>7, <2>2, <3>1 DEF Serves
    <2> QED
      BY <1>7, <2>1, <2>2
  <1>9. w # << >> => w \o b # << >>
    <2>1. Len(<< >>) = 0
      OBVIOUS
    <2> QED
      BY <1>6, <1>7, <2>1
  <1> QED
    BY <1>8, <1>9 DEF b

NewSent == \A x \in last+1 .. last' : SentRow(task', task'[x])

LEMMA OngoingNext ==
  ASSUME ZInv, Evolves({}, task', last'), NewSent, state' # "NONE", NEW w,
         state' = "DOING" => Enough(task', last') /\ (Waits(task', last') \/ w # << >>)
  PROVE  Ongoing(state', task', last', w)
  <1>1. last \in Nat /\ last' \in Nat /\ last <= last'
    BY DEF ZInv, IInv, TypeOK, Evolves
  <1>2. ASSUME NEW i \in 1 .. last' PROVE SentRow(task', task'[i])
    <2>1. CASE i \in last+1 .. last'
      BY <2>1 DEF NewSent
    <2>2. CASE i \in Id
      <3>1. SentRow(task, task[i]) /\ task[i].back.src \in 0 .. i-1
        BY <2>2 DEF ZInv, Ongoing, Id, IInv, Sound, RefsOK
      <3>2. /\ task'[i].node = task[i].node /\ task'[i].back = task[i].back
            /\ task[i].st # "DOING" => task'[i] = task[i]
        BY <2>2 DEF Evolves
      <3>3. Asks(task'[i])
        BY <3>1, <3>2 DEF SentRow, Asks, Handled
      <3>4. task[i].back.src # 0 => task[i].back.src \in Id
        BY <1>1, <2>2, <3>1 DEF Id
      <3>5. task[i].back.src # 0 => task'[task[i].back.src].node = task[task[i].back.src].node
        BY <3>4 DEF Evolves
      <3> QED
        BY <3>1, <3>2, <3>3, <3>5 DEF SentRow
    <2> QED
      BY <1>1, <2>1, <2>2 DEF Id
  <1> QED
    BY <1>2 DEF Ongoing, Unstarted

\* A step of the walk that goes on with the nodes w.
LEMMA WalkZInv ==
  ASSUME ZInv, ~ Idle, IInv({})', Evolves({}, task', last'), NewSent, state' # "NONE",
         NEW w \in Seq(WorkItem), Serves(w), Run(w \o Tail(work), cmd),
         state' = "DOING" => Enough(task', last') /\ (Waits(task', last') \/ w # << >>)
  PROVE  ZInv'
  <1> DEFINE v == w \o Tail(work)
  <1>1. Serves(v) /\ (w # << >> => v # << >>)
    BY TailServes
  <1>2. Brings(cmd)
    BY DEF ZInv
  <1> HIDE DEF v
  <1>3. Run(v, cmd)
    BY DEF v
  <1>4. /\ Ongoing(saved'.state, saved'.task, saved'.last, << >>)
        /\ work' = v /\ Serves(work') /\ Brings(cmd')
    BY <1>1, <1>2, <1>3, RunOngoing
  <1>5. Ongoing(state', task', last', v)
    BY <1>1, OngoingNext
  <1> QED
    BY <1>4, <1>5, ZInvNext

\* One that leaves the table alone.
LEMMA PassZInv ==
  ASSUME TokensLand, ZInv, ~ Idle, IInv({})', UNCHANGED <<task, last>>, state' # "NONE",
         NEW w \in Seq(WorkItem), Serves(w), Run(w \o Tail(work), cmd),
         state' = "DOING" => state = "DOING" /\ (Waits(task, last) \/ w # << >>)
  PROVE  ZInv'
  <1>1. IInv({}) /\ last \in Nat
    BY DEF ZInv, IInv, TypeOK
  <1>2. Evolves({}, task', last') /\ NewSent
    BY <1>1, SameTable DEF NewSent
  <1>3. state' = "DOING" => Enough(task', last') /\ (Waits(task', last') \/ w # << >>)
    BY DEF ZInv, Ongoing
  <1> QED
    BY <1>2, <1>3, WalkZInv

\* A command that executes no node, and one that sends tokens on their way.
LEMMA StayZInv ==
  ASSUME ZInv, Idle, IInv({})', Evolves({}, task', last'), NewSent, state' # "NONE",
         work' = work, cmd' = cmd, saved' = saved,
         state' = "DOING" => Enough(task', last') /\ Waits(task', last')
  PROVE  ZInv'
  <1>1. Ongoing(state', task', last', work')
    BY OngoingNext
  <1>2. /\ Ongoing(saved'.state, saved'.task, saved'.last, << >>)
        /\ Serves(work') /\ Brings(cmd')
    BY DEF ZInv
  <1> QED
    BY <1>1, <1>2, ZInvNext

LEMMA GoZInv ==
  ASSUME ZInv, IInv({})', Evolves({}, task', last'), last' = last, state' # "NONE",
         NEW w, NEW c, Run(w, c), w # << >>, Serves(w), Brings(c),
         state' = "DOING" => Enough(task', last')
  PROVE  ZInv'
  <1>1. last \in Nat /\ NewSent
    BY DEF ZInv, IInv, TypeOK, NewSent
  <1>2. /\ Ongoing(saved'.state, saved'.task, saved'.last, << >>)
        /\ work' = w /\ Serves(work') /\ Brings(cmd')
    BY RunOngoing
  <1>3. Ongoing(state', task', last', w)
    BY <1>1, OngoingNext
  <1> QED
    BY <1>2, <1>3, ZInvNext

-----------------------------------------------------------------------------
(* The steps of the walk keep somebody who can act. *)

LEMMA UnderwayZ ==
  ASSUME ZInv, ~ Idle
  PROVE  /\ IInv({}) /\ state # "NONE" /\ last \in Nat /\ task \in [Id -> Row]
         /\ Current.node \in Node /\ Current.parent \in Nat /\ Flow.type[Current.node] \in Serving
  <1>1. IInv({}) /\ last \in Nat /\ state # "NONE" /\ task \in [Id -> Row]
    BY DEF ZInv, IInv, TypeOK, Ongoing, Unstarted, Idle
  <1>2. Current.node \in Node /\ Current.parent \in Nat
    BY <1>1, CurrentTyped
  <1>3. 1 \in 1 .. Len(work) /\ Current = work[1]
    BY DEF ZInv, IInv, TypeOK, Idle, Current
  <1> QED
    BY <1>1, <1>2, <1>3 DEF ZInv, Serves

LEMMA PushZInv ==
  ASSUME TokensLand, ZInv, ~ Idle, IInv({})', UNCHANGED <<state, task, last>>,
         Flow.type[Current.node] \notin {"decision", "end"},
         PushChildren(Current.node, Current.parent)
  PROVE  ZInv'
  <1> DEFINE w == Children(Current.node, Current.parent)
  <1>1. w \in Seq(WorkItem) /\ Serves(w) /\ w # << >>
    BY UnderwayZ, ChildrenServe
  <1>2. Run(w \o Tail(work), cmd)
    BY DEF PushChildren
  <1> HIDE DEF w
  <1> QED
    BY <1>1, <1>2, UnderwayZ, PassZInv

LEMMA UnwindZInv ==
  ASSUME TokensLand, ZInv, ~ Idle, IInv({})', UNCHANGED <<task, last>>, state' # "NONE", Unwind,
         state' = "DOING" => state = "DOING" /\ Waits(task, last)
  PROVE  ZInv'
  <1>1. Run(<< >> \o Tail(work), cmd)
    BY UnderwayZ, UnwindIsRun
  <1>2. << >> \in Seq(WorkItem) /\ Serves(<< >>)
    BY DEF Serves
  <1> QED
    BY <1>1, <1>2, PassZInv

LEMMA OpenWaits ==
  ASSUME NEW d, NEW m, DOMAIN d = 1 .. m
  PROVE  Waits(d, m) <=> DoingIn(d) # {}
  BY DEF Waits, DoingIn

\* A join that waits waits for somebody.
LEMMA joinWaitsZInv ==
  ASSUME TokensLand, ZInv, IInv({})', joinWaits
  PROVE  ZInv'
  <1>1. ~ Idle /\ Unwind /\ UNCHANGED <<state, task, last>> /\ ~ mergeReady(Current.node, Current.parent)
    BY DEF joinWaits, Executing
  <1>2. DoingIn(task) # {}
    BY <1>1 DEF mergeReady
  <1>3. Waits(task, last)
    BY <1>1, <1>2, UnderwayZ, OpenWaits DEF Id
  <1> QED
    BY <1>1, <1>3, UnderwayZ, UnwindZInv

LEMMA TeamsEnough ==
  ASSUME TokensLand, ZInv, NEW n \in Node
  PROVE  /\ Len(Teams(n, resolveActors(n))) >= 1
         /\ n \in Ratio => Len(Teams(n, resolveActors(n))) >= Props[n].need
  <1> DEFINE roster == resolveActors(n)
  <1>1. roster \in Roster
    BY resolveActorsTyped DEF ZInv
  <1>2. n \in Ratio => roster \in Rosters(n)
    <2> SUFFICES ASSUME n \in Ratio PROVE roster \in Rosters(n)
      OBVIOUS
    <2>1. n \notin cmd.home
      BY RatioTyped DEF ZInv, Brings
    <2>2. CASE cmd.next # << >>
      BY <2>2 DEF ZInv, Brings, Rosters, resolveActors
    <2>3. CASE cmd.next = << >>
      BY <2>1, <2>3 DEF Rosters, resolveActors
    <2> QED
      BY <2>2, <2>3
  <1> HIDE DEF roster
  <1>3. Len(Teams(n, roster)) >= 1
    <2>1. CASE roster = << >> \/ Props[n].countersign \in {"none", "SEQUENTIAL"}
      <3>1. PICK S : Teams(n, roster) = <<S>>
        BY <2>1 DEF Teams
      <3>2. Len(<<S>>) = 1
        OBVIOUS
      <3> QED
        BY <3>1, <3>2
    <2>2. CASE roster # << >> /\ Props[n].countersign \notin {"none", "SEQUENTIAL"}
      <3>1. Len(roster) \in Nat /\ Len(roster) # 0
        BY <1>1, <2>2 DEF Roster
      <3>2. Teams(n, roster) = [k \in 1 .. Len(roster) |-> {roster[k]}]
        BY <2>2 DEF Teams
      <3>3. Len(Teams(n, roster)) = Len(roster)
        BY <3>1, <3>2
      <3> QED
        BY <3>1, <3>3
    <2> QED
      BY <2>1, <2>2
  <1>4. n \in Ratio => Len(Teams(n, roster)) >= Props[n].need
    <2> SUFFICES ASSUME n \in Ratio PROVE Len(Teams(n, roster)) >= Props[n].need
      OBVIOUS
    <2>1. Props[n].need <= Len(Teams(n, roster))
      BY <1>2 DEF TokensLand
    <2>2. Props[n].need \in Nat /\ Len(Teams(n, roster)) \in Nat
      BY <1>1, RatioTyped, TeamsTyped
    <2> QED
      BY <2>1, <2>2
  <1> QED
    BY <1>3, <1>4 DEF roster

LEMMA createTaskZInv ==
  ASSUME TokensLand, ZInv, createTask
  PROVE  ZInv'
  <1> DEFINE n == Current.node
             p == Current.parent
             roster == resolveActors(n)
             len == Len(Teams(n, roster))
  <1>0. /\ ~ Idle /\ last \in Nat /\ IInv({}) /\ Flow.type[n] = "task"
        /\ Evolves({}, task', last') /\ IInv({})'
    BY createTaskKeeps DEF createTask, Executing, ZInv, IInv, TypeOK
  <1>1. n \in Node /\ roster \in Roster
    BY <1>0, CurrentTyped, resolveActorsTyped
  <1>2. len \in Nat /\ len >= 1 /\ (n \in Ratio => len >= Props[n].need)
    BY <1>1, TeamsTyped, TeamsEnough
  <1>4. last' = last + len /\ Unwind /\ state' = state
    BY <1>0, <1>1, createTaskRows DEF createTask
  <1>6. /\ \A x \in last+1 .. last' : /\ task'[x].node = n /\ task'[x].parent = p
                                      /\ task'[x].st = "DOING" /\ task'[x].back.src = 0
        /\ \A i \in Id : task'[i] = task[i]
    BY <1>0, <1>1, createTaskRows DEF NoBack
  <1> HIDE DEF len, roster
  <1>7. NewSent
    BY <1>0, <1>6 DEF NewSent, SentRow, Asks
  <1>8. last + 1 \in last+1 .. last' /\ last + 1 \in 1 .. last' /\ last' \in Nat
    BY <1>0, <1>2, <1>4
  <1>9. Waits(task', last')
    BY <1>6, <1>8 DEF Waits
  <1>10. n \in Ratio => Full(task', last', n, p)
    <2> SUFFICES ASSUME n \in Ratio PROVE Full(task', last', n, p)
      OBVIOUS
    <2> DEFINE S == last+1 .. last'
               T == Team(task', last', n, p)
    <2>1. S \subseteq T
      BY <1>0, <1>6, <1>8 DEF Team, Live
    <2>2. T \in SUBSET (1 .. last')
      BY DEF Team
    <2>3. Cardinality(S) = len
      <3>1. Cardinality(S) = last' - (last+1) + 1
        BY <1>0, <1>2, <1>4, <1>8, FS_Interval
      <3> QED
        BY <1>0, <1>2, <1>4, <3>1
    <2>4. Props[n].need \in Nat
      BY RatioTyped
    <2> HIDE DEF S, T
    <2>5. Cardinality(T) >= Props[n].need
      BY <1>2, <1>8, <2>1, <2>2, <2>3, <2>4, MoreRows
    <2> QED
      BY <2>5 DEF Full, T
  <1>11. ASSUME NEW m \in Ratio PROVE Spares(m) /\ Fills(m)
    <2>1. Spares(m)
      BY <1>6 DEF Spares
    <2>2. Fills(m)
      BY <1>6, <1>10 DEF Fills
    <2> QED
      BY <2>1, <2>2
  <1>12. state' = "DOING" => Enough(task', last')
    BY <1>0, <1>4, <1>11, EnoughKept DEF ZInv, Ongoing
  <1>13. Run(<< >> \o Tail(work), cmd) /\ << >> \in Seq(WorkItem) /\ Serves(<< >>)
    BY <1>0, <1>4, UnwindIsRun DEF Serves
  <1>14. state' # "NONE"
    BY <1>0, <1>4, UnderwayZ
  <1> QED
    BY <1>0, <1>7, <1>9, <1>12, <1>13, <1>14, WalkZInv

LEMMA execCustomNodeZInv ==
  ASSUME TokensLand, ZInv, execCustomNode
  PROVE  ZInv'
  <1> DEFINE n == Current.node
             p == Current.parent
             r == [NewRow(n, p, {cmd.user}) EXCEPT !.st = "DONE", !.by = cmd.user]
             w == Children(n, p)
  <1>0. /\ ~ Idle /\ last \in Nat /\ IInv({}) /\ Flow.type[n] = "custom"
        /\ Evolves({}, task', last') /\ IInv({})'
    BY execCustomNodeKeeps DEF execCustomNode, Executing, ZInv, IInv, TypeOK
  <1>1. /\ task' = Appended(task, << r >>) /\ last' = last + 1 /\ state' = state
        /\ Run(w \o Tail(work), cmd)
    BY DEF execCustomNode, PushChildren
  <1>2. r.node = n /\ r.st = "DONE" /\ r.owner = NoUser /\ r.back.src = 0
    BY DEF NewRow, NoBack
  <1>3. w \in Seq(WorkItem) /\ Serves(w) /\ w # << >>
    BY <1>0, UnderwayZ, ChildrenServe
  <1> HIDE DEF r, w
  <1>4. /\ \A x \in last+1 .. last' : task'[x] = r
        /\ \A i \in Id : task'[i] = task[i]
    BY <1>0, <1>1, AppendedRow
  <1>5. NewSent
    BY <1>2, <1>4, UserAssumption DEF NewSent, SentRow, Asks, Handled
  <1>6. n \notin Ratio
    BY <1>0, RatioTyped
  <1>7. state' = "DOING" => Enough(task', last')
    BY <1>0, <1>1, <1>2, <1>4, <1>6, EnoughStays DEF ZInv, Ongoing
  <1>8. state' # "NONE"
    BY <1>0, <1>1, UnderwayZ
  <1> QED
    BY <1>0, <1>1, <1>3, <1>5, <1>7, <1>8, WalkZInv

LEMMA evaluateDecisionZInv ==
  ASSUME TokensLand, ZInv, evaluateDecision
  PROVE  ZInv'
  <1>0. /\ ~ Idle /\ IInv({})' /\ UNCHANGED <<state, task, last>>
        /\ Current.node \in Node /\ Current.parent \in Nat
    BY evaluateDecisionKeeps, UnderwayZ DEF evaluateDecision, Executing, ZInv
  <1>1. PICK m \in DecisionTargets(Current.node) :
          Run(<<[node |-> m, parent |-> Current.parent]>> \o Tail(work), cmd)
    BY DEF evaluateDecision
  <1>2. m \in outgoingTargets(Flow, Current.node)
    <2>1. DOMAIN Flow.succ[Current.node] = 1 .. Len(Flow.succ[Current.node])
      BY <1>0, PropTyped
    <2> QED
      BY <2>1 DEF DecisionTargets, outgoingTargets, FlowRange
  <1>3. m \in Node /\ Flow.type[m] \in Serving
    BY <1>0, <1>2, ChildrenServe
  <1> DEFINE w == <<[node |-> m, parent |-> Current.parent]>>
  <1>4. w \in Seq(WorkItem) /\ w # << >> /\ Len(w) = 1 /\ w[1].node = m
    BY <1>0, <1>3 DEF WorkItem
  <1>5. Run(w \o Tail(work), cmd)
    BY <1>1
  <1> HIDE DEF w
  <1>6. Serves(w)
    BY <1>3, <1>4 DEF Serves
  <1> QED
    BY <1>0, <1>4, <1>5, <1>6, UnderwayZ, PassZInv

\* Without a transaction no step of the walk fails; with one, a failure leaves
\* the instance as it was before the command.
LEMMA abortZInv ==
  ASSUME TokensLand, ZInv, abort
  PROVE  ZInv'
  <1>1. IInv({})' /\ ~ Idle
    BY abortKeeps DEF ZInv, abort, Executing
  <1>2. Current.node \in Node
    BY <1>1, UnderwayZ
  <1>3. Transactional
    BY <1>2 DEF TokensLand, abort, Executing, OfType, Node
  <1>4. Run(<< >>, NoCmd)
    BY DEF abort
  <1>5. Serves(<< >>) /\ Brings(NoCmd)
    BY NoneBrings DEF Serves
  <1>6. /\ Ongoing(saved'.state, saved'.task, saved'.last, << >>)
        /\ work' = << >> /\ Serves(work') /\ Brings(cmd')
    BY <1>4, <1>5, RunOngoing
  <1>7. Ongoing(state', task', last', << >>)
    BY <1>3 DEF abort, ZInv
  <1> QED
    BY <1>1, <1>6, <1>7, ZInvNext

LEMMA StepZInv ==
  ASSUME TokensLand, ZInv, Step
  PROVE  ZInv'
  <1>0. IInv({})
    BY DEF ZInv
  <1>1. CASE abort
    BY <1>1, abortZInv
  <1>2. CASE ~ abort
    <2>1. IInv({})'
      BY <1>0, <1>2, StepKeeps
    <2>2. CASE executeFork \/ joinReleases
      BY <2>1, <2>2, PushZInv DEF executeFork, joinReleases, Executing
    <2>3. CASE executeUnknown
      BY <2>3, UnderwayZ DEF executeUnknown, Serving
    <2>4. CASE executeEnd
      <3>1. state' # "NONE" /\ state' # "DOING"
        BY <2>4 DEF executeEnd
      <3> QED
        BY <2>1, <2>4, <3>1, UnwindZInv DEF executeEnd, Executing
    <2> QED
      BY <1>2, <2>1, <2>2, <2>3, <2>4, createTaskZInv, execCustomNodeZInv, evaluateDecisionZInv,
         joinWaitsZInv DEF Step
  <1> QED
    BY <1>1, <1>2

LEMMA StartProcessInstanceZInv ==
  ASSUME TokensLand, ZInv, StartProcessInstance
  PROVE  ZInv'
  <1> DEFINE w == Children(startNode(Flow), 0)
             c == [NoCmd EXCEPT !.user = Initiator]
  <1>1. last = 0
    BY DEF ZInv, Ongoing, Unstarted, StartProcessInstance
  <1>2. Evolves({}, task', last') /\ IInv({})'
    BY StartProcessInstanceKeeps DEF ZInv, StartProcessInstance
  <1>3. UNCHANGED <<task, last>> /\ state' = "DOING" /\ Run(w, c)
    BY DEF StartProcessInstance
  <1>4. Serves(w) /\ w # << >>
    BY StartTyped, StartIsStart, ChildrenServe
  <1>5. Brings(c)
    BY DEF Brings, NoCmd
  <1>6. Enough(task', last')
    BY <1>1, <1>3 DEF Enough
  <1> HIDE DEF w, c
  <1> QED
    BY <1>2, <1>3, <1>4, <1>5, <1>6, GoZInv

-----------------------------------------------------------------------------
(* The commands keep somebody who can act. *)

\* The table e drops no row of a countersign with an expression.
KeepsMembers(e) == \A i \in Id : Live(task[i]) /\ task[i].node \in Ratio => Live(e[i])

LEMMA CommandZ ==
  ASSUME TokensLand, ZInv, NEW t \in Id, NEW u \in User, NEW submit \in Submit, Allowed(t, u)
  PROVE  /\ IInv({}) /\ last \in Nat /\ task \in [Id -> Row] /\ state # "NONE"
         /\ task[t].st = "DOING" /\ task[t].node \in Node /\ Flow.type[task[t].node] = "task"
         /\ t \in Nat /\ t # 0
         /\ KeepsMembers(Completed(t, u, submit)) /\ Completed(t, u, submit)[t].st = "DONE"
         /\ \A i \in Id : Completed(t, u, submit)[i].node = task[i].node
         /\ DOMAIN Completed(t, u, submit) = Id
  <1>1. /\ IInv({}) /\ TypeOK /\ last \in Nat /\ task \in [Id -> Row] /\ task[t].st = "DOING"
        /\ task[t].node \in Node /\ t \in 1 .. last
    BY DEF ZInv, IInv, TypeOK, Row, Allowed, Id
  <1>2. state # "NONE" /\ Flow.type[task[t].node] = "task"
    <2>1. SentRow(task, task[t]) /\ Unstarted(state, last, work)
      BY <1>1 DEF ZInv, Ongoing
    <2> QED
      BY <1>1, <2>1 DEF SentRow, Asks, Unstarted
  <1>3. /\ Settles(Completed(t, u, submit)) /\ Handled(Completed(t, u, submit)[t])
        /\ \A i \in Id \ {t} : Completed(t, u, submit)[i] = task[i]
    BY <1>1, CompletedSettles
  <1>4. KeepsMembers(Completed(t, u, submit)) /\ Completed(t, u, submit)[t].st = "DONE"
    BY <1>3 DEF KeepsMembers, Live, Handled
  <1> QED
    BY <1>1, <1>2, <1>3, <1>4 DEF Settles

\* What a node with added signers drops are no members.
LEMMA LeftKeeps ==
  ASSUME TokensLand, ZInv, NEW t \in Id, NEW u \in User, NEW submit \in Submit, Allowed(t, u),
         NEW n \in Node
  PROVE  KeepsMembers(DropOpenAt(Completed(t, u, submit), n))
  <1> DEFINE d == Completed(t, u, submit)
  <1>1. KeepsMembers(d) /\ \A i \in Id : d[i].node = task[i].node
    BY CommandZ
  <1>2. n \in Ratio => ~ AddSignGate(n)
    BY RatioTyped DEF AddSignGate
  <1> HIDE DEF d
  <1>3. \A i \in Id : task[i].node \in Ratio => DropOpenAt(d, n)[i] = d[i]
    BY <1>1, <1>2 DEF DropOpenAt, DoingAt
  <1>4. KeepsMembers(DropOpenAt(d, n))
    BY <1>1, <1>3 DEF KeepsMembers
  <1> QED
    BY <1>4 DEF d

LEMMA SettleEnough ==
  ASSUME TokensLand, ZInv, Evolves({}, task', last'), last' = last, KeepsMembers(task'),
         state' = state
  PROVE  /\ NewSent /\ (state' = "DOING" => Enough(task', last'))
  <1>1. last+1 .. last' = {} /\ IInv({})
    BY DEF ZInv, IInv, TypeOK
  <1> QED
    BY <1>1, EnoughStays DEF ZInv, Ongoing, KeepsMembers, NewSent

\* A row counts at the node of whom it stands beside, or at none that counts.
LEMMA OneRowZInv ==
  ASSUME TokensLand, ZInv, Idle, IInv({})', Evolves({}, task', last'), NEW e, KeepsMembers(e),
         NEW r, task' = Appended(e, << r >>), last' = last + 1,
         state' = state, state # "NONE", work' = work, cmd' = cmd, saved' = saved,
         r.st = "DOING", Flow.type[r.node] = "task",
         r.back.src # 0 => r.back.src \in Id /\ Props[task[r.back.src].node].countersign = "none",
         \/ r.node \notin Ratio
         \/ \E i \in Id : task[i].node = r.node /\ task[i].parent = r.parent /\ Live(task[i])
  PROVE  ZInv'
  <1>1. last \in Nat /\ IInv({})
    BY DEF ZInv, IInv, TypeOK
  <1>2. /\ \A i \in Id : task'[i] = e[i]
        /\ \A x \in last+1 .. last' : x = last + 1 /\ task'[x] = r
    BY <1>1, AppendedRow
  <1>3. last + 1 \in 1 .. last' /\ last + 1 \in last+1 .. last'
    BY <1>1
  <1>4. Waits(task', last')
    BY <1>2, <1>3 DEF Waits
  <1>5. NewSent
    <2>1. r.back.src # 0 => task'[r.back.src].node = task[r.back.src].node
      BY DEF Evolves
    <2> QED
      BY <1>2, <2>1 DEF NewSent, SentRow, Asks
  <1>6. \A n \in Ratio : Spares(n) /\ Fills(n)
    <2>1. \A i \in Id : Live(task[i]) /\ task[i].node \in Ratio => Live(task'[i])
      BY <1>2 DEF KeepsMembers
    <2> QED
      BY <1>2, <2>1 DEF Spares, Fills
  <1>7. state' = "DOING" => Enough(task', last')
    BY <1>1, <1>6, EnoughKept DEF ZInv, Ongoing
  <1> QED
    BY <1>4, <1>5, <1>7, StayZInv

LEMMA GateWaits ==
  ASSUME TokensLand, ZInv, NEW t \in Id, NEW u \in User, NEW submit \in Submit, Allowed(t, u),
         GateHolds(Completed(t, u, submit), t, submit), Enough(Completed(t, u, submit), last)
  PROVE  Waits(Completed(t, u, submit), last)
  <1> DEFINE d == Completed(t, u, submit)
             n == task[t].node
  <1>1. /\ d[t].st = "DONE" /\ d[t].node = n /\ DOMAIN d = 1 .. last /\ t \in 1 .. last
        /\ n \in OfType(Flow, "task") /\ last \in Nat
    BY CommandZ DEF OfType, Node, Id
  <1> HIDE DEF d, n
  <1>2. DoingAt(d, n) # {} => DoingIn(d) # {}
    BY DEF DoingAt
  <1>3. CASE ParallelGate(d, t, submit) /\ ~ ParallelOpen(d, n) /\ Props[n].condition \in {"EQ", "GE"}
    <2>1. n \in Ratio
      BY <1>1, <1>3 DEF ParallelGate, Ratio
    <2>2. Props[n].condition = "GE" /\ Props[n].need \in Nat
      BY <2>1, RatioTyped
    <2> DEFINE F == FinishedAt(d, last, n)
               T == Team(d, last, n, d[t].parent)
    <2>3. F = { i \in DOMAIN d : d[i].node = n /\ d[i].st = "DONE" }
      BY <1>1 DEF FinishedAt
    <2>4. ~ (Cardinality(F) >= Props[n].need)
      BY <1>3, <2>2, <2>3 DEF ParallelOpen, CountersignDone
    <2>5. Full(d, last, n, d[t].parent)
      BY <1>1, <2>1, <2>4 DEF Enough, Reached, Live, d
    <2>6. Cardinality(T) >= Props[n].need /\ F \in SUBSET (1 .. last)
      BY <2>5 DEF Full, FinishedAt
    <2> HIDE DEF F, T
    <2>7. ~ T \subseteq F
      BY <1>1, <2>2, <2>4, <2>6, MoreRows
    <2>8. PICK i \in T : i \notin F
      BY <2>7
    <2>9. i \in 1 .. last /\ d[i].st = "DOING"
      BY <2>8 DEF T, F, Team, FinishedAt, Live
    <2> QED
      BY <2>9 DEF Waits, d
  <1>4. CASE DoingIn(d) # {}
    BY <1>1, <1>4, OpenWaits DEF d
  <1>5. GateHolds(d, t, submit)
    BY DEF d
  <1> QED
    BY <1>1, <1>2, <1>3, <1>4, <1>5 DEF GateHolds, ParallelOpen

LEMMA ExecuteWaitZInv ==
  ASSUME TokensLand, ZInv, NEW t \in Id, NEW u \in User, NEW submit \in Submit,
         ExecuteWait(t, u, submit)
  PROVE  ZInv'
  <1>1. Idle /\ Allowed(t, u) /\ IInv({})
    BY DEF ExecuteWait, Executes, ZInv
  <1>2. Evolves({}, task', last') /\ IInv({})'
    BY <1>1, ExecuteWaitKeeps
  <1>3. /\ task' = Completed(t, u, submit) /\ last' = last /\ state' = state
        /\ work' = work /\ cmd' = cmd /\ saved' = saved
        /\ GateHolds(Completed(t, u, submit), t, submit)
    BY DEF ExecuteWait
  <1>4. KeepsMembers(task') /\ state # "NONE"
    BY <1>1, <1>3, CommandZ
  <1>5. NewSent /\ (state' = "DOING" => Enough(task', last'))
    BY <1>2, <1>3, <1>4, SettleEnough
  <1>6. state' = "DOING" => Waits(task', last')
    BY <1>1, <1>3, <1>5, GateWaits
  <1> QED
    BY <1>1, <1>2, <1>3, <1>4, <1>5, <1>6, StayZInv

LEMMA ExecuteNextMemberZInv ==
  ASSUME TokensLand, ZInv, NEW t \in Id, NEW u \in User, NEW submit \in Submit,
         ExecuteNextMember(t, u, submit)
  PROVE  ZInv'
  <1> DEFINE d == Completed(t, u, submit)
             n == task[t].node
             s == d[t].cs[n]
             r == [NewRow(n, t, {s.members[s.idx + 2]}) EXCEPT
                     !.cs[n] = [s EXCEPT !.idx = s.idx + 1]]
  <1>1. Idle /\ Allowed(t, u) /\ IInv({})
    BY DEF ExecuteNextMember, Executes, ZInv
  <1>2. Evolves({}, task', last') /\ IInv({})'
    BY <1>1, ExecuteNextMemberKeeps
  <1>3. KeepsMembers(d) /\ Flow.type[n] = "task" /\ state # "NONE" /\ d[t].node = n
    BY <1>1, CommandZ
  <1>4. /\ task' = Appended(d, << r >>) /\ last' = last + 1
        /\ state' = state /\ work' = work /\ cmd' = cmd /\ saved' = saved
    BY DEF ExecuteNextMember
  <1>5. r.node = n /\ r.st = "DOING" /\ r.back.src = 0
    BY DEF NewRow, NoBack
  <1>6. n \notin Ratio
    BY <1>3, RatioTyped DEF ExecuteNextMember, SequentialGate
  <1> HIDE DEF d, r
  <1> QED
    BY <1>1, <1>2, <1>3, <1>4, <1>5, <1>6, OneRowZInv

LEMMA ExecuteAddSignZInv ==
  ASSUME TokensLand, ZInv, NEW t \in Id, NEW u \in User, NEW submit \in Submit,
         NEW ops \in Roster, ExecuteAddSign(t, u, submit, ops)
  PROVE  ZInv'
  <1> DEFINE d == Completed(t, u, submit)
             n == task[t].node
  <1>1. Idle /\ Allowed(t, u) /\ IInv({})
    BY DEF ExecuteAddSign, Executes, ZInv
  <1>2. Evolves({}, task', last') /\ IInv({})'
    BY <1>1, ExecuteAddSignKeeps
  <1>3. KeepsMembers(d) /\ Flow.type[n] = "task" /\ state # "NONE"
    BY <1>1, CommandZ
  <1>4. n \notin Ratio
    BY RatioTyped DEF ExecuteAddSign
  <1>5. state' = state /\ work' = work /\ cmd' = cmd /\ saved' = saved
    BY DEF ExecuteAddSign
  <1>6. /\ last \in Nat /\ last + 1 \in last+1 .. last' /\ \A i \in Id : task'[i] = d[i]
        /\ \A x \in last+1 .. last' :
             task'[x].node = n /\ task'[x].st = "DOING" /\ task'[x].back = NoBack
    BY <1>1, AddSignRows
  <1> HIDE DEF d
  <1>7. last + 1 \in 1 .. last' /\ NoBack.src = 0
    BY <1>6 DEF NoBack
  <1>8. Waits(task', last') /\ NewSent
    BY <1>3, <1>6, <1>7 DEF Waits, NewSent, SentRow, Asks
  <1>9. state' = "DOING" => Enough(task', last')
    <2>1. \A i \in Id : Live(task[i]) /\ task[i].node \in Ratio => Live(task'[i])
      BY <1>3, <1>6 DEF KeepsMembers
    <2> QED
      BY <1>1, <1>2, <1>4, <1>5, <1>6, <2>1, EnoughStays DEF ZInv, Ongoing
  <1> QED
    BY <1>1, <1>2, <1>3, <1>5, <1>8, <1>9, StayZInv

\* The token leaves a countersign with an expression when that has all the
\* answers it waits for.
LEMMA ExecuteAdvanceZInv ==
  ASSUME TokensLand, ZInv, NEW t \in Id, NEW u \in User, NEW submit \in Submit,
         NEW next \in NextOps, ExecuteAdvance(t, u, submit, next)
  PROVE  ZInv'
  <1> DEFINE d == Completed(t, u, submit)
             n == task[t].node
             w == Children(n, t)
             c == [user |-> u, next |-> next, home |-> {}]
  <1>1. Idle /\ Allowed(t, u) /\ IInv({}) /\ next \in Roster
    BY InputAssumption DEF ExecuteAdvance, Executes, ZInv
  <1>2. Evolves({}, task', last') /\ IInv({})'
    BY <1>1, ExecuteAdvanceKeeps
  <1>3. /\ KeepsMembers(d) /\ Flow.type[n] = "task" /\ state # "NONE" /\ n \in Node /\ t \in Nat
        /\ \A i \in Id : d[i].node = task[i].node
        /\ DOMAIN d = Id /\ last \in Nat
    BY <1>1, CommandZ
  <1>4. /\ task' = AbandonRest(d, n) /\ last' = last /\ state' = state /\ Run(w, c)
        /\ ~ GateHolds(d, t, submit)
    BY DEF ExecuteAdvance
  <1>5. w # << >> /\ Serves(w)
    BY <1>3, ChildrenServe
  <1>6. Brings(c)
    BY DEF Brings
  <1> HIDE DEF w, c, d
  <1>7. \A i \in Id : task[i].node # n \/ d[i].st # "DOING" => task'[i] = d[i]
    BY <1>3, <1>4 DEF AbandonRest, DoingAt, DoingIn
  <1>8. ASSUME NEW m \in Ratio PROVE Reached(task', last', m) \/ (Spares(m) /\ Fills(m))
    <2>1. CASE m = n
      <3>1. /\ Props[n].countersign = "PARALLEL" /\ Props[n].condition = "GE"
            /\ Props[n].need \in Nat
        BY <2>1, RatioTyped
      <3>2. ParallelGate(d, t, submit)
        BY <1>3, <3>1 DEF ParallelGate, Veto
      <3>3. CountersignDone(d, n)
        BY <1>3, <1>4, <3>1, <3>2 DEF GateHolds, ParallelOpen
      <3>4. Cardinality(FinishedAt(d, last, n)) >= Props[n].need
        <4>1. FinishedAt(d, last, n) = { i \in DOMAIN d : d[i].node = n /\ d[i].st = "DONE" }
          BY <1>3 DEF FinishedAt, Id
        <4> QED
          BY <3>1, <3>3, <4>1 DEF CountersignDone
      <3>5. FinishedAt(d, last, n) \subseteq FinishedAt(task', last', n)
        BY <1>4, <1>7 DEF FinishedAt, Id
      <3>6. FinishedAt(task', last', n) \in SUBSET (1 .. last)
        BY <1>4 DEF FinishedAt
      <3> QED
        BY <1>3, <2>1, <3>1, <3>4, <3>5, <3>6, MoreRows, ZenonT(40) DEF Reached
    <2>2. CASE m # n
      <3>1. Spares(m)
        BY <1>3, <1>7, <2>2 DEF Spares, KeepsMembers
      <3>2. last+1 .. last' = {}
        BY <1>3, <1>4
      <3> QED
        BY <3>1, <3>2 DEF Fills
    <2> QED
      BY <2>1, <2>2
  <1>9. state' = "DOING" => Enough(task', last')
    BY <1>1, <1>2, <1>4, <1>8, EnoughKept DEF ZInv, Ongoing
  <1> QED
    BY <1>2, <1>3, <1>4, <1>5, <1>6, <1>9, GoZInv

LEMMA executeReapplyZInv ==
  ASSUME TokensLand, ZInv, NEW t \in Id, NEW u \in User, executeReapply(t, u)
  PROVE  ZInv'
  <1> DEFINE d == Completed(t, u, "reapply")
             n == task[task[t].back.src].node
             r == [NewRow(n, t, FlowRange(Props[n].assignee)) EXCEPT
                     !.scopes = task[t].back.branch]
  <1>1. Idle /\ Allowed(t, u) /\ IInv({})
    BY DEF executeReapply, ZInv
  <1>2. Evolves({}, task', last') /\ IInv({})'
    BY <1>1, executeReapplyKeeps
  <1>3. KeepsMembers(d) /\ state # "NONE"
    BY <1>1, CommandZ DEF Submit
  <1>4. /\ task' = Appended(d, << r >>) /\ last' = last + 1
        /\ state' = state /\ work' = work /\ cmd' = cmd /\ saved' = saved
        /\ Flow.type[n] = "task" /\ task[t].back.src # 0
    BY DEF executeReapply
  <1>5. r.node = n /\ r.st = "DOING" /\ r.back.src = 0
    BY DEF NewRow, NoBack
  <1>6. Props[n].countersign = "none"
    BY <1>4 DEF ZInv, Ongoing, SentRow, Id
  <1>7. n \notin Ratio
    BY <1>6, RatioTyped
  <1> HIDE DEF d, r, n
  <1> QED
    BY <1>1, <1>2, <1>3, <1>4, <1>5, <1>7, OneRowZInv

LEMMA ExecuteAndJumpToEndZInv ==
  ASSUME TokensLand, ZInv, NEW t \in Id, NEW u \in User, ExecuteAndJumpToEnd(t, u)
  PROVE  ZInv'
  <1>1. Idle /\ Allowed(t, u) /\ IInv({}) /\ last \in Nat
    BY DEF ExecuteAndJumpToEnd, ZInv, IInv, TypeOK
  <1>2. Evolves({}, task', last') /\ IInv({})'
    BY <1>1, ExecuteAndJumpToEndKeeps
  <1>3. /\ last' = last /\ state' = "REJECT" /\ work' = work /\ cmd' = cmd /\ saved' = saved
        /\ NewSent
    BY <1>1 DEF ExecuteAndJumpToEnd, NewSent
  <1> QED
    BY <1>1, <1>2, <1>3, StayZInv

\* Without a transaction no return to the source fails.
LEMMA ReturnFailsNever ==
  ASSUME TokensLand, ZInv, NEW t \in Id, NEW u \in User
  PROVE  ~ ReturnFails(t, u)
  <1> SUFFICES ASSUME ReturnFails(t, u) PROVE FALSE
    OBVIOUS
  <1>1. Allowed(t, u) /\ ~ Transactional
    BY DEF ReturnFails
  <1>2. task[t].node \in OfType(Flow, "task")
    <2>1. "return" \in Submit
      BY DEF Submit
    <2> QED
      BY <1>1, <2>1, CommandZ DEF OfType, Node
  <1> QED
    BY <1>1, <1>2 DEF TokensLand, ReturnFails

\* The row that comes to life again stands beside the one it repeats.
LEMMA rollbackToParentZInv ==
  ASSUME TokensLand, ZInv, NEW t \in Id, NEW u \in User, rollbackToParent(t, u)
  PROVE  ZInv'
  <1> DEFINE d == Completed(t, u, "rollback")
             p == task[t].parent
             his == task[p]
             actor == IF his.node \in FirstTaskNode THEN his.owner ELSE his.by
             r == [NewRow(his.node, his.parent, {actor}) EXCEPT
                     !.owner = his.owner, !.scopes = his.scopes,
                     !.back = his.back, !.round = his.round]
  <1>1. Idle /\ Allowed(t, u) /\ IInv({}) /\ p # 0
    BY DEF rollbackToParent, ZInv
  <1>2. Evolves({}, task', last') /\ IInv({})'
    BY <1>1, rollbackToParentKeeps DEF NoWayBack
  <1>3. KeepsMembers(d) /\ state # "NONE" /\ last \in Nat
    BY <1>1, CommandZ DEF Submit
  <1>4. /\ task' = Appended(d, << r >>) /\ last' = last + 1
        /\ state' = state /\ work' = work /\ cmd' = cmd /\ saved' = saved
    BY DEF rollbackToParent
  <1>5. r.node = his.node /\ r.parent = his.parent /\ r.st = "DOING" /\ r.back = his.back
    BY DEF NewRow
  <1>6. p \in Id /\ Handled(his)
    <2>1. RefsOK({}, task, t) /\ t \in 1 .. last
      BY <1>1 DEF IInv, Sound, Id
    <2> QED
      BY <1>1, <1>3, <2>1 DEF RefsOK, Below, Id
  <1>7. SentRow(task, his) /\ his.back.src \in 0 .. p-1
    BY <1>1, <1>6 DEF ZInv, Ongoing, IInv, Sound, RefsOK, Id
  <1>8. Flow.type[his.node] = "task" /\ Live(his)
    BY <1>6, <1>7 DEF SentRow, Asks, Handled, Live
  <1>9. his.back.src # 0 => his.back.src \in Id /\ Props[task[his.back.src].node].countersign = "none"
    <2>1. his.back.src # 0 => Props[task[his.back.src].node].countersign = "none"
      BY <1>7 DEF SentRow
    <2>2. p \in 1 .. last
      BY <1>6 DEF Id
    <2> HIDE DEF his, p
    <2>3. his.back.src # 0 => his.back.src \in 1 .. last
      BY <1>3, <1>7, <2>2
    <2> QED
      BY <2>1, <2>3 DEF Id
  <1> HIDE DEF d, r
  <1> QED
    BY <1>1, <1>2, <1>3, <1>4, <1>5, <1>6, <1>8, <1>9, OneRowZInv

\* One token is put on one node.
LEMMA LandZInv ==
  ASSUME TokensLand, ZInv, IInv({})', Evolves({}, task', last'), KeepsMembers(task'),
         last' = last, state' = state, state # "NONE", NEW t, NEW n, Flow.type[n] \in Serving,
         NEW c, Brings(c), Run(<<[node |-> n, parent |-> t]>>, c)
  PROVE  ZInv'
  <1> DEFINE w == <<[node |-> n, parent |-> t]>>
  <1>1. Len(w) = 1 /\ w[1].node = n /\ w # << >>
    OBVIOUS
  <1>2. Run(w, c)
    OBVIOUS
  <1> HIDE DEF w
  <1>3. Serves(w)
    BY <1>1 DEF Serves
  <1>4. state' = "DOING" => Enough(task', last')
    BY SettleEnough
  <1> QED
    BY <1>1, <1>2, <1>3, <1>4, GoZInv

LEMMA ExecuteAndJumpTaskZInv ==
  ASSUME TokensLand, ZInv, NEW t \in Id, NEW u \in User, NEW target \in JumpTargets,
         NEW next \in NextOps, ExecuteAndJumpTask(t, u, target, next)
  PROVE  ZInv'
  <1> DEFINE c == [user |-> u, next |-> next,
                   home |-> {target} \cap FirstTaskNode \cap OfType(Flow, "task")]
  <1>1. Idle /\ Allowed(t, u) /\ IInv({}) /\ target \in Node /\ next \in Roster
    BY InputAssumption DEF ExecuteAndJumpTask, ZInv
  <1>2. Evolves({}, task', last') /\ IInv({})'
    BY <1>1, ExecuteAndJumpTaskKeeps
  <1>3. /\ task' = Completed(t, u, "jump") /\ last' = last /\ state' = state
        /\ Run(<<[node |-> target, parent |-> t]>>, c)
    BY DEF ExecuteAndJumpTask
  <1>4. KeepsMembers(task') /\ state # "NONE"
    BY <1>1, <1>3, CommandZ DEF Submit
  <1>5. Flow.type[target] \in Serving
    BY <1>1 DEF TokensLand, OfType, Node
  <1>6. Brings(c)
    BY DEF Brings
  <1> HIDE DEF c
  <1> QED
    BY <1>2, <1>3, <1>4, <1>5, <1>6, LandZInv

LEMMA ExecuteAndJumpToFirstTaskNodeZInv ==
  ASSUME TokensLand, ZInv, NEW t \in Id, NEW u \in User, ExecuteAndJumpToFirstTaskNode(t, u)
  PROVE  ZInv'
  <1>1. Idle /\ Allowed(t, u) /\ IInv({}) /\ "return" \in Submit
    BY DEF ExecuteAndJumpToFirstTaskNode, ZInv, Submit
  <1>2. Evolves({}, task', last') /\ IInv({})'
    BY <1>1, ExecuteAndJumpToFirstTaskNodeKeeps
  <1>3. last' = last /\ state' = state
        /\ task' = DropOpenAt(Completed(t, u, "return"), task[t].node)
    BY DEF ExecuteAndJumpToFirstTaskNode
  <1>4. KeepsMembers(task') /\ state # "NONE"
    <2>1. task[t].node \in Node /\ state # "NONE"
      BY <1>1, CommandZ
    <2> QED
      BY <1>1, <1>3, <2>1, LeftKeeps
  <1>5. PICK n \in firstAfterStart(Flow, {"task", "custom"}) :
          Run(<<[node |-> n, parent |-> t]>>, [user |-> u, next |-> << >>, home |-> {n}])
    BY DEF ExecuteAndJumpToFirstTaskNode
  <1>6. n \in FirstTaskNode /\ Flow.type[n] \in Serving
    BY FirstAfterStart DEF Serving
  <1> DEFINE c == [user |-> u, next |-> << >>, home |-> {n}]
  <1>7. Brings(c)
    BY <1>6 DEF Brings
  <1>8. Run(<<[node |-> n, parent |-> t]>>, c)
    BY <1>5
  <1> HIDE DEF c
  <1> QED
    BY <1>2, <1>3, <1>4, <1>6, <1>7, <1>8, LandZInv

LEMMA ReturnForChangeZInv ==
  ASSUME TokensLand, ZInv, NEW t \in Id, NEW u \in User, ReturnForChange(t, u)
  PROVE  ZInv'
  <1> DEFINE d == DropOpenAt(Completed(t, u, "return"), task[t].node)
             row(n) == [NewRow(n, t, {Initiator}) EXCEPT
                          !.back = [src |-> t, branch |-> task[t].scopes]]
  <1>1. Idle /\ Allowed(t, u) /\ IInv({}) /\ "return" \in Submit
    BY DEF ReturnForChange, ZInv, Submit
  <1>2. Evolves({}, task', last') /\ IInv({})'
    BY <1>1, ReturnForChangeKeeps
  <1>3. KeepsMembers(d) /\ state # "NONE"
    <2>1. task[t].node \in Node /\ state # "NONE"
      BY <1>1, CommandZ
    <2> QED
      BY <1>1, <2>1, LeftKeeps
  <1>4. PICK n \in firstAfterStart(Flow, {"task"}) : task' = Appended(d, << row(n) >>)
    BY DEF ReturnForChange
  <1>5. /\ last' = last + 1 /\ state' = state /\ work' = work /\ cmd' = cmd /\ saved' = saved
        /\ Props[task[t].node].countersign = "none"
    BY DEF ReturnForChange
  <1>6. row(n).node = n /\ row(n).st = "DOING" /\ row(n).back.src = t
    BY DEF NewRow
  <1>7. Flow.type[n] = "task" /\ n \notin Ratio
    BY FirstAfterStart, RatioTyped
  <1> HIDE DEF d, row
  <1> QED
    BY <1>1, <1>2, <1>3, <1>4, <1>5, <1>6, <1>7, OneRowZInv

\* What is below the row is taken back whole, those who were asked together
\* with one another.
LEMMA RecallTaskZInv ==
  ASSUME TokensLand, ZInv, NEW t \in Id, NEW u \in User, RecallTask(t, u)
  PROVE  ZInv'
  <1> DEFINE below == recallDescendants(t)
             D == below \cap DoingIn(task)
             e == [i \in Id |-> IF i \in D THEN [task[i] EXCEPT !.st = "ABANDONED"] ELSE task[i]]
             r == NewRow(task[t].node, task[t].parent, task[t].actors)
  <1>1. /\ Idle /\ IInv({}) /\ last \in Nat /\ task \in [Id -> Row] /\ state = "DOING"
        /\ Flow.type[task[t].node] = "task" /\ Props[task[t].node].recall
        /\ \A i \in below : task[i].st # "DONE"
    BY DEF RecallTask, RecallWindow, ZInv, IInv, TypeOK
  <1>2. Evolves({}, task', last') /\ IInv({})'
    BY <1>1, RecallTaskKeeps
  <1>3. /\ task' = Appended(e, << r >>) /\ last' = last + 1
        /\ state' = state /\ work' = work /\ cmd' = cmd /\ saved' = saved
    BY DEF RecallTask
  <1>4. r.node = task[t].node /\ r.st = "DOING" /\ r.back.src = 0
    BY DEF NewRow, NoBack
  <1>5. r.node \notin Ratio
    BY <1>1, <1>4, RatioTyped
  <1>6. \A i \in Id : i \in below <=> task[i].parent \in below \cup {t}
    BY <1>1, RecallHeirs, HeirsFixed
  <1>7. \A i \in D : [task[i] EXCEPT !.st = "ABANDONED"].st = "ABANDONED"
    BY <1>1 DEF Row, DoingIn
  <1>8. \A i \in Id : IF i \in D THEN e[i] = [task[i] EXCEPT !.st = "ABANDONED"]
                      ELSE e[i] = task[i]
    OBVIOUS
  <1>9. \A i \in Id : i \in D <=> i \in below /\ task[i].st = "DOING"
    BY <1>1 DEF DoingIn
  <1> HIDE DEF e, r, D, below
  <1>10. \A i \in Id : IF i \in D THEN e[i].st = "ABANDONED" ELSE e[i] = task[i]
    BY <1>7, <1>8
  <1>11. /\ \A i \in Id : task'[i] = e[i]
         /\ \A x \in last+1 .. last' : x = last + 1 /\ task'[x] = r
    BY <1>1, <1>3, AppendedRow
  <1>12. ASSUME NEW n \in Ratio PROVE Spares(n) /\ Fills(n)
    <2>1. ASSUME NEW i \in Id, NEW k \in Id, task[i].parent = task[k].parent,
                 Live(task[k]), Live(task'[i])
          PROVE  Live(task'[k])
      <3>1. i \in below <=> k \in below
        BY <1>6, <2>1
      <3>2. i \notin D
        BY <1>10, <1>11, <2>1 DEF Live
      <3>3. i \notin below
        BY <1>1, <1>9, <1>10, <1>11, <2>1, <3>2 DEF Live
      <3>4. k \notin D
        BY <1>9, <3>1, <3>3
      <3> QED
        BY <1>10, <1>11, <2>1, <3>4
    <2>2. Spares(n)
      BY <2>1 DEF Spares
    <2>3. Fills(n)
      BY <1>5, <1>11 DEF Fills
    <2> QED
      BY <2>2, <2>3
  <1>13. last + 1 \in 1 .. last' /\ last + 1 \in last+1 .. last'
    BY <1>1, <1>3
  <1>14. Waits(task', last') /\ NewSent
    BY <1>1, <1>4, <1>11, <1>13 DEF Waits, NewSent, SentRow, Asks
  <1>15. Enough(task', last')
    BY <1>1, <1>2, <1>12, EnoughKept DEF ZInv, Ongoing
  <1> QED
    BY <1>1, <1>2, <1>3, <1>14, <1>15, StayZInv

LEMMA withdrawZInv ==
  ASSUME ZInv, NEW u \in User, withdraw(u)
  PROVE  ZInv'
  <1>1. Idle /\ IInv({}) /\ last \in Nat
    BY DEF withdraw, ZInv, IInv, TypeOK
  <1>2. Evolves({}, task', last') /\ IInv({})'
    BY <1>1, withdrawKeeps
  <1>3. /\ last' = last /\ state' = "WITHDRAW" /\ work' = work /\ cmd' = cmd /\ saved' = saved
        /\ NewSent
    BY <1>1 DEF withdraw, NewSent
  <1> QED
    BY <1>1, <1>2, <1>3, StayZInv

LEMMA ExecuteZInv ==
  ASSUME TokensLand, ZInv, NEW t \in Id, NEW u \in User, Execute(t, u)
  PROVE  ZInv'
  <1>1. \A submit \in Submits : submit \in Submit
    BY InputAssumption DEF Submit
  <1>2. \A ops \in SignOps : ops \in Roster
    BY InputAssumption
  <1>3. CASE executeReapply(t, u)
    BY <1>3, executeReapplyZInv
  <1>4. ASSUME NEW submit \in Submits, ExecuteWait(t, u, submit)
        PROVE  ZInv'
    BY <1>1, <1>4, ExecuteWaitZInv
  <1>5. ASSUME NEW submit \in Submits, ExecuteNextMember(t, u, submit)
        PROVE  ZInv'
    BY <1>1, <1>5, ExecuteNextMemberZInv
  <1>6. ASSUME NEW submit \in Submits, NEW ops \in SignOps, ExecuteAddSign(t, u, submit, ops)
        PROVE  ZInv'
    BY <1>1, <1>2, <1>6, ExecuteAddSignZInv
  <1>7. ASSUME NEW submit \in Submits, NEW next \in NextOps, ExecuteAdvance(t, u, submit, next)
        PROVE  ZInv'
    BY <1>1, <1>7, ExecuteAdvanceZInv
  <1> QED
    BY <1>3, <1>4, <1>5, <1>6, <1>7 DEF Execute

LEMMA RowCommandZInv ==
  ASSUME TokensLand, ZInv, NEW t \in Id, NEW u \in User, RowCommand(t, u)
  PROVE  ZInv'
  <1>1. CASE Execute(t, u)
    BY <1>1, ExecuteZInv
  <1>2. CASE ExecuteAndJumpToEnd(t, u)
    BY <1>2, ExecuteAndJumpToEndZInv
  <1>3. CASE rollbackToParent(t, u)
    BY <1>3, rollbackToParentZInv
  <1>4. ASSUME NEW target \in JumpTargets, NEW next \in NextOps,
               ExecuteAndJumpTask(t, u, target, next)
        PROVE  ZInv'
    BY <1>4, ExecuteAndJumpTaskZInv
  <1>5. CASE Return(t, u)
    BY <1>5, ReturnForChangeZInv, ExecuteAndJumpToFirstTaskNodeZInv, ReturnFailsNever DEF Return
  <1>6. CASE RecallTask(t, u)
    BY <1>6, RecallTaskZInv
  <1> QED
    BY <1>1, <1>2, <1>3, <1>4, <1>5, <1>6 DEF RowCommand

LEMMA NextZInv ==
  ASSUME TokensLand, ZInv, [Next]_vars
  PROVE  ZInv'
  <1>1. CASE Next
    BY <1>1, StepZInv, StartProcessInstanceZInv, RowCommandZInv, withdrawZInv DEF Next
  <1>2. CASE UNCHANGED vars
    <2>1. IInv({})'
      BY <1>2, StutterKeeps DEF ZInv
    <2> QED
      BY <1>2, <2>1, ZInvNext DEF ZInv, vars
  <1> QED
    BY <1>1, <1>2

LEMMA InitZInv ==
  ASSUME Init
  PROVE  ZInv
  <1>1. IInv({})
    BY InitIInv
  <1>2. Ongoing("NONE", << >>, 0, << >>)
    BY DEF Ongoing, Unstarted
  <1> QED
    BY <1>1, <1>2, NoneBrings DEF Init, ZInv, NoSnapshot, Serves

\* Whatever is completed, returned, taken back or aborted, a running instance
\* keeps an open row or a node still to be executed, and every countersign with
\* an expression the answers it waits for or enough who can still give them.
THEOREM TokensKept == ASSUME TokensLand PROVE Spec => []ZInv
  <1>1. Init => ZInv
    BY InitZInv
  <1>2. ZInv /\ [Next]_vars => ZInv'
    BY NextZInv
  <1> QED
    BY <1>1, <1>2, PTL DEF Spec

\* Between two commands a running instance has an open row (executeNode and the
\* gates of ExecuteProcessTask strand no token).
THEOREM SomebodyCanAct == ASSUME TokensLand PROVE Spec => []NoZombie
  <1>1. ZInv => NoZombie
    <2> SUFFICES ASSUME ZInv, Idle, state = "DOING" PROVE DoingIn(task) # {}
      BY DEF NoZombie
    <2>1. DOMAIN task = 1 .. last /\ work = << >>
      BY DEF ZInv, IInv, TypeOK, Id, Idle
    <2>2. Waits(task, last)
      BY <2>1 DEF ZInv, Ongoing
    <2> QED
      BY <2>1, <2>2, OpenWaits
  <1> QED
    BY <1>1, TokensKept, PTL

-----------------------------------------------------------------------------
(* A token has the instance, or its branch, to itself: any two rows that are *)
(* open, and any two tokens, are in branches of one round that differ, or    *)
(* are signers of one node, or a host and its members.                       *)

\* The scopes that row r is open in, or on behalf of.
Seat(r) == IF r.back.src # 0 THEN r.back.branch ELSE r.scopes

\* Scopes a and b are in two branches of one round of join j.
Differ(a, b, j) == /\ a[j].root # 0 /\ b[j].root # 0
                   /\ a[j].round = b[j].round /\ a[j].root # b[j].root
Diverge(a, b) == \E j \in Join : Differ(a, b, j)

\* Rows r and s share a token.  At a node with a dynamic countersign one of them
\* was asked: its parent is a row of the same node.
Guest(d, r) == r.parent # 0 /\ d[r.parent].node = r.node
Fellows(d, r, s) == /\ r.node = s.node /\ r.node \in Shared
                    /\ Props[r.node].collect => Guest(d, r) \/ Guest(d, s)
Clear(d, r, s) == Diverge(Seat(r), Seat(s)) \/ Fellows(d, r, s)
IsOpen(d, i) == d[i].st = "DOING"
Alone(d, n) ==
  \A i, k \in 1 .. n : IsOpen(d, i) /\ IsOpen(d, k) /\ i # k => Clear(d, d[i], d[k])

\* A task has a scope in each range it lies in, and none elsewhere; an apply row
\* keeps the scopes of its source.
Seated(d, r) ==
  /\ \A j \in Join : r.scopes[j].root = 0 =>
       r.scopes[j] = NoScope /\ ~ (Flow.type[r.node] = "task" /\ j \in ScopesOfNode[r.node])
  /\ r.back.src # 0 => r.node \in FirstTaskNode /\ r.back.branch = d[r.back.src].scopes
AllSeated(d, n) == \A i \in 1 .. n : Seated(d, d[i])

\* Row p, from which a token comes, is outside the range of j.
Outside(d, p, j) == p = 0 \/ d[p].scopes[j].root = 0

\* The token at m from row p and the open row i: row i is the first one of a
\* branch of the round that p starts and the token goes into that round too, or
\* they are in two branches of a round in which the token still is.
Begun(d, i, p, j, m) == /\ Outside(d, p, j) /\ Enters(j, m)
                        /\ d[i].back.src = 0 /\ d[i].scopes[j] = [round |-> p, root |-> i]
Beside(d, i, p, j, m) == /\ p # 0 /\ Differ(Seat(d[i]), d[p].scopes, j)
                         /\ Within(j, MetBefore(j, m))
Passing(d, i, p, m) == \E j \in Join : Begun(d, i, p, j, m) \/ Beside(d, i, p, j, m)
Splits(d, p, m) == \A f \in Met({m}) \cap Split : \E j \in Join : Outside(d, p, j) /\ Opens(j, f)
Parting(d, p, m, x) == \E j \in Join : Outside(d, p, j) /\ Enters(j, m) /\ Enters(j, x)
Ways(d, n, w, p) ==
  \A a \in 1 .. Len(w) :
    /\ Splits(d, p, w[a].node)
    /\ Len(w) > 1 => \A b \in 1 .. Len(w) : Parting(d, p, w[a].node, w[b].node)
    /\ \A i \in 1 .. n : IsOpen(d, i) => Passing(d, i, p, w[a].node)

\* An instance that has ended has nothing left.
Over(s, d, n, w) == s = "DONE" => w = << >> /\ \A i \in 1 .. n : ~ IsOpen(d, i)

Sorted(s, d, n, w) == AllSeated(d, n) /\ Alone(d, n) /\ Over(s, d, n, w)
SInv(H) ==
  /\ JInv(H) /\ Sorted(state, task, last, work) /\ Sorted(saved.state, saved.task, saved.last, << >>)
  /\ work # << >> => Ways(task, last, work, Current.parent)

LEMMA SInvNext ==
  ASSUME NEW H, JInv(H)', Sorted(state', task', last', work'),
         Sorted(saved'.state, saved'.task, saved'.last, << >>),
         work' # << >> => Ways(task', last', work', Head(work').parent)
  PROVE  SInv(H)'
  <1>1. SInv(H)' <=> /\ JInv(H)' /\ Sorted(state', task', last', work')
                     /\ Sorted(saved'.state, saved'.task, saved'.last, << >>)
                     /\ work' # << >> => Ways(task', last', work', Head(work').parent)
    BY DEF SInv, Sorted, AllSeated, Seated, Alone, Clear, Fellows, Guest, Diverge, Differ, Seat,
           IsOpen, Over, Ways, Splits, Parting, Passing, Begun, Beside, Outside, Enters, Within, Opens,
           MetBefore, ClosedBefore, Met, Closed, Current
  <1> QED
    BY <1>1

LEMMA RunSorted ==
  ASSUME NEW H, SInv(H), NEW w, NEW c, Run(w, c)
  PROVE  Sorted(saved'.state, saved'.task, saved'.last, << >>) /\ work' = w
  <1>1. Sorted(NoSnapshot.state, NoSnapshot.task, NoSnapshot.last, << >>)
    BY DEF Sorted, NoSnapshot, AllSeated, Alone, Over
  <1>2. Idle => Sorted(Snapshot.state, Snapshot.task, Snapshot.last, << >>)
    BY DEF SInv, Snapshot, Idle
  <1>3. Sorted(saved.state, saved.task, saved.last, << >>)
    BY DEF SInv
  <1> QED
    BY <1>1, <1>2, <1>3 DEF Run

\* Nothing distinguishes the first of two rows from the second.
LEMMA ClearBoth ==
  ASSUME NEW d, NEW r, NEW s, Clear(d, r, s)
  PROVE  Clear(d, s, r)
  <1>1. Diverge(Seat(r), Seat(s)) => Diverge(Seat(s), Seat(r))
    BY DEF Diverge, Differ
  <1> QED
    BY <1>1 DEF Clear, Fellows

\* Rows keep what their seats are read from; one that is open was open before.
LEMMA OldRow ==
  ASSUME NEW H, Evolves(H, task', last'), NEW i \in Id
  PROVE  /\ Seat(task'[i]) = Seat(task[i]) /\ task'[i].scopes = task[i].scopes
         /\ task'[i].back = task[i].back /\ task'[i].node = task[i].node
         /\ IsOpen(task', i) => IsOpen(task, i)
  <1>1. /\ task[i].st # "DOING" => task'[i] = task[i]
        /\ task'[i].scopes = task[i].scopes /\ task'[i].back = task[i].back
        /\ task'[i].node = task[i].node
    BY DEF Evolves
  <1> QED
    BY <1>1 DEF Seat, IsOpen

LEMMA OldClear ==
  ASSUME NEW H, IInv(H), Evolves(H, task', last'), NEW i \in Id
  PROVE  /\ \A y : Clear(task', task'[i], y) <=> Clear(task', task[i], y)
         /\ \A k \in Id : Clear(task', task'[i], task'[k]) <=> Clear(task, task[i], task[k])
  <1>1. ASSUME NEW k \in Id
        PROVE  /\ task'[k].parent = task[k].parent /\ task'[k].node = task[k].node
               /\ Guest(task', task'[k]) <=> Guest(task', task[k])
               /\ Guest(task', task'[k]) <=> Guest(task, task[k])
               /\ Seat(task'[k]) = Seat(task[k])
    <2>1. task[k].parent \in 0 .. k-1 /\ k \in 1 .. last /\ last \in Nat
      BY DEF IInv, TypeOK, Sound, RefsOK, Id
    <2>2. task[k].parent # 0 => task[k].parent \in Id
      BY <2>1 DEF Id
    <2>3. task'[k].parent = task[k].parent /\ task'[k].node = task[k].node
      BY DEF Evolves
    <2>4. task[k].parent # 0 => task'[task[k].parent].node = task[task[k].parent].node
      BY <2>2 DEF Evolves
    <2> QED
      BY <2>3, <2>4, OldRow DEF Guest
  <1> QED
    BY <1>1 DEF Clear, Fellows

LEMMA SeatedNext ==
  ASSUME NEW H, IInv(H), Evolves(H, task', last'), AllSeated(task, last),
         \A x \in last+1 .. last' : Seated(task', task'[x])
  PROVE  AllSeated(task', last')
  <1>0. \A i \in 1 .. last' : i \in Id \/ i \in last+1 .. last'
    BY DEF IInv, TypeOK, Evolves, Id
  <1>1. ASSUME NEW i \in Id PROVE Seated(task', task'[i])
    <2>1. Seated(task, task[i]) /\ last \in Nat /\ i \in 1 .. last
      BY DEF AllSeated, Id, IInv, TypeOK
    <2>2. task[i].back.src # 0 => task[i].back.src \in Id
      BY <2>1 DEF IInv, Sound, RefsOK, Id
    <2>3. /\ task'[i].scopes = task[i].scopes /\ task'[i].back = task[i].back
          /\ task'[i].node = task[i].node
          /\ task[i].back.src # 0 => task'[task[i].back.src].scopes = task[task[i].back.src].scopes
      BY <2>2, OldRow
    <2> QED
      BY <2>1, <2>3 DEF Seated
  <1> QED
    BY <1>0, <1>1 DEF AllSeated

\* Each new open row is to be clear of the others.
NewClear == \A x \in last+1 .. last' : IsOpen(task', x) =>
              /\ \A i \in Id : IsOpen(task', i) => Clear(task', task[i], task'[x])
              /\ \A y \in last+1 .. last' : x # y => Clear(task', task'[x], task'[y])
NewSeated == \A x \in last+1 .. last' : Seated(task', task'[x])

LEMMA AloneNext ==
  ASSUME NEW H, IInv(H), Evolves(H, task', last'), Alone(task, last), NewClear
  PROVE  Alone(task', last')
  <1> SUFFICES ASSUME NEW i \in 1 .. last', NEW k \in 1 .. last', IsOpen(task', i),
                      IsOpen(task', k), i # k
               PROVE  Clear(task', task'[i], task'[k])
    BY DEF Alone
  <1>1. /\ i \in Id \/ i \in last+1 .. last'
        /\ k \in Id \/ k \in last+1 .. last'
    BY DEF IInv, TypeOK, Evolves, Id
  <1>2. CASE i \in Id /\ k \in Id
    <2>1. Clear(task, task[i], task[k])
      BY <1>2, OldRow DEF Alone, Id
    <2> QED
      BY <1>2, <2>1, OldClear
  <1>3. CASE i \in Id /\ k \in last+1 .. last'
    BY <1>3, OldClear DEF NewClear
  <1>4. CASE i \in last+1 .. last' /\ k \in Id
    BY <1>4, OldClear, ClearBoth DEF NewClear
  <1>5. CASE i \in last+1 .. last' /\ k \in last+1 .. last'
    BY <1>5 DEF NewClear
  <1> QED
    BY <1>1, <1>2, <1>3, <1>4, <1>5

\* The table after a step, while the instance goes on or is stopped.
LEMMA SortedNext ==
  ASSUME NEW H, SInv(H), Evolves(H, task', last'), NewSeated, NewClear, state' # "DONE", NEW w
  PROVE  Sorted(state', task', last', w)
  <1>1. IInv(H) /\ AllSeated(task, last) /\ Alone(task, last)
    BY DEF SInv, JInv, Sorted
  <1>2. AllSeated(task', last')
    BY <1>1, SeatedNext DEF NewSeated
  <1>3. Alone(task', last')
    BY <1>1, AloneNext
  <1> QED
    BY <1>2, <1>3 DEF Sorted, Over

\* A command that executes no node, and one that sends tokens on their way.
LEMMA StaySInv ==
  ASSUME NEW H, SInv(H), Idle, JInv(H)', Evolves(H, task', last'), NewSeated, NewClear,
         state' # "DONE",
         work' = work, saved' = saved
  PROVE  SInv(H)'
  <1>1. Sorted(state', task', last', work')
    BY SortedNext
  <1>2. Sorted(saved'.state, saved'.task, saved'.last, << >>) /\ work' = << >>
    BY DEF SInv, Idle
  <1> QED
    BY <1>1, <1>2, SInvNext

LEMMA GoSInv ==
  ASSUME NEW H, SInv(H), JInv(H)', Evolves(H, task', last'), NewSeated, NewClear, state' # "DONE",
         NEW w, NEW c, Run(w, c), w # << >> => Ways(task', last', w, Head(w).parent)
  PROVE  SInv(H)'
  <1>1. Sorted(state', task', last', w)
    BY SortedNext
  <1> QED
    BY <1>1, RunSorted, SInvNext
-----------------------------------------------------------------------------
(* The tokens of a walk keep clear of what is open. *)

\* What Ways says of a token does not change when open rows are settled.
LEMMA OldWay ==
  ASSUME NEW H, IInv(H), Evolves(H, task', last'), NEW p \in 0 .. last
  PROVE  /\ \A j \in Join : Outside(task', p, j) <=> Outside(task, p, j)
         /\ \A m : Splits(task, p, m) => Splits(task', p, m)
         /\ \A m, x : Parting(task, p, m, x) => Parting(task', p, m, x)
         /\ \A i \in Id : \A m : Passing(task, i, p, m) => Passing(task', i, p, m)
  <1>1. p # 0 => p \in Id /\ task'[p].scopes = task[p].scopes
    <2> SUFFICES ASSUME p # 0 PROVE p \in Id /\ task'[p].scopes = task[p].scopes
      OBVIOUS
    <2>1. p \in Id
      BY DEF IInv, TypeOK, Id
    <2> QED
      BY <2>1, OldRow
  <1>2. \A j \in Join : Outside(task', p, j) <=> Outside(task, p, j)
    BY <1>1 DEF Outside
  <1>3. \A m : Splits(task, p, m) => Splits(task', p, m)
    BY <1>2 DEF Splits
  <1>4. \A m, x : Parting(task, p, m, x) => Parting(task', p, m, x)
    BY <1>2 DEF Parting
  <1>5. ASSUME NEW i \in Id, NEW m, Passing(task, i, p, m)
        PROVE  Passing(task', i, p, m)
    <2>1. PICK j \in Join : Begun(task, i, p, j, m) \/ Beside(task, i, p, j, m)
      BY <1>5 DEF Passing
    <2>2. /\ Seat(task'[i]) = Seat(task[i]) /\ task'[i].scopes = task[i].scopes
          /\ task'[i].back = task[i].back
      BY OldRow
    <2>3. Begun(task, i, p, j, m) => Begun(task', i, p, j, m)
      BY <1>2, <2>2 DEF Begun
    <2>4. Beside(task, i, p, j, m) => Beside(task', i, p, j, m)
      BY <1>1, <2>2 DEF Beside
    <2> QED
      BY <2>1, <2>3, <2>4 DEF Passing
  <1> QED
    BY <1>2, <1>3, <1>4, <1>5

\* A token that goes on from m to x.
LEMMA WithinLess ==
  ASSUME NEW j, NEW M, NEW S \in SUBSET M, Within(j, M)
  PROVE  Within(j, S)
  BY DEF Within

LEMMA EntersOn ==
  ASSUME NEW m \in Node, NEW x \in outgoingTargets(Flow, m), Flow.type[m] # "task", NEW j,
         Enters(j, m)
  PROVE  Enters(j, x)
  <1>1. Met({x}) \subseteq Met({m})
    BY MetFrom
  <1>2. Within(j, Met({x}))
    BY <1>1, WithinLess DEF Enters
  <1> QED
    BY <1>1, <1>2 DEF Enters

LEMMA TokenOn ==
  ASSUME NEW m \in Node, NEW x \in outgoingTargets(Flow, m), Flow.type[m] # "task",
         NEW d, NEW p
  PROVE  /\ Splits(d, p, m) => Splits(d, p, x)
         /\ \A y : Parting(d, p, m, y) => Parting(d, p, x, y)
         /\ \A y : Parting(d, p, y, m) => Parting(d, p, y, x)
  <1>1. Splits(d, p, m) => Splits(d, p, x)
    BY MetFrom DEF Splits
  <1>2. \A j : Enters(j, m) => Enters(j, x)
    BY EntersOn
  <1> QED
    BY <1>1, <1>2 DEF Parting

LEMMA PassingOn ==
  ASSUME NEW H, SInv(H), ~ Idle, NEW w \in Seq(WorkItem), Onward(w), NEW b \in 1 .. Len(w),
         NEW i \in Id, IsOpen(task, i), Passing(task, i, Current.parent, Current.node)
  PROVE  Passing(task, i, Current.parent, w[b].node)
  <1> DEFINE p == Current.parent
             m == Current.node
             x == w[b].node
  <1>0. m \in Node /\ x \in outgoingTargets(Flow, m) /\ Flow.type[m] # "task"
    BY Underway DEF Onward, SInv
  <1>1. PICK j \in Join : Begun(task, i, p, j, m) \/ Beside(task, i, p, j, m)
    BY DEF Passing
  <1> HIDE DEF x
  <1>2. CASE Begun(task, i, p, j, m)
    <2>1. Begun(task, i, p, j, x)
      BY <1>0, <1>2, EntersOn DEF Begun
    <2> QED
      BY <2>1 DEF Passing, x
  <1>3. CASE Beside(task, i, p, j, m) /\ m # j
    <2>1. MetBefore(j, x) \subseteq MetBefore(j, m)
      BY <1>0, <1>3, MetBeforeFrom
    <2>2. Beside(task, i, p, j, x)
      BY <1>3, <2>1, WithinLess DEF Beside
    <2> QED
      BY <2>2 DEF Passing, x
  <1>4. CASE Beside(task, i, p, j, m) /\ m = j
    <2>1. w # << >>
      OBVIOUS
    <2>2. mergeReady(j, p) /\ p # 0 /\ Differ(Seat(task[i]), task[p].scopes, j)
      BY <1>4, <2>1 DEF Onward, Beside
    <2>3. i \in DoingIn(task)
      BY DEF DoingIn, IsOpen, SInv, JInv, IInv, TypeOK
    <2>4. ~ Blocks(i, j, task[p].scopes[j].round)
      BY <2>2, <2>3 DEF mergeReady, Differ
    <2>5. Seat(task[i])[j].root # 0 /\ Seat(task[i])[j].round = task[p].scopes[j].round
      BY <2>2 DEF Differ
    <2> QED
      BY <2>4, <2>5 DEF Blocks, Seat
  <1> QED
    BY <1>1, <1>2, <1>3, <1>4

\* The first token, and the row it comes from.
LEMMA FirstWay ==
  ASSUME NEW H, SInv(H), ~ Idle
  PROVE  /\ Splits(task, Current.parent, Current.node)
         /\ \A i \in Id : IsOpen(task, i) => Passing(task, i, Current.parent, Current.node)
         /\ Len(work) \in Nat \ {0} /\ work \in Seq(WorkItem) /\ Current = work[1]
         /\ Len(work) > 1 => \A b \in 1 .. Len(work) :
              Parting(task, Current.parent, Current.node, work[b].node)
         /\ Ways(task, last, work, Current.parent)
         /\ state # "DONE"
  <1>1. work \in Seq(WorkItem) /\ work # << >> /\ Ways(task, last, work, Current.parent)
    BY DEF SInv, JInv, IInv, TypeOK, Idle
  <1>2. Len(work) \in Nat \ {0} /\ Current = work[1] /\ 1 \in 1 .. Len(work)
    BY <1>1 DEF Current
  <1>3. state # "DONE"
    BY <1>1 DEF SInv, Sorted, Over
  <1> QED
    BY <1>1, <1>2, <1>3 DEF Ways, Id

\* The walk replaces its first token by the tokens w, and appends no open row.
LEMMA WalkWays ==
  ASSUME NEW H, TokensApart, SInv(H), ~ Idle, Evolves(H, task', last'),
         \A x \in last+1 .. last' : ~ IsOpen(task', x),
         NEW w \in Seq(WorkItem), Onward(w), Len(w) > 1 => Current.node \in Split,
         NEW s, s = w \o Tail(work)
  PROVE  Ways(task', last', s, Current.parent)
  <1> DEFINE p == Current.parent
             m == Current.node
  <1>0. /\ m \in Node /\ p \in 0 .. last /\ IInv(H) /\ last \in Nat /\ last' \in Nat
        /\ \A b \in 1 .. Len(w) : w[b].node \in outgoingTargets(Flow, m) /\ Flow.type[m] # "task"
    BY Underway DEF Onward, SInv, Evolves
  <1>1. /\ Len(s) = Len(w) + Len(work) - 1
        /\ \A a \in 1 .. Len(s) : \/ \E b \in 1 .. Len(w) : s[a] = w[b]
                                  \/ \E b \in 2 .. Len(work) : s[a] = work[b]
        /\ Len(work) \in Nat \ {0} /\ Current = work[1]
    BY FirstWay, Tokens DEF Idle
  <1>2. Len(w) \in Nat /\ \A b \in 2 .. Len(work) : b \in 1 .. Len(work) /\ Len(work) > 1
    BY <1>1
  <1>3. ASSUME NEW b \in 1 .. Len(w)
        PROVE  /\ Splits(task, p, w[b].node)
               /\ \A i \in Id : IsOpen(task, i) => Passing(task, i, p, w[b].node)
    BY <1>0, FirstWay, TokenOn, PassingOn
  <1>4. ASSUME NEW b \in 2 .. Len(work)
        PROVE  /\ Splits(task, p, work[b].node)
               /\ \A i \in Id : IsOpen(task, i) => Passing(task, i, p, work[b].node)
    BY <1>2, FirstWay DEF Ways, Id
  <1>5. ASSUME NEW b \in 1 .. Len(w), NEW c \in 1 .. Len(w), Len(s) > 1
        PROVE  Parting(task, p, w[b].node, w[c].node)
    <2>1. CASE Len(w) > 1
      <3>1. m \in Split /\ m \in Met({m})
        BY <1>0, <2>1, MetHas
      <3>2. PICK j \in Join : Outside(task, p, j) /\ Opens(j, m)
        BY <3>1, FirstWay DEF Splits
      <3> QED
        BY <1>0, <3>2 DEF Parting, Opens
    <2>2. CASE ~ (Len(w) > 1)
      <3>1. Len(work) > 1
        BY <1>1, <1>2, <1>5, <2>2
      <3>2. Parting(task, p, m, m)
        BY <1>1, <3>1, FirstWay
      <3>3. Parting(task, p, w[b].node, m)
        BY <1>0, <3>2, TokenOn
      <3> QED
        BY <1>0, <3>3, TokenOn
    <2> QED
      BY <2>1, <2>2
  <1>6. ASSUME NEW b \in 1 .. Len(w), NEW c \in 2 .. Len(work)
        PROVE  Parting(task, p, w[b].node, work[c].node) /\ Parting(task, p, work[c].node, w[b].node)
    <2>1. Parting(task, p, m, work[c].node)
      BY <1>2, FirstWay
    <2>2. w[b].node \in outgoingTargets(Flow, m) /\ Flow.type[m] # "task" /\ m \in Node
      BY <1>0
    <2>3. \A y : Parting(task, p, m, y) => Parting(task, p, w[b].node, y)
      BY <2>2, TokenOn
    <2>4. Parting(task, p, w[b].node, work[c].node)
      BY <2>1, <2>3
    <2> QED
      BY <2>4 DEF Parting
  <1>7. ASSUME NEW b \in 2 .. Len(work), NEW c \in 2 .. Len(work)
        PROVE  Parting(task, p, work[b].node, work[c].node)
    BY <1>2, FirstWay DEF Ways
  <1>8. ASSUME NEW a \in 1 .. Len(s)
        PROVE  /\ Splits(task, p, s[a].node)
               /\ \A i \in Id : IsOpen(task, i) => Passing(task, i, p, s[a].node)
    BY <1>1, <1>3, <1>4
  <1>9. ASSUME NEW a \in 1 .. Len(s), NEW b \in 1 .. Len(s), Len(s) > 1
        PROVE  Parting(task, p, s[a].node, s[b].node)
    <2>1. CASE \E e \in 1 .. Len(w) : s[a] = w[e]
      BY <1>1, <1>5, <1>6, <1>9, <2>1
    <2>2. CASE \E e \in 2 .. Len(work) : s[a] = work[e]
      BY <1>1, <1>6, <1>7, <2>2
    <2> QED
      BY <1>1, <2>1, <2>2
  <1>10. ASSUME NEW a \in 1 .. Len(s), NEW i \in 1 .. last', IsOpen(task', i)
         PROVE  Passing(task', i, p, s[a].node)
    <2>1. i \in Id
      BY <1>0, <1>10 DEF Id
    <2>2. IsOpen(task, i)
      BY <1>10, <2>1, OldRow
    <2> QED
      BY <1>0, <1>8, <2>1, <2>2, OldWay
  <1>11. ASSUME NEW a \in 1 .. Len(s)
         PROVE  /\ Splits(task', p, s[a].node)
                /\ Len(s) > 1 => \A b \in 1 .. Len(s) : Parting(task', p, s[a].node, s[b].node)
    BY <1>0, <1>8, <1>9, OldWay
  <1> QED
    BY <1>10, <1>11 DEF Ways

-----------------------------------------------------------------------------
(* The steps of the walk. *)

LEMMA WalkSInv ==
  ASSUME NEW H, TokensApart, SInv(H), ~ Idle, JInv(H)', Evolves(H, task', last'), NewSeated,
         \A x \in last+1 .. last' : ~ IsOpen(task', x), state' # "DONE",
         NEW w \in Seq(WorkItem), Onward(w), Len(w) > 1 => Current.node \in Split,
         Run(w \o Tail(work), cmd)
  PROVE  SInv(H)'
  <1> DEFINE s == w \o Tail(work)
  <1>1. \A a \in 1 .. Len(s) : s[a].parent = Current.parent
    BY WalkJoinless DEF SInv
  <1>2. s \in Seq(WorkItem)
    BY CurrentTyped, ConcatProperties DEF SInv, JInv
  <1>3. Run(s, cmd)
    OBVIOUS
  <1>4. Ways(task', last', s, Current.parent)
    BY WalkWays
  <1> HIDE DEF s
  <1>5. s # << >> => Head(s).parent = Current.parent
    <2> SUFFICES ASSUME s # << >> PROVE Head(s).parent = Current.parent
      OBVIOUS
    <2>1. Len(s) \in Nat \ {0} /\ Head(s) = s[1]
      BY <1>2
    <2> QED
      BY <1>1, <2>1
  <1>6. NewClear
    BY DEF NewClear
  <1> QED
    BY <1>3, <1>4, <1>5, <1>6, GoSInv

\* A step that leaves the table alone.
LEMMA PassSInv ==
  ASSUME NEW H, TokensApart, SInv(H), ~ Idle, JInv(H)', UNCHANGED <<task, last>>, state' # "DONE",
         NEW w \in Seq(WorkItem), Onward(w), Len(w) > 1 => Current.node \in Split,
         Run(w \o Tail(work), cmd)
  PROVE  SInv(H)'
  <1>1. IInv(H) /\ last \in Nat
    BY Underway DEF SInv
  <1>2. Evolves(H, task', last') /\ last+1 .. last' = {}
    BY <1>1, SameTable
  <1> QED
    BY <1>2, WalkSInv DEF NewSeated

LEMMA ChildrenSplit ==
  ASSUME NEW n \in Node, Flow.type[n] # "decision", NEW p, Len(Children(n, p)) > 1
  PROVE  n \in Split
  <1>1. Len(Flow.succ[n]) \in Nat
    BY PropTyped
  <1>2. Len(Children(n, p)) = Len(Flow.succ[n])
    BY <1>1 DEF Children
  <1> QED
    BY <1>2 DEF Split, OfType

LEMMA PushSInv ==
  ASSUME NEW H, TokensApart, SInv(H), ~ Idle, JInv(H)', UNCHANGED <<state, task, last>>,
         Flow.type[Current.node] \notin {"task", "decision"},
         Current.node \in Join => mergeReady(Current.node, Current.parent),
         PushChildren(Current.node, Current.parent)
  PROVE  SInv(H)'
  <1> DEFINE w == Children(Current.node, Current.parent)
  <1>1. JInv(H) /\ state' # "DONE" /\ Current.node \in Node /\ BranchesMeet
    BY FirstWay, Underway DEF SInv, TokensApart
  <1>2. w \in Seq(WorkItem) /\ Onward(w)
    BY <1>1, ChildrenOnward
  <1>3. Len(w) > 1 => Current.node \in Split
    BY <1>1, ChildrenSplit
  <1>4. Run(w \o Tail(work), cmd)
    BY DEF PushChildren
  <1> HIDE DEF w
  <1> QED
    BY <1>1, <1>2, <1>3, <1>4, PassSInv

LEMMA UnwindSInv ==
  ASSUME NEW H, TokensApart, SInv(H), ~ Idle, JInv(H)', UNCHANGED <<state, task, last>>, Unwind
  PROVE  SInv(H)'
  <1>1. IInv(H) /\ state' # "DONE"
    BY FirstWay, Underway DEF SInv
  <1>2. Run(<< >> \o Tail(work), cmd)
    BY <1>1, UnwindIsRun
  <1>3. ~ (Len(<< >>) > 1)
    OBVIOUS
  <1> QED
    BY <1>1, <1>2, <1>3, NoneOnward, PassSInv

\* The rows a step or a command makes are seated.
LEMMA BuiltScopes ==
  ASSUME NEW n, NEW p, NEW x \in Nat \ {0}, NEW y, y.node = n, y.back = NoBack,
         y.scopes = buildScopes(n, p, x)
  PROVE  /\ Seat(y) = y.scopes /\ y.back.src = 0
         /\ \A j \in Join : j \in ScopesOfNode[n] =>
              /\ Outside(task, p, j) => y.scopes[j] = [round |-> p, root |-> x]
              /\ ~ Outside(task, p, j) => y.scopes[j] = task[p].scopes[j]
  <1>1. y.back.src = 0
    BY DEF NoBack
  <1>2. \A j \in Join : j \in ScopesOfNode[n] =>
              /\ Outside(task, p, j) => y.scopes[j] = [round |-> p, root |-> x]
              /\ ~ Outside(task, p, j) => y.scopes[j] = task[p].scopes[j]
    BY DEF Outside, buildScopes
  <1> QED
    BY <1>1, <1>2 DEF Seat

LEMMA BuiltSeated ==
  ASSUME NEW n, NEW p, NEW x \in Nat \ {0}, NEW y, y.node = n, y.back = NoBack,
         y.scopes = buildScopes(n, p, x)
  PROVE  Seated(task', y)
  <1>1. y.back.src = 0
    BY DEF NoBack
  <1>2. ASSUME NEW j \in Join, y.scopes[j].root = 0
        PROVE  y.scopes[j] = NoScope /\ j \notin ScopesOfNode[n]
    <2>0. y.scopes[j] = IF j \notin ScopesOfNode[n] THEN NoScope
                        ELSE IF p # 0 /\ task[p].scopes[j].root # 0 THEN task[p].scopes[j]
                        ELSE [round |-> p, root |-> x]
      BY DEF buildScopes
    <2>1. j \notin ScopesOfNode[n]
      BY <1>2, <2>0
    <2>2. y.scopes[j] = NoScope
      BY <2>1 DEF buildScopes
    <2> QED
      BY <2>1, <2>2
  <1> QED
    BY <1>1, <1>2 DEF Seated

LEMMA BareSeated ==
  ASSUME NEW y, y.scopes = NoScopes, y.back = NoBack,
         Flow.type[y.node] # "task" \/ ScopesOfNode[y.node] = {}
  PROVE  Seated(task', y)
  BY DEF Seated, NoScopes, NoBack

\* A row made where a token has come is clear of the rows that it kept clear of.
LEMMA MadeClear ==
  ASSUME NEW d, NEW n \in Node \cap Recorded, NEW p, NEW i \in Id, Passing(task, i, p, n),
         NEW x \in Nat \ {0}, x # i, NEW y, y.node = n, y.back = NoBack,
         y.scopes = buildScopes(n, p, x), last \in Nat
  PROVE  Clear(d, task[i], y)
  <1>1. PICK j \in Join : Begun(task, i, p, j, n) \/ Beside(task, i, p, j, n)
    BY DEF Passing
  <1>2. n \in Met({n}) /\ n \in MetBefore(j, n)
    BY DEF Met, MetBefore
  <1>3. j \in ScopesOfNode[n]
    BY <1>1, <1>2 DEF Begun, Beside, Enters, Within
  <1>4. /\ Seat(y) = y.scopes
        /\ Outside(task, p, j) => y.scopes[j] = [round |-> p, root |-> x]
        /\ ~ Outside(task, p, j) => y.scopes[j] = task[p].scopes[j]
    BY <1>3, BuiltScopes
  <1>5. CASE Begun(task, i, p, j, n)
    <2>1. Seat(task[i])[j] = [round |-> p, root |-> i] /\ i # 0
      BY <1>5 DEF Begun, Seat, Id
    <2>2. y.scopes[j] = [round |-> p, root |-> x]
      BY <1>4, <1>5 DEF Begun
    <2>3. Differ(Seat(task[i]), Seat(y), j)
      BY <1>4, <2>1, <2>2 DEF Differ
    <2> QED
      BY <2>3 DEF Clear, Diverge
  <1>6. CASE Beside(task, i, p, j, n)
    <2>1. Differ(Seat(task[i]), task[p].scopes, j) /\ p # 0
      BY <1>6 DEF Beside
    <2>2. ~ Outside(task, p, j)
      BY <2>1 DEF Differ, Outside
    <2>3. Differ(Seat(task[i]), Seat(y), j)
      BY <1>4, <2>1, <2>2 DEF Differ
    <2> QED
      BY <2>3 DEF Clear, Diverge
  <1> QED
    BY <1>1, <1>5, <1>6

\* Only signers and members share a token.
LEMMA SoleTeam ==
  ASSUME NEW n \in Node, Flow.type[n] = "task", n \notin Shared \/ Props[n].collect,
         NEW roster \in Roster
  PROVE  Len(Teams(n, roster)) = 1
  <1>1. Props[n].countersign \in {"none", "SEQUENTIAL"}
    BY PropsAssumption DEF Shared, OfType, Node, PropType, validateAddSignFlow
  <1>2. PICK S : Teams(n, roster) = <<S>>
    BY <1>1 DEF Teams
  <1>3. Len(<<S>>) = 1
    OBVIOUS
  <1> QED
    BY <1>2, <1>3

\* A new task is in the branch of its token, or starts one.
LEMMA createTaskSInv ==
  ASSUME NEW H, TokensApart, SInv(H), createTask
  PROVE  SInv(H)'
  <1> DEFINE n == Current.node
             p == Current.parent
             roster == resolveActors(n)
             len == Len(Teams(n, roster))
             s == Tail(work)
  <1>0. /\ ~ Idle /\ last \in Nat /\ IInv(H) /\ Flow.type[n] = "task" /\ JInv(H)
        /\ Evolves(H, task', last') /\ JInv(H)'
    BY createTaskKeeps, createTaskJInv DEF createTask, Executing, SInv, JInv, IInv, TypeOK, TokensApart
  <1>1. n \in Node /\ roster \in Roster /\ p \in 0 .. last
    BY <1>0, Underway, resolveActorsTyped
  <1>2. len \in Nat /\ (n \notin Shared \/ Props[n].collect => len = 1)
    BY <1>0, <1>1, TeamsTyped, SoleTeam
  <1>4. last' = last + len /\ Run(s, cmd) /\ state' # "DONE"
    BY <1>0, <1>1, FirstWay, createTaskRows DEF createTask, Unwind
  <1>6. \A i \in Id : task'[i] = task[i]
    BY <1>0, <1>1, createTaskRows
  <1>7. ASSUME NEW x \in last+1 .. last'
        PROVE  /\ task'[x].node = n /\ task'[x].back = NoBack
               /\ task'[x].scopes = buildScopes(n, p, x) /\ x \in Nat \ {0}
               /\ \A i \in Id : x # i
    BY <1>0, <1>1, createTaskRows
  <1> HIDE DEF len, roster
  <1>8. ASSUME NEW x \in last+1 .. last' PROVE Seated(task', task'[x])
    <2> DEFINE y == task'[x]
    <2>1. y.node = n /\ y.back = NoBack /\ y.scopes = buildScopes(n, p, x) /\ x \in Nat \ {0}
      BY <1>7
    <2> HIDE DEF y, n, p
    <2>2. Seated(task', y)
      BY <2>1, BuiltSeated
    <2> QED
      BY <2>2 DEF y
  <1>9. n \in Node \cap Recorded
    BY <1>0, <1>1 DEF Recorded, OfType, Node
  <1>10. NewClear
    <2>1. ASSUME NEW x \in last+1 .. last', NEW i \in Id, IsOpen(task', i)
          PROVE  Clear(task', task[i], task'[x])
      <3>1. Passing(task, i, p, n)
        BY <1>0, <2>1, FirstWay, OldRow
      <3> QED
        BY <1>0, <1>7, <1>9, <3>1, MadeClear
    <2>2. ASSUME NEW x \in last+1 .. last', NEW y \in last+1 .. last', x # y
          PROVE  Clear(task', task'[x], task'[y])
      <3>1. len # 1
        BY <1>0, <1>4, <2>2
      <3> QED
        BY <1>2, <1>7, <3>1 DEF Clear, Fellows
    <2> QED
      BY <2>1, <2>2 DEF NewClear
  <1>11. /\ s \in Seq(WorkItem) /\ Len(s) = Len(work) - 1 /\ Len(work) \in Nat \ {0}
         /\ \A a \in 1 .. Len(s) : s[a] = work[a + 1] /\ a + 1 \in 1 .. Len(work)
    BY <1>0, FirstWay
  <1> HIDE DEF s
  <1>12. ASSUME NEW a \in 1 .. Len(s)
         PROVE  /\ Splits(task', p, s[a].node) /\ s[a].parent = p
                /\ \A b \in 1 .. Len(s) : Parting(task', p, s[a].node, s[b].node)
                /\ \A i \in 1 .. last' : IsOpen(task', i) => Passing(task', i, p, s[a].node)
    <2> DEFINE m == s[a].node
    <2>1. /\ Splits(task, p, m) /\ s[a].parent = p /\ Parting(task, p, n, m)
          /\ \A b \in 1 .. Len(s) : Parting(task, p, m, s[b].node)
          /\ \A i \in Id : IsOpen(task, i) => Passing(task, i, p, m)
      <3>1. s[a] = work[a + 1] /\ a + 1 \in 1 .. Len(work) /\ Len(work) > 1
        BY <1>11
      <3>2. s[a].parent = p
        BY <1>0, <3>1 DEF JInv, Walks, Idle
      <3> QED
        BY <1>0, <1>11, <3>1, <3>2, FirstWay DEF Ways, Id
    <2> HIDE DEF m
    <2>2. /\ Splits(task', p, m)
          /\ \A b \in 1 .. Len(s) : Parting(task', p, m, s[b].node)
          /\ \A i \in Id : IsOpen(task', i) => Passing(task', i, p, m)
      BY <1>0, <1>1, <2>1, OldWay, OldRow
    <2>3. ASSUME NEW x \in last+1 .. last'
          PROVE  Passing(task', x, p, m)
      <3>1. PICK j \in Join : Outside(task, p, j) /\ Enters(j, n) /\ Enters(j, m)
        BY <2>1 DEF Parting
      <3>2. n \in Met({n})
        BY <1>1, MetHas
      <3>3. j \in ScopesOfNode[n]
        BY <1>9, <3>1, <3>2 DEF Enters, Within
      <3>4. task'[x].scopes[j] = [round |-> p, root |-> x]
        BY <1>7, <3>1, <3>3, BuiltScopes
      <3>5. task'[x].back.src = 0
        BY <1>7 DEF NoBack
      <3>6. Outside(task', p, j)
        BY <1>0, <1>1, <3>1, OldWay
      <3> QED
        BY <3>1, <3>4, <3>5, <3>6 DEF Passing, Begun
    <2>4. \A i \in 1 .. last' : i \in Id \/ i \in last+1 .. last'
      BY <1>0, <1>2, <1>4 DEF Id
    <2> QED
      BY <2>1, <2>2, <2>3, <2>4 DEF m
  <1>13. Ways(task', last', s, p)
    BY <1>12 DEF Ways
  <1>14. s # << >> => Head(s).parent = p
    <2> SUFFICES ASSUME s # << >> PROVE Head(s).parent = p
      OBVIOUS
    <2>1. Len(s) \in Nat \ {0} /\ Head(s) = s[1]
      BY <1>11
    <2> QED
      BY <1>12, <2>1
  <1>15. NewSeated
    BY <1>8 DEF NewSeated
  <1> QED
    BY <1>0, <1>4, <1>10, <1>13, <1>14, <1>15, GoSInv

LEMMA execCustomNodeSInv ==
  ASSUME NEW H, TokensApart, SInv(H), execCustomNode
  PROVE  SInv(H)'
  <1> DEFINE n == Current.node
             p == Current.parent
             r == [NewRow(n, p, {cmd.user}) EXCEPT !.st = "DONE", !.by = cmd.user]
             w == Children(n, p)
  <1>0. /\ ~ Idle /\ IInv(H) /\ Flow.type[n] = "custom" /\ JInv(H) /\ BranchesMeet
        /\ Evolves(H, task', last') /\ JInv(H)'
    BY execCustomNodeKeeps, execCustomNodeJInv DEF execCustomNode, Executing, SInv, JInv, TokensApart
  <1>1. n \in Node /\ last \in Nat
    BY <1>0, Underway
  <1>2. /\ task' = Appended(task, << r >>) /\ last' = last + 1 /\ state' # "DONE"
        /\ Run(w \o Tail(work), cmd)
    BY <1>0, FirstWay DEF execCustomNode, PushChildren
  <1>3. r.node = n /\ r.st = "DONE" /\ r.back = NoBack /\ r.scopes = NoScopes
    BY DEF NewRow
  <1> HIDE DEF r
  <1>4. \A x \in last+1 .. last' : task'[x] = r
    BY <1>1, <1>2, AppendedRow
  <1>5. NewSeated /\ \A x \in last+1 .. last' : ~ IsOpen(task', x)
    BY <1>0, <1>3, <1>4, BareSeated DEF NewSeated, IsOpen
  <1>6. w \in Seq(WorkItem) /\ Onward(w) /\ (Len(w) > 1 => n \in Split)
    <2>1. n \notin Join
      BY <1>0 DEF Join, OfType
    <2> QED
      BY <1>0, <1>1, <2>1, ChildrenOnward, ChildrenSplit
  <1> HIDE DEF w
  <1> QED
    BY <1>0, <1>2, <1>5, <1>6, WalkSInv

LEMMA evaluateDecisionSInv ==
  ASSUME NEW H, TokensApart, SInv(H), evaluateDecision
  PROVE  SInv(H)'
  <1>0. /\ ~ Idle /\ Flow.type[Current.node] = "decision" /\ JInv(H) /\ JInv(H)'
        /\ UNCHANGED <<state, task, last>> /\ state' # "DONE"
    BY evaluateDecisionJInv, FirstWay DEF evaluateDecision, Executing, SInv, TokensApart
  <1>2. Current.node \in Node /\ Current.parent \in Nat
    BY <1>0, Underway
  <1>3. PICK m \in Node : /\ m \in outgoingTargets(Flow, Current.node)
                          /\ Run(<<[node |-> m, parent |-> Current.parent]>> \o Tail(work), cmd)
    BY <1>2, RoutedBranch
  <1> DEFINE item == [node |-> m, parent |-> Current.parent]
             w == << item >>
  <1>4. item.node = m /\ item.parent = Current.parent /\ item \in WorkItem
    BY <1>2, <1>3 DEF WorkItem
  <1>5. Run(w \o Tail(work), cmd)
    BY <1>3
  <1> HIDE DEF item
  <1>6. w \in Seq(WorkItem) /\ Len(w) = 1 /\ w[1] = item
    BY <1>4
  <1> HIDE DEF w
  <1>7. Onward(w)
    <2>1. \A a \in 1 .. Len(w) : a = 1
      BY <1>6
    <2>2. Current.node \notin Join
      BY <1>0 DEF Join, OfType
    <2> QED
      BY <1>0, <1>3, <1>4, <1>6, <2>1, <2>2 DEF Onward
  <1>8. ~ (Len(w) > 1)
    BY <1>6
  <1> QED
    BY <1>0, <1>5, <1>6, <1>7, <1>8, PassSInv

\* When a token has come to the end node nothing else is left of the instance.
LEMMA executeEndSInv ==
  ASSUME NEW H, TokensApart, SInv(H), JInv(H)', executeEnd
  PROVE  SInv(H)'
  <1>0. /\ ~ Idle /\ Flow.type[Current.node] = "end" /\ Unwind /\ UNCHANGED <<task, last>>
        /\ Current.node \in Node /\ IInv(H)
    BY Underway DEF executeEnd, Executing, SInv
  <1>1. Current.node \in OfType(Flow, "end") /\ Current.node \in Met({Current.node})
    BY <1>0, MetHas DEF OfType, Node
  <1>2. \A j : ~ Enters(j, Current.node) /\ ~ Within(j, MetBefore(j, Current.node))
    <2>1. \A j : Current.node \in MetBefore(j, Current.node)
      BY <1>0 DEF MetBefore
    <2> QED
      BY <1>1, <2>1 DEF Enters, Within
  <1>3. ASSUME NEW i \in 1 .. last PROVE ~ IsOpen(task, i)
    <2>1. i \in Id
      BY DEF Id
    <2> QED
      BY <1>0, <1>2, <2>1, FirstWay DEF Passing, Begun, Beside
  <1>4. Tail(work) = << >>
    <2>1. Len(work) \in Nat \ {0} /\ work \in Seq(WorkItem) /\ 1 \in 1 .. Len(work)
      BY <1>0, FirstWay
    <2>2. ~ (Len(work) > 1)
      BY <1>0, <1>2, <2>1, FirstWay DEF Parting
    <2>3. Len(work) = 1
      BY <2>1, <2>2
    <2> DEFINE s == Tail(work)
    <2>4. s \in Seq(WorkItem) /\ Len(s) = Len(work) - 1
      BY <1>0, FirstWay
    <2> HIDE DEF s
    <2>5. s = << >>
      BY <2>3, <2>4
    <2> QED
      BY <2>5 DEF s
  <1>5. Run(<< >>, cmd)
    BY <1>0, <1>4 DEF Unwind
  <1>6. Sorted(saved'.state, saved'.task, saved'.last, << >>) /\ work' = << >>
    BY <1>5, RunSorted
  <1>7. Sorted(state', task', last', << >>)
    BY <1>0, <1>3 DEF Sorted, Over, SInv
  <1> QED
    BY <1>6, <1>7, SInvNext

LEMMA abortSInv ==
  ASSUME NEW H, SInv(H), JInv(H)', abort
  PROVE  SInv(H)'
  <1>1. Run(<< >>, NoCmd) /\ ~ Idle
    BY DEF abort, Executing
  <1>2. Sorted(saved'.state, saved'.task, saved'.last, << >>) /\ work' = << >>
    BY <1>1, RunSorted
  <1>3. Sorted(state', task', last', << >>)
    <2>1. CASE Transactional
      BY <2>1 DEF abort, SInv
    <2>2. CASE ~ Transactional
      BY <1>1, <2>2, FirstWay DEF abort, SInv, Sorted, Over
    <2> QED
      BY <2>1, <2>2
  <1> QED
    BY <1>2, <1>3, SInvNext

LEMMA StepSInv ==
  ASSUME NEW H, TokensApart, SInv(H), Step
  PROVE  SInv(H)'
  <1>0. JInv(H)'
    BY StepJInv DEF SInv, TokensApart
  <1>1. CASE executeFork
    BY <1>0, <1>1, PushSInv DEF executeFork, Executing, Join, OfType
  <1>2. CASE joinReleases
    BY <1>0, <1>2, PushSInv DEF joinReleases, Executing
  <1>3. CASE joinWaits \/ executeUnknown
    BY <1>0, <1>3, UnwindSInv DEF joinWaits, executeUnknown, Executing
  <1> QED
    BY <1>0, <1>1, <1>2, <1>3, createTaskSInv, execCustomNodeSInv, evaluateDecisionSInv,
       executeEndSInv, abortSInv DEF Step

-----------------------------------------------------------------------------
(* The commands. *)

LEMMA SettleSInv ==
  ASSUME NEW H, SInv(H), Idle, JInv(H)', Evolves(H, task', last'), last' = last, state' # "DONE",
         work' = work, saved' = saved
  PROVE  SInv(H)'
  <1>1. last \in Nat
    BY DEF SInv, JInv, IInv, TypeOK
  <1>2. last+1 .. last' = {}
    BY <1>1
  <1>3. NewSeated /\ NewClear
    BY <1>2 DEF NewSeated, NewClear
  <1> QED
    BY <1>3, StaySInv

LEMMA OneRowSInv ==
  ASSUME NEW H, SInv(H), Idle, JInv(H)', Evolves(H, task', last'), state' # "DONE",
         work' = work, saved' = saved, NEW e, NEW r, task' = Appended(e, << r >>),
         last' = last + 1, Seated(task', r),
         \A i \in Id : IsOpen(e, i) => Clear(task', task[i], r)
  PROVE  SInv(H)'
  <1>1. last \in Nat
    BY DEF SInv, JInv, IInv, TypeOK
  <1>2. /\ \A i \in Id : task'[i] = e[i]
        /\ \A x \in last+1 .. last' : task'[x] = r
    BY <1>1, AppendedRow
  <1>3. \A x, y \in last+1 .. last' : x = y
    BY <1>1
  <1>4. NewSeated
    BY <1>2 DEF NewSeated
  <1>5. NewClear
    BY <1>2, <1>3 DEF NewClear, IsOpen
  <1> QED
    BY <1>4, <1>5, StaySInv

\* What a command on the open row t finds open besides, and what it leaves open.
LEMMA LeftOpen ==
  ASSUME NEW H, SInv(H), NEW t \in Id, NEW u \in User, NEW submit \in Submit, Allowed(t, u),
         NEW i \in Id
  PROVE  LET d == Completed(t, u, submit)
             n == task[t].node
         IN  /\ state # "DONE"
             /\ d[i].node = task[i].node /\ d[i] \in Row
             /\ IsOpen(d, i) => i # t /\ Clear(task, task[i], task[t])
             /\ IsOpen(DropOpenAt(d, n), i) =>
                  /\ i # t /\ Clear(task, task[i], task[t])
                  /\ ~ (AddSignGate(n) /\ task[i].node = n)
  <1> DEFINE d == Completed(t, u, submit)
             n == task[t].node
             e == DropOpenAt(d, n)
  <1>1. /\ TypeOK /\ task[t].st = "DOING" /\ Alone(task, last) /\ i \in 1 .. last /\ t \in 1 .. last
        /\ Over(state, task, last, work)
    BY DEF SInv, Sorted, JInv, IInv, Allowed, Id
  <1>2. /\ Settles(d) /\ Handled(d[t]) /\ \A k \in Id \ {t} : d[k] = task[k]
    BY <1>1, CompletedSettles
  <1>3. DOMAIN d = Id /\ d[i] \in Row /\ d[i].node = task[i].node
    BY <1>2 DEF Settles
  <1> HIDE DEF d, n
  <1>4. ASSUME IsOpen(d, i) PROVE i # t /\ Clear(task, task[i], task[t])
    <2>1. i # t
      BY <1>2, <1>4 DEF IsOpen, Handled
    <2>2. IsOpen(task, i) /\ IsOpen(task, t)
      BY <1>1, <1>2, <1>4, <2>1 DEF IsOpen
    <2> QED
      BY <1>1, <2>1, <2>2 DEF Alone
  <1>5. ASSUME IsOpen(e, i) PROVE IsOpen(d, i) /\ ~ (AddSignGate(n) /\ task[i].node = n)
    <2>1. e[i] = IF AddSignGate(n) /\ i \in DoingAt(d, n)
                 THEN [d[i] EXCEPT !.st = "ABANDONED"] ELSE d[i]
      BY DEF DropOpenAt
    <2>2. [d[i] EXCEPT !.st = "ABANDONED"].st = "ABANDONED"
      BY <1>3 DEF Row
    <2>3. ~ (AddSignGate(n) /\ i \in DoingAt(d, n)) /\ e[i] = d[i]
      BY <1>5, <2>1, <2>2 DEF IsOpen
    <2>4. IsOpen(d, i)
      BY <1>5, <2>3 DEF IsOpen
    <2> QED
      BY <1>3, <2>3, <2>4 DEF DoingAt, DoingIn, IsOpen
  <1>6. state # "DONE"
    BY <1>1 DEF Over, IsOpen
  <1> QED
    BY <1>3, <1>4, <1>5, <1>6 DEF d, n

LEMMA CommandS ==
  ASSUME NEW H, SInv(H), NEW t \in Id, NEW u \in User, Allowed(t, u)
  PROVE  /\ task[t].node \in OfType(Flow, "task") /\ task[t].node \in Node
         /\ Flow.type[task[t].node] = "task"
         /\ t \in Nat /\ t # 0 /\ t \in 0 .. last /\ last \in Nat /\ state # "DONE"
         /\ \A j \in Join : /\ j \notin ScopesOfNode[task[t].node] => task[t].scopes[j].root = 0
                            /\ Outside(task, t, j) <=> task[t].scopes[j].root = 0
  <1>1. JInv(H) /\ task[t].st = "DOING"
    BY DEF SInv, Allowed
  <1>2. /\ task[t].node \in Node /\ last \in Nat /\ t \in 1 .. last /\ Asks(task[t]) /\ t # 0
        /\ t \in 0 .. last
    BY <1>1, CommandRow
  <1>3. Flow.type[task[t].node] = "task"
    BY <1>1, <1>2 DEF Asks
  <1>4. task[t].node \in OfType(Flow, "task")
    BY <1>2, <1>3 DEF OfType, Node
  <1>5. \A j \in Join : task[t].scopes[j].root # 0 => j \in ScopesOfNode[task[t].node]
    BY <1>1, RowFacts
  <1>6. state # "DONE"
    BY <1>1, <1>2 DEF SInv, Sorted, Over, IsOpen
  <1> QED
    BY <1>2, <1>3, <1>4, <1>5, <1>6 DEF Outside

\* A row that takes over the seat of row t is clear of what t was clear of.
LEMMA HeirClear ==
  ASSUME NEW d, NEW e, NEW r, NEW s, NEW x, Clear(d, s, x), ~ Fellows(d, s, x),
         \A j \in Join : Seat(x)[j].root # 0 => Seat(r)[j] = Seat(x)[j]
  PROVE  Clear(e, s, r)
  <1>1. PICK j \in Join : Differ(Seat(s), Seat(x), j)
    BY DEF Clear, Diverge
  <1>2. Differ(Seat(s), Seat(r), j)
    BY <1>1 DEF Differ
  <1> QED
    BY <1>2 DEF Clear, Diverge

\* The tokens that leave a task, or the start.
LEMMA LeaveWays ==
  ASSUME TokensApart, NEW n \in OfType(Flow, "task") \cup {startNode(Flow)}, n \in Node,
         Flow.type[n] # "decision", NEW q \in Nat, NEW d, NEW p,
         \A j \in Join \ ScopesOfNode[n] : Outside(d, p, j)
  PROVE  LET w == Children(n, q)
         IN  \A a \in 1 .. Len(w) :
               /\ Splits(d, p, w[a].node)
               /\ Len(w) > 1 => \A b \in 1 .. Len(w) : Parting(d, p, w[a].node, w[b].node)
  <1> DEFINE w == Children(n, q)
  <1>1. BranchesMeet
    BY DEF TokensApart
  <1>2. \A a \in 1 .. Len(w) : w[a].node \in outgoingTargets(Flow, n)
    BY <1>1, Leaves
  <1>3. Len(w) > 1 => n \in Split
    BY ChildrenSplit
  <1> HIDE DEF w
  <1>4. ASSUME NEW f \in ({n} \cup Met(outgoingTargets(Flow, n))) \cap Split
        PROVE  \E j \in Join : Outside(d, p, j) /\ Opens(j, f)
    <2>1. \E j \in Join \ ScopesOfNode[n] : Opens(j, f)
      BY <1>4 DEF TokensApart
    <2> QED
      BY <2>1
  <1>5. \A m \in outgoingTargets(Flow, n) : Met({m}) \subseteq Met(outgoingTargets(Flow, n))
    BY DEF Met
  <1>6. ASSUME NEW a \in 1 .. Len(w) PROVE Splits(d, p, w[a].node)
    BY <1>2, <1>4, <1>5 DEF Splits
  <1>7. ASSUME Len(w) > 1, NEW a \in 1 .. Len(w), NEW b \in 1 .. Len(w)
        PROVE  Parting(d, p, w[a].node, w[b].node)
    <2>1. PICK j \in Join : Outside(d, p, j) /\ Opens(j, n)
      BY <1>3, <1>4, <1>7
    <2> QED
      BY <1>2, <2>1 DEF Opens, Parting
  <1> QED
    BY <1>6, <1>7 DEF w

LEMMA StartProcessInstanceSInv ==
  ASSUME NEW H, TokensApart, SInv(H), StartProcessInstance
  PROVE  SInv(H)'
  <1> DEFINE n == startNode(Flow)
             w == Children(n, 0)
             c == [NoCmd EXCEPT !.user = Initiator]
  <1>1. JInv(H) /\ JInv(H)' /\ last = 0 /\ IInv(H)
    BY StartProcessInstanceJInv DEF SInv, JInv, Unstarted, StartProcessInstance, TokensApart
  <1>2. UNCHANGED <<task, last>> /\ state' # "DONE" /\ Run(w, c)
    BY DEF StartProcessInstance
  <1>3. Evolves(H, task', last') /\ last+1 .. last' = {} /\ 1 .. last' = {}
    BY <1>1, <1>2, SameTable
  <1>4. /\ n \in OfType(Flow, "task") \cup {startNode(Flow)} /\ n \in Node
        /\ Flow.type[n] # "decision" /\ \A j \in Join : Outside(task', 0, j) /\ BranchesMeet
    BY StartTyped, StartIsStart DEF Outside, TokensApart
  <1>5. \A a \in 1 .. Len(w) :
          /\ Splits(task', 0, w[a].node)
          /\ Len(w) > 1 => \A b \in 1 .. Len(w) : Parting(task', 0, w[a].node, w[b].node)
    BY <1>4, LeaveWays
  <1>6. w \in Seq(WorkItem) /\ \A a \in 1 .. Len(w) : w[a].parent = 0
    BY <1>4, Leaves DEF TokensApart
  <1> HIDE DEF w, c, n
  <1>7. Ways(task', last', w, 0)
    BY <1>3, <1>5 DEF Ways
  <1>8. w # << >> => Head(w).parent = 0
    <2> SUFFICES ASSUME w # << >> PROVE Head(w).parent = 0
      OBVIOUS
    <2>1. Len(w) \in Nat \ {0} /\ Head(w) = w[1]
      BY <1>6
    <2> QED
      BY <1>6, <2>1
  <1>9. NewSeated /\ NewClear
    BY <1>3 DEF NewSeated, NewClear
  <1> QED
    BY <1>1, <1>2, <1>3, <1>7, <1>8, <1>9, GoSInv

LEMMA ExecuteWaitSInv ==
  ASSUME NEW H, SInv(H), NEW t \in Id, NEW u \in User, NEW submit \in Submit, ExecuteWait(t, u,
         submit)
  PROVE  SInv(H)'
  <1>1. Idle /\ IInv(H) /\ JInv(H) /\ Allowed(t, u)
    BY DEF ExecuteWait, Executes, SInv, JInv
  <1>2. Evolves(H, task', last') /\ JInv(H)' /\ state # "DONE"
    BY <1>1, ExecuteWaitKeeps, ExecuteWaitJInv, LeftOpen
  <1>3. last' = last /\ state' = state /\ work' = work /\ saved' = saved
    BY DEF ExecuteWait
  <1> QED
    BY <1>1, <1>2, <1>3, SettleSInv

LEMMA ExecuteAndJumpToEndSInv ==
  ASSUME NEW H, SInv(H), NEW t \in Id, NEW u \in User, ExecuteAndJumpToEnd(t, u)
  PROVE  SInv(H)'
  <1>1. Idle /\ IInv(H) /\ JInv(H)
    BY DEF ExecuteAndJumpToEnd, SInv, JInv
  <1>2. Evolves(H, task', last') /\ JInv(H)'
    BY <1>1, ExecuteAndJumpToEndKeeps, ExecuteAndJumpToEndJInv
  <1>3. last' = last /\ state' # "DONE" /\ work' = work /\ saved' = saved
    BY DEF ExecuteAndJumpToEnd
  <1> QED
    BY <1>1, <1>2, <1>3, SettleSInv

LEMMA ReturnFailsSInv ==
  ASSUME NEW H, SInv(H), NEW t \in Id, NEW u \in User, ReturnFails(t, u)
  PROVE  SInv(H)'
  <1>1. Idle /\ IInv(H) /\ JInv(H) /\ Allowed(t, u) /\ "return" \in Submit
    BY DEF ReturnFails, SInv, JInv, Submit
  <1>2. Evolves(H, task', last') /\ JInv(H)' /\ state # "DONE"
    BY <1>1, ReturnFailsKeeps, ReturnFailsJInv, LeftOpen
  <1>3. last' = last /\ state' = state /\ work' = work /\ saved' = saved
    BY DEF ReturnFails
  <1> QED
    BY <1>1, <1>2, <1>3, SettleSInv

LEMMA withdrawSInv ==
  ASSUME NEW H, SInv(H), NEW u \in User, withdraw(u)
  PROVE  SInv(H)'
  <1>1. Idle /\ IInv(H) /\ JInv(H)
    BY DEF withdraw, SInv, JInv
  <1>2. Evolves(H, task', last') /\ JInv(H)'
    BY <1>1, withdrawKeeps, withdrawJInv
  <1>3. last' = last /\ state' # "DONE" /\ work' = work /\ saved' = saved
    BY DEF withdraw
  <1> QED
    BY <1>1, <1>2, <1>3, SettleSInv

\* What a decided or unheld node has still open is in another branch, and the
\* tokens that leave it stay in the branches of its row.
LEMMA ExecuteAdvanceSInv ==
  ASSUME NEW H, TokensApart, SInv(H), NEW t \in Id, NEW u \in User, NEW submit \in Submit,
         NEW next \in Roster, ExecuteAdvance(t, u, submit, next)
  PROVE  SInv(H)'
  <1> DEFINE n == task[t].node
             d == Completed(t, u, submit)
             w == Children(n, t)
             c == [user |-> u, next |-> next, home |-> {}]
  <1>1. /\ Idle /\ Allowed(t, u) /\ task[t].back.src = 0 /\ IInv(H) /\ JInv(H) /\ BranchesMeet
        /\ ~ GateHolds(d, t, submit)
    BY DEF ExecuteAdvance, Executes, SInv, JInv, TokensApart
  <1>2. Evolves(H, task', last') /\ JInv(H)' /\ state # "DONE"
    BY <1>1, ExecuteAdvanceKeeps, ExecuteAdvanceJInv, LeftOpen
  <1>3. /\ Flow.type[n] = "task" /\ n \in Node /\ t \in Nat /\ t # 0 /\ t \in 0 .. last
        /\ last \in Nat /\ n \in OfType(Flow, "task")
    BY <1>1, CommandS
  <1>4. task' = AbandonRest(d, n) /\ last' = last /\ state' = state /\ Run(w, c)
    BY DEF ExecuteAdvance
  <1>5. /\ w \in Seq(WorkItem)
        /\ \A a \in 1 .. Len(w) : w[a].parent = t /\ w[a].node \in outgoingTargets(Flow, n)
    BY <1>1, <1>3, Leaves
  <1>6. \A j \in Join \ ScopesOfNode[n] : Outside(task, t, j)
    BY <1>1, CommandS
  <1>7. \A j \in Join \ ScopesOfNode[n] : Outside(task', t, j)
    BY <1>1, <1>2, <1>3, <1>6, OldWay
  <1>8. \A a \in 1 .. Len(w) :
          /\ Splits(task', t, w[a].node)
          /\ Len(w) > 1 => \A b \in 1 .. Len(w) : Parting(task', t, w[a].node, w[b].node)
    BY <1>3, <1>7, LeaveWays
  <1> HIDE DEF w, c, d
  <1>9. ASSUME NEW i \in Id, IsOpen(task', i)
        PROVE  i # t /\ Clear(task, task[i], task[t]) /\ ~ Fellows(task, task[i], task[t])
    <2>1. d[i].node = task[i].node /\ (IsOpen(d, i) => i # t /\ Clear(task, task[i], task[t]))
      BY <1>1, LeftOpen DEF d
    <2>2. DOMAIN d = Id /\ d[t].node = n
      BY <1>1, CompletedSource DEF d, Settles
    <2>3. task'[i] = IF Props[n].countersign # "none" /\ i \in DoingAt(d, n)
                     THEN [d[i] EXCEPT !.st = "ABANDONED"] ELSE d[i]
      BY <1>4 DEF AbandonRest
    <2>4. [d[i] EXCEPT !.st = "ABANDONED"].st # "DOING"
      <3>1. i \in DOMAIN d /\ d[i] \in Row
        BY <1>1, <2>2, CompletedSource DEF d, Settles
      <3> QED
        BY <3>1 DEF Row
    <2>5. IsOpen(d, i) /\ ~ (Props[n].countersign # "none" /\ i \in DoingAt(d, n))
      BY <1>9, <2>3, <2>4 DEF IsOpen
    <2>6. ~ (AddSignGate(n) /\ i \in DoingAt(d, n))
      BY <1>1, <2>2 DEF GateHolds
    <2>7. task[i].node = n => i \in DoingAt(d, n)
      BY <2>1, <2>2, <2>5 DEF DoingAt, DoingIn, IsOpen
    <2>8. n \in Shared => Props[n].countersign # "none" \/ AddSignGate(n)
      BY DEF Shared
    <2> QED
      BY <2>1, <2>5, <2>6, <2>7, <2>8 DEF Fellows
  <1>10. ASSUME NEW a \in 1 .. Len(w), NEW i \in 1 .. last', IsOpen(task', i)
         PROVE  Passing(task', i, t, w[a].node)
    <2>1. i \in Id
      BY <1>4 DEF Id
    <2>2. Seat(task[t]) = task[t].scopes
      BY <1>1 DEF Seat
    <2>3. PICK j \in Join : Differ(Seat(task[i]), task[t].scopes, j)
      BY <1>9, <1>10, <2>1, <2>2 DEF Clear, Diverge
    <2>4. j \in ScopesOfNode[n]
      BY <1>1, <2>3, CommandS DEF Differ
    <2>5. Within(j, MetBefore(j, w[a].node))
      BY <1>3, <1>5, <2>4 DEF TokensApart
    <2>6. Passing(task, i, t, w[a].node)
      BY <1>3, <2>3, <2>5 DEF Passing, Beside
    <2> QED
      BY <1>2, <1>1, <1>3, <2>1, <2>6, OldWay
  <1>11. Ways(task', last', w, t)
    BY <1>8, <1>10 DEF Ways, w
  <1>12. w # << >> => Head(w).parent = t
    <2> SUFFICES ASSUME w # << >> PROVE Head(w).parent = t
      OBVIOUS
    <2>1. Len(w) \in Nat \ {0} /\ Head(w) = w[1]
      BY <1>5
    <2> QED
      BY <1>5, <2>1
  <1>13. NewSeated /\ NewClear
    <2>1. last+1 .. last' = {}
      BY <1>3, <1>4
    <2> QED
      BY <2>1 DEF NewSeated, NewClear
  <1> QED
    BY <1>2, <1>4, <1>11, <1>12, <1>13, GoSInv

\* A return outside the ranges leaves nothing open.
LEMMA ExecuteAndJumpToFirstTaskNodeSInv ==
  ASSUME NEW H, TokensApart, "return" \in Commands, SInv(H), NEW t \in Id, NEW u \in User,
         ExecuteAndJumpToFirstTaskNode(t, u)
  PROVE  SInv(H)'
  <1> DEFINE m == task[t].node
             d == Completed(t, u, "return")
  <1>1. /\ Idle /\ Allowed(t, u) /\ task[t].back.src = 0 /\ IInv(H) /\ JInv(H) /\ "return" \in Submit
        /\ ~ Props[m].direct /\ BranchesMeet
    BY DEF ExecuteAndJumpToFirstTaskNode, SInv, JInv, Submit, TokensApart
  <1>2. /\ Evolves(H, task', last') /\ JInv(H)' /\ state # "DONE"
    BY <1>1, ExecuteAndJumpToFirstTaskNodeKeeps, ExecuteAndJumpToFirstTaskNodeJInv, LeftOpen
  <1>3. /\ m \in OfType(Flow, "task") /\ t \in Nat /\ t # 0 /\ t \in 0 .. last /\ last \in Nat
    BY <1>1, CommandS
  <1>4. ScopesOfNode[m] = {} /\ (AddSignGate(m) \/ m \notin Shared)
    BY <1>1, <1>3 DEF TokensApart
  <1>5. PICK n \in firstAfterStart(Flow, {"task", "custom"}) :
          Run(<<[node |-> n, parent |-> t]>>, [user |-> u, next |-> << >>, home |-> {n}])
    BY DEF ExecuteAndJumpToFirstTaskNode
  <1>6. n \in Node /\ n \in FirstTaskNode /\ Flow.type[n] = "task" /\ n \in OfType(Flow, "task")
    BY <1>1, <1>5, FirstAfterStart DEF BranchesMeet, OfType
  <1> DEFINE item == [node |-> n, parent |-> t]
             w == << item >>
             c == [user |-> u, next |-> << >>, home |-> {n}]
  <1>7. item.node = n /\ item.parent = t /\ item \in WorkItem /\ Run(w, c)
    BY <1>3, <1>5, <1>6 DEF WorkItem
  <1> HIDE DEF item, c
  <1>8. w \in Seq(WorkItem) /\ Len(w) = 1 /\ w[1] = item /\ Head(w) = item
    BY <1>7
  <1> HIDE DEF w
  <1>9. \A j \in Join : task[t].scopes[j].root = 0
    BY <1>1, <1>4, CommandS
  <1>10. \A j \in Join : Outside(task', t, j)
    BY <1>1, <1>2, <1>3, <1>9, OldWay DEF Outside
  <1>11. task' = DropOpenAt(d, m) /\ last' = last /\ state' = state
    BY DEF ExecuteAndJumpToFirstTaskNode
  <1>12. ASSUME NEW i \in Id PROVE ~ IsOpen(task', i)
    <2> SUFFICES ASSUME IsOpen(task', i) PROVE FALSE
      OBVIOUS
    <2>1. Clear(task, task[i], task[t]) /\ ~ (AddSignGate(m) /\ task[i].node = m)
      BY <1>1, <1>11, LeftOpen
    <2>2. Seat(task[t]) = task[t].scopes
      BY <1>1 DEF Seat
    <2>3. ~ Diverge(Seat(task[i]), Seat(task[t]))
      BY <1>9, <2>2 DEF Diverge, Differ
    <2> QED
      BY <1>4, <2>1, <2>3 DEF Clear, Fellows
  <1>13. Splits(task', t, n)
    <2>1. Closed({n}) /\ {n} \in SUBSET Node
      BY <1>6 DEF Closed
    <2>2. Met({n}) \subseteq {n}
      BY <2>1 DEF Met
    <2>3. ASSUME n \in Split PROVE \E j \in Join : Opens(j, n)
      <3>1. n \in ({n} \cup Met(outgoingTargets(Flow, n))) \cap Split
        BY <2>3
      <3> QED
        BY <1>6, <3>1 DEF TokensApart
    <2> QED
      BY <1>10, <2>2, <2>3 DEF Splits
  <1>14. Ways(task', last', w, t)
    <2>1. \A a \in 1 .. Len(w) : w[a].node = n
      BY <1>7, <1>8
    <2>2. ~ (Len(w) > 1)
      BY <1>8
    <2>3. \A i \in 1 .. last' : ~ IsOpen(task', i)
      BY <1>11, <1>12 DEF Id
    <2> QED
      BY <1>13, <2>1, <2>2, <2>3 DEF Ways
  <1>15. NewSeated /\ NewClear
    <2>1. last+1 .. last' = {}
      BY <1>3, <1>11
    <2> QED
      BY <2>1 DEF NewSeated, NewClear
  <1>16. Head(w).parent = t
    BY <1>7, <1>8
  <1> QED
    BY <1>2, <1>7, <1>11, <1>14, <1>15, <1>16, GoSInv

\* The next member is asked when nothing is open.
LEMMA ExecuteNextMemberSInv ==
  ASSUME NEW H, TokensApart, SInv(H), NEW t \in Id, NEW u \in User, NEW submit \in Submit,
         ExecuteNextMember(t, u, submit)
  PROVE  SInv(H)'
  <1> DEFINE d == Completed(t, u, submit)
             n == task[t].node
             s == d[t].cs[n]
             r == [NewRow(n, t, {s.members[s.idx + 2]}) EXCEPT
                     !.cs[n] = [s EXCEPT !.idx = s.idx + 1]]
  <1>1. /\ Idle /\ Allowed(t, u) /\ IInv(H) /\ JInv(H)
        /\ SequentialGate(d, t, submit) /\ DoingIn(d) = {}
    BY DEF ExecuteNextMember, Executes, SInv, JInv
  <1>2. Evolves(H, task', last') /\ JInv(H)' /\ state # "DONE"
    BY <1>1, ExecuteNextMemberKeeps, ExecuteNextMemberJInv, LeftOpen
  <1>3. n \in Sequential /\ DOMAIN d = Id
    <2>1. d[t].node = n /\ n \in Node /\ DOMAIN d = Id
      BY <1>1, CompletedSource, CommandRow DEF Settles
    <2> QED
      BY <1>1, <2>1 DEF SequentialGate, Sequential
  <1>4. /\ task' = Appended(d, << r >>) /\ last' = last + 1
        /\ state' = state /\ work' = work /\ saved' = saved
    BY DEF ExecuteNextMember
  <1>5. r.node = n /\ r.scopes = NoScopes /\ r.back = NoBack
    BY DEF NewRow
  <1> HIDE DEF d, r
  <1>6. Seated(task', r)
    <2>1. ScopesOfNode[r.node] = {}
      BY <1>3, <1>5 DEF TokensApart
    <2> QED
      BY <1>5, <2>1, BareSeated
  <1>7. \A i \in Id : ~ IsOpen(d, i)
    BY <1>1, <1>3 DEF DoingIn, IsOpen
  <1> QED
    BY <1>1, <1>2, <1>4, <1>6, <1>7, OneRowSInv

\* Added signers share the branches of the signer who names them.
LEMMA ExecuteAddSignSInv ==
  ASSUME NEW H, SInv(H), NEW t \in Id, NEW u \in User, NEW submit \in Submit,
         NEW ops \in Roster, ExecuteAddSign(t, u, submit, ops)
  PROVE  SInv(H)'
  <1> DEFINE d == Completed(t, u, submit)
             n == task[t].node
  <1>1. Idle /\ Allowed(t, u) /\ task[t].back.src = 0 /\ IInv(H) /\ JInv(H)
    BY DEF ExecuteAddSign, Executes, SInv, JInv
  <1>2. Evolves(H, task', last') /\ JInv(H)' /\ state # "DONE"
    BY <1>1, ExecuteAddSignKeeps, ExecuteAddSignJInv, LeftOpen
  <1>3. t \in 0 .. last /\ t # 0 /\ n \in Shared /\ ~ Props[n].collect
    <2>1. AddSignGate(n) /\ Props[n].addSign
      BY DEF ExecuteAddSign, AddSignGate
    <2>2. n \in OfType(Flow, "task") /\ t \in 0 .. last /\ t # 0
      BY <1>1, CommandS
    <2> QED
      BY <2>1, <2>2, PropsAssumption DEF Shared, validateAddSignFlow
  <1>4. state' = state /\ work' = work /\ saved' = saved
    BY DEF ExecuteAddSign
  <1>5. /\ \A i \in Id : task'[i] = d[i]
        /\ \A x \in last+1 .. last' :
             /\ task'[x].node = n /\ task'[x].back = NoBack
             /\ task'[x].scopes = buildScopes(n, t, x) /\ x \in Nat \ {0}
    BY <1>1, AddSignRows
  <1> HIDE DEF d
  <1>6. ASSUME NEW x \in last+1 .. last' PROVE Seated(task', task'[x])
    <2> DEFINE y == task'[x]
    <2>1. y.node = n /\ y.back = NoBack /\ y.scopes = buildScopes(n, t, x) /\ x \in Nat \ {0}
      BY <1>5
    <2> HIDE DEF y, n
    <2>2. Seated(task', y)
      BY <2>1, BuiltSeated
    <2> QED
      BY <2>2 DEF y
  <1>7. ASSUME NEW x \in last+1 .. last', NEW i \in Id, IsOpen(task', i)
        PROVE  Clear(task', task[i], task'[x])
    <2> DEFINE y == task'[x]
    <2>1. y.node = n /\ y.back = NoBack /\ y.scopes = buildScopes(n, t, x) /\ x \in Nat \ {0}
      BY <1>5
    <2>2. Clear(task, task[i], task[t])
      BY <1>1, <1>5, <1>7, LeftOpen DEF d, IsOpen
    <2> HIDE DEF y
    <2>3. CASE Fellows(task, task[i], task[t])
      <3>1. Fellows(task', task[i], y)
        BY <1>3, <2>1, <2>3 DEF Fellows
      <3> QED
        BY <3>1 DEF Clear, y
    <2>4. CASE ~ Fellows(task, task[i], task[t])
      <3> HIDE DEF n
      <3>0. y.scopes = buildScopes(n, t, x)
        BY <2>1
      <3>1. Seat(y) = y.scopes
        BY <2>1 DEF Seat, NoBack
      <3>2. Seat(task[t]) = task[t].scopes
        BY <1>1 DEF Seat
      <3>3. ASSUME NEW j \in Join, Seat(task[t])[j].root # 0
            PROVE  Seat(y)[j] = Seat(task[t])[j]
        <4>1. j \in ScopesOfNode[n]
          BY <1>1, <3>2, <3>3, CommandS DEF n
        <4>2. y.scopes[j] = IF j \notin ScopesOfNode[n] THEN NoScope
                            ELSE IF t # 0 /\ task[t].scopes[j].root # 0 THEN task[t].scopes[j]
                            ELSE [round |-> t, root |-> x]
          BY <3>0 DEF buildScopes
        <4> QED
          BY <1>3, <3>1, <3>2, <3>3, <4>1, <4>2
      <3>4. Clear(task', task[i], y)
        BY <2>2, <2>4, <3>3, HeirClear
      <3> QED
        BY <3>4 DEF y
    <2> QED
      BY <2>3, <2>4
  <1>8. NewSeated
    BY <1>6 DEF NewSeated
  <1>9. NewClear
    <2>1. \A x, y \in last+1 .. last' : Clear(task', task'[x], task'[y])
      BY <1>3, <1>5 DEF Clear, Fellows
    <2> QED
      BY <1>7, <2>1 DEF NewClear
  <1> QED
    BY <1>1, <1>2, <1>4, <1>8, <1>9, StaySInv

\* The source node gets its seat back from the applicant.
LEMMA executeReapplySInv ==
  ASSUME NEW H, TokensApart, SInv(H), NEW t \in Id, NEW u \in User, executeReapply(t, u)
  PROVE  SInv(H)'
  <1> DEFINE d == Completed(t, u, "reapply")
             src == task[t].back.src
             n == task[src].node
             r == [NewRow(n, t, FlowRange(Props[n].assignee)) EXCEPT
                     !.scopes = task[t].back.branch]
  <1>1. Idle /\ Allowed(t, u) /\ IInv(H) /\ JInv(H) /\ "reapply" \in Submit /\ BranchesMeet
    BY DEF executeReapply, SInv, JInv, Submit, TokensApart
  <1>2. Evolves(H, task', last') /\ JInv(H)' /\ state # "DONE"
    BY <1>1, executeReapplyKeeps, executeReapplyJInv, LeftOpen
  <1>3. /\ task' = Appended(d, << r >>) /\ last' = last + 1 /\ src # 0
        /\ state' = state /\ work' = work /\ saved' = saved /\ task[t].node \in FirstTaskNode
    BY DEF executeReapply
  <1>4. r.node = n /\ r.scopes = task[t].back.branch /\ r.back = NoBack /\ r.back.src = 0
    BY DEF NewRow, NoBack
  <1>5. src \in 1 .. last /\ t \in 1 .. last
    <2>1. task[t].back.src \in 0 .. last /\ t \in 1 .. last /\ last \in Nat
      BY <1>1, RowRefs, CommandRow
    <2> HIDE DEF src
    <2>2. src \in 0 .. last
      BY <2>1 DEF src
    <2> QED
      BY <1>3, <2>1, <2>2
  <1>6. Seated(task, task[t]) /\ Seated(task, task[src])
    <2>1. AllSeated(task, last)
      BY DEF SInv, Sorted
    <2> HIDE DEF src
    <2> QED
      BY <1>5, <2>1 DEF AllSeated
  <1>7. r.scopes = task[src].scopes
    BY <1>3, <1>4, <1>6 DEF Seated
  <1> HIDE DEF d, r
  <1>8. Seated(task', r)
    <2> HIDE DEF src
    <2> QED
      BY <1>4, <1>6, <1>7 DEF Seated, n
  <1>9. Seat(r) = Seat(task[t])
    BY <1>3, <1>4 DEF Seat
  <1>10. task[t].node \notin Shared
    BY <1>3 DEF TokensApart
  <1>11. ASSUME NEW i \in Id, IsOpen(d, i) PROVE Clear(task', task[i], r)
    <2>1. Clear(task, task[i], task[t])
      BY <1>1, <1>11, LeftOpen DEF d
    <2>2. ~ Fellows(task, task[i], task[t])
      BY <1>10 DEF Fellows
    <2> HIDE DEF src, n
    <2> QED
      BY <1>9, <2>1, <2>2, HeirClear
  <1> QED
    BY <1>1, <1>2, <1>3, <1>8, <1>11, OneRowSInv

\* The applicant keeps the seat of the source.
LEMMA ReturnForChangeSInv ==
  ASSUME NEW H, TokensApart, SInv(H), NEW t \in Id, NEW u \in User, ReturnForChange(t, u)
  PROVE  SInv(H)'
  <1> DEFINE e == DropOpenAt(Completed(t, u, "return"), task[t].node)
             row(n) == [NewRow(n, t, {Initiator}) EXCEPT
                          !.back = [src |-> t, branch |-> task[t].scopes]]
  <1>1. /\ Idle /\ Allowed(t, u) /\ IInv(H) /\ JInv(H) /\ "return" \in Submit /\ BranchesMeet
        /\ task[t].back.src = 0 /\ Props[task[t].node].countersign = "none"
    BY DEF ReturnForChange, SInv, JInv, Submit, TokensApart
  <1>2. Evolves(H, task', last') /\ JInv(H)' /\ state # "DONE"
    BY <1>1, ReturnForChangeKeeps, ReturnForChangeJInv, LeftOpen
  <1>3. PICK n \in firstAfterStart(Flow, {"task"}) : task' = Appended(e, << row(n) >>)
    BY DEF ReturnForChange
  <1>4. last' = last + 1 /\ state' = state /\ work' = work /\ saved' = saved
    BY DEF ReturnForChange
  <1>5. n \in FirstTaskNode /\ ScopesOfNode[n] = {}
    BY <1>1, <1>3, FirstAfterStart DEF BranchesMeet
  <1> DEFINE r == row(n)
  <1>6. /\ r.node = n /\ r.scopes = NoScopes /\ r.back.src = t /\ r.back.branch = task[t].scopes
    BY DEF NewRow
  <1>7. task' = Appended(e, << r >>)
    BY <1>3
  <1> HIDE DEF e, r, row
  <1>8. t # 0 /\ task'[t].scopes = task[t].scopes
    BY <1>1, <1>2, CommandS, OldRow
  <1>9. Seated(task', r)
    BY <1>5, <1>6, <1>8 DEF Seated, NoScopes
  <1>10. Seat(r) = Seat(task[t])
    BY <1>1, <1>6, <1>8 DEF Seat
  <1>11. ASSUME NEW i \in Id, IsOpen(e, i) PROVE Clear(task', task[i], r)
    <2>1. Clear(task, task[i], task[t]) /\ ~ (AddSignGate(task[t].node) /\ task[i].node = task[t].node)
      BY <1>1, <1>11, LeftOpen DEF e
    <2>2. task[t].node \in Shared => AddSignGate(task[t].node)
      BY <1>1 DEF Shared
    <2>3. ~ Fellows(task, task[i], task[t])
      BY <2>1, <2>2 DEF Fellows
    <2> QED
      BY <1>10, <2>1, <2>3, HeirClear
  <1> QED
    BY <1>1, <1>2, <1>4, <1>7, <1>9, <1>11, OneRowSInv

\* The row that comes to life again lies wherever the one that rolled back does.
LEMMA rollbackToParentSInv ==
  ASSUME NEW H, NoWayBack(H), TokensApart, "rollback" \in Commands, SInv(H),
         NEW t \in Id, NEW u \in User, rollbackToParent(t, u)
  PROVE  SInv(H)'
  <1> DEFINE d == Completed(t, u, "rollback")
             p == task[t].parent
             his == task[p]
             actor == IF his.node \in FirstTaskNode THEN his.owner ELSE his.by
             r == [NewRow(his.node, his.parent, {actor}) EXCEPT
                     !.owner = his.owner, !.scopes = his.scopes,
                     !.back = his.back, !.round = his.round]
  <1>1. /\ Idle /\ Allowed(t, u) /\ IInv(H) /\ JInv(H) /\ "rollback" \in Submit /\ BranchesMeet
        /\ task[t].back.src = 0 /\ p # 0 /\ his.node \in CanReject[task[t].node]
    BY DEF rollbackToParent, SInv, JInv, Submit, TokensApart
  <1>2. Evolves(H, task', last') /\ JInv(H)' /\ state # "DONE"
    BY <1>1, rollbackToParentKeeps, rollbackToParentJInv, LeftOpen
  <1>3. /\ task' = Appended(d, << r >>) /\ last' = last + 1
        /\ state' = state /\ work' = work /\ saved' = saved
    BY DEF rollbackToParent
  <1>4. r.node = his.node /\ r.scopes = his.scopes /\ r.back = his.back
    BY DEF NewRow
  <1> HIDE DEF d, r, actor
  <1>5. p \in Id /\ Handled(his) /\ last \in Nat
    BY <1>1, RolledBackTo DEF Allowed
  <1> HIDE DEF p
  <1>6. /\ Flow.type[his.node] = "task" /\ his.node \in OfType(Flow, "task")
        /\ task[t].node \in OfType(Flow, "task") /\ Flow.type[task[t].node] = "task"
    <2>1. his.node \in Node /\ Asks(his)
      BY <1>1, <1>5, CommandRow
    <2>2. Flow.type[his.node] = "task"
      BY <1>5, <2>1 DEF Asks
    <2> QED
      BY <1>1, <2>1, <2>2, CommandS DEF OfType, Node
  <1>7. /\ task[t].node \notin Shared /\ ScopesOfNode[task[t].node] \subseteq ScopesOfNode[his.node]
        /\ ~ (task[t].node \in Sequential /\ task[t].node = his.node)
    BY <1>1, <1>6 DEF TokensApart, BranchesMeet
  <1>8. Seated(task, his) /\ (his.back.src # 0 => his.back.src \in Id)
    <2>1. AllSeated(task, last) /\ p \in 1 .. last
      BY <1>5 DEF SInv, Sorted, Id
    <2>2. his.back.src \in 0 .. last
      BY <1>1, <1>5, RowRefs
    <2> HIDE DEF his
    <2>3. his.back.src # 0 => his.back.src \in 1 .. last
      BY <1>5, <2>2
    <2> QED
      BY <2>1, <2>3 DEF AllSeated, Id, his
  <1>9. ASSUME NEW j \in Join, Seat(task[t])[j].root # 0
        PROVE  Seat(r)[j] = Seat(task[t])[j]
    <2>1. Seat(task[t]) = task[t].scopes
      BY <1>1 DEF Seat
    <2>2. j \in ScopesOfNode[task[t].node] /\ j \in ScopesOfNode[his.node]
      BY <1>1, <1>7, <1>9, <2>1, CommandS
    <2>3. his.node \notin FirstTaskNode
      BY <1>1, <2>2 DEF BranchesMeet
    <2>4. his.back.src = 0 /\ his.scopes[j].root # 0
      BY <1>6, <1>8, <2>2, <2>3 DEF Seated
    <2>5. task[t].scopes[j] = his.scopes[j]
      BY <1>1, <1>6, <1>7, <2>2, <2>4, RowFacts DEF p
    <2>6. Seat(r) = his.scopes
      BY <1>4, <2>4 DEF Seat
    <2> QED
      BY <2>1, <2>5, <2>6
  <1>10. Seated(task', r)
    <2>1. his.back.src # 0 => task'[his.back.src].scopes = task[his.back.src].scopes
      BY <1>2, <1>8, OldRow
    <2> HIDE DEF his
    <2> QED
      BY <1>4, <1>8, <2>1 DEF Seated
  <1>11. ASSUME NEW i \in Id, IsOpen(d, i) PROVE Clear(task', task[i], r)
    <2>1. Clear(task, task[i], task[t])
      BY <1>1, <1>11, LeftOpen DEF d
    <2>2. ~ Fellows(task, task[i], task[t])
      BY <1>7 DEF Fellows
    <2> QED
      BY <1>9, <2>1, <2>2, HeirClear
  <1> HIDE DEF his
  <1> QED
    BY <1>1, <1>2, <1>3, <1>10, <1>11, OneRowSInv

LEMMA ExecuteSInv ==
  ASSUME NEW H, TokensApart, SInv(H), NEW t \in Id, NEW u \in User, Execute(t, u)
  PROVE  SInv(H)'
  <1>1. \A submit \in Submits : submit \in Submit
    BY InputAssumption DEF Submit
  <1>2. \A roster \in NextOps \cup SignOps : roster \in Roster
    BY InputAssumption
  <1>3. CASE executeReapply(t, u)
    BY <1>3, executeReapplySInv
  <1>4. ASSUME NEW submit \in Submits, ExecuteWait(t, u, submit)
        PROVE  SInv(H)'
    BY <1>1, <1>4, ExecuteWaitSInv
  <1>5. ASSUME NEW submit \in Submits, ExecuteNextMember(t, u, submit)
        PROVE  SInv(H)'
    BY <1>1, <1>5, ExecuteNextMemberSInv
  <1>6. ASSUME NEW submit \in Submits, NEW ops \in SignOps, ExecuteAddSign(t, u, submit, ops)
        PROVE  SInv(H)'
    BY <1>1, <1>2, <1>6, ExecuteAddSignSInv
  <1>7. ASSUME NEW submit \in Submits, NEW next \in NextOps, ExecuteAdvance(t, u, submit, next)
        PROVE  SInv(H)'
    BY <1>1, <1>2, <1>7, ExecuteAdvanceSInv
  <1> QED
    BY <1>3, <1>4, <1>5, <1>6, <1>7 DEF Execute

LEMMA RowCommandSInv ==
  ASSUME NEW H, NoWayBack(H), TokensApart, SInv(H), NEW t \in Id, NEW u \in User,
         RowCommand(t, u)
  PROVE  SInv(H)'
  <1>1. CASE Execute(t, u)
    BY <1>1, ExecuteSInv
  <1>2. CASE ExecuteAndJumpToEnd(t, u)
    BY <1>2, ExecuteAndJumpToEndSInv
  <1>3. CASE "rollback" \in Commands /\ rollbackToParent(t, u)
    BY <1>3, rollbackToParentSInv
  <1>4. CASE "return" \in Commands /\ Return(t, u)
    BY <1>4, ReturnForChangeSInv, ExecuteAndJumpToFirstTaskNodeSInv, ReturnFailsSInv DEF Return
  <1>5. "jump" \notin Commands /\ "recall" \notin Commands
    BY DEF TokensApart, BranchesMeet
  <1> QED
    BY <1>1, <1>2, <1>3, <1>4, <1>5 DEF RowCommand

LEMMA NextSInv ==
  ASSUME NEW H, NoWayBack(H), TokensApart, SInv(H), [Next]_vars
  PROVE  SInv(H)'
  <1>1. CASE Next
    BY <1>1, StepSInv, StartProcessInstanceSInv, RowCommandSInv, withdrawSInv DEF Next
  <1>2. CASE UNCHANGED vars
    <2>1. BranchesMeet /\ JInv(H)
      BY DEF TokensApart, SInv
    <2>2. JInv(H)'
      BY <1>2, <2>1, NextJInv
    <2>3. /\ state' = state /\ last' = last /\ task' = task /\ work' = work /\ saved' = saved
      BY <1>2 DEF vars
    <2> QED
      BY <2>2, <2>3, SInvNext DEF SInv, Current
  <1> QED
    BY <1>1, <1>2

LEMMA InitSInv ==
  ASSUME NEW H, Init
  PROVE  SInv(H)
  <1>1. JInv(H)
    BY InitJInv
  <1>2. state = "NONE" /\ last = 0 /\ work = << >> /\ saved = NoSnapshot
    BY DEF Init
  <1>3. Sorted(state, task, last, work)
    BY <1>2 DEF Sorted, AllSeated, Alone, Over
  <1>4. Sorted(NoSnapshot.state, NoSnapshot.task, NoSnapshot.last, << >>)
    BY DEF Sorted, AllSeated, Alone, Over, NoSnapshot
  <1> QED
    BY <1>1, <1>2, <1>3, <1>4 DEF SInv

\* Whatever is completed, returned, rolled back or aborted, any two tokens of an
\* instance are in two branches of one round, or are signers of one node, or a
\* row and one below it at one node with a dynamic countersign.
THEOREM ApartInductive == ASSUME TokensApart PROVE Spec => []SInv({})
  <1>1. Init => SInv({})
    BY InitSInv
  <1>2. SInv({}) /\ [Next]_vars => SInv({})'
    BY NextSInv DEF NoWayBack
  <1> QED
    BY <1>1, <1>2, PTL DEF Spec

\* An instance that has ended has no open row.
LEMMA OverClean ==
  ASSUME NEW H, SInv(H)
  PROVE  EndIsClean
  <1> SUFFICES ASSUME state = "DONE" PROVE DoingIn(task) = {}
    BY DEF EndIsClean
  <1>1. DOMAIN task = 1 .. last
    BY DEF SInv, JInv, IInv, TypeOK, Id
  <1> QED
    BY <1>1 DEF SInv, Sorted, Over, IsOpen, DoingIn

\* When a token reaches the end node, no branch, signer or applicant has been
\* left behind (executeNode sets the state whatever rows are open).
THEOREM NothingLeftBehind == ASSUME TokensApart PROVE Spec => []EndIsClean
  <1>1. SInv({}) => EndIsClean
    BY OverClean
  <1> QED
    BY <1>1, ApartInductive, PTL

\* No two open rows lie in the same branches, an applicant counted in the branch
\* that waits for it, where the branches have neither members nor added signers.
THEOREM SoleToken ==
  ASSUME TokensApart, \A n \in Shared : ScopesOfNode[n] = {}
  PROVE  Spec => []OneTokenPerBranch
  <1>1. SInv({}) => OneTokenPerBranch
    <2> SUFFICES ASSUME SInv({}), NEW i \in DoingIn(task), NEW k \in DoingIn(task),
                        Seat(task[i]) # NoScopes, Seat(task[i]) = Seat(task[k]), i # k
                 PROVE  FALSE
      BY DEF OneTokenPerBranch, Seat
    <2>1. /\ i \in 1 .. last /\ k \in 1 .. last /\ IsOpen(task, i) /\ IsOpen(task, k)
          /\ JInv({}) /\ task[i].scopes \in [Join -> Scope] /\ i \in Id
      BY DEF SInv, JInv, IInv, TypeOK, Id, DoingIn, IsOpen, Row
    <2>2. Clear(task, task[i], task[k]) /\ Seated(task, task[i])
      BY <2>1 DEF SInv, Sorted, Alone, AllSeated
    <2>3. ~ Diverge(Seat(task[i]), Seat(task[k]))
      BY DEF Diverge, Differ
    <2>4. task[i].node \in Shared
      BY <2>2, <2>3 DEF Clear, Fellows
    <2>5. ScopesOfNode[task[i].node] = {} /\ task[i].node \notin FirstTaskNode
      BY <2>4 DEF TokensApart
    <2>6. task[i].back.src = 0
      BY <2>2, <2>5 DEF Seated
    <2>7. \A j \in Join : task[i].scopes[j].root = 0
      BY <2>1, <2>5, RowFacts
    <2>8. \A j \in Join : task[i].scopes[j] = NoScope
      BY <2>2, <2>7 DEF Seated
    <2>9. task[i].scopes = NoScopes
      BY <2>1, <2>8 DEF NoScopes
    <2> QED
      BY <2>6, <2>9 DEF Seat
  <1> QED
    BY <1>1, ApartInductive, PTL

-----------------------------------------------------------------------------
(* A round has a branch for each edge of its fork: the inductive invariant.  *)

\* The rows with which the branches of round r of join j start, and the tokens
\* that are to start one, by their height on the stack.
Roots(d, n, j, r) == { i \in 1 .. n : d[i].scopes[j].root = i /\ d[i].scopes[j].round = r }
Due(j, w) == { h \in 1 .. Len(w) : Comes(j, w[Len(w) + 1 - h].node) }
Whole(d, n, w, j, r, f) ==
  Cardinality(Roots(d, n, j, r)) + Cardinality(Due(j, w)) >= Len(Flow.succ[f])

\* All rounds but the one that starts at row p.
Counted(d, n, p) ==
  \A j \in Join, r \in 1 .. n :
    r # p /\ Roots(d, n, j, r) # {} => \A f \in ForkOf[j] : Whole(d, n, << >>, j, r, f)

\* The tokens of a walk from row p have still to come to the fork, or it has been
\* executed and they start the branches that are missing.
Begins(d, n, w, j, p, f) ==
  Roots(d, n, j, p) # {} \/ \E a \in 1 .. Len(w) : ~ ByFork(j, f, w[a].node)
Filled(d, n, w, p, j) ==
  IF Outside(d, p, j)
  THEN \A f \in ForkOf[j] :
         /\ \A a \in 1 .. Len(w) : ByFork(j, f, w[a].node) \/ Comes(j, w[a].node)
         /\ Begins(d, n, w, j, p, f) => Whole(d, n, w, j, p, f)
  ELSE Roots(d, n, j, p) = {}
Filling(d, n, w, p) == Counted(d, n, p) /\ (p # 0 => \A j \in Join : Filled(d, n, w, p, j))

Lodged(d, n) == AllSeated(d, n) /\ Counted(d, n, 0)
BInv ==
  /\ JInv({}) /\ AllSeated(task, last) /\ Lodged(saved.task, saved.last)
  /\ IF work = << >> THEN Counted(task, last, 0) ELSE Filling(task, last, work, Current.parent)

LEMMA BInvNext ==
  ASSUME JInv({})', AllSeated(task', last'), Lodged(saved'.task, saved'.last),
         work' = << >> => Counted(task', last', 0),
         work' # << >> => Filling(task', last', work', Head(work').parent)
  PROVE  BInv'
  <1>1. BInv' <=> /\ JInv({})' /\ AllSeated(task', last') /\ Lodged(saved'.task, saved'.last)
                  /\ IF work' = << >> THEN Counted(task', last', 0)
                     ELSE Filling(task', last', work', Head(work').parent)
    BY DEF BInv, Lodged, AllSeated, Seated, Counted, Filling, Filled, Begins, Whole, Roots, Due,
           ByFork, Comes, Outside, Enters, Within, MetBefore, ClosedBefore, Met, Closed, Current
  <1> QED
    BY <1>1

LEMMA RunLodged ==
  ASSUME BInv, NEW w, NEW c, Run(w, c)
  PROVE  Lodged(saved'.task, saved'.last) /\ work' = w
  <1>1. Lodged(NoSnapshot.task, NoSnapshot.last)
    BY DEF Lodged, AllSeated, Counted, NoSnapshot
  <1>2. Idle => Lodged(Snapshot.task, Snapshot.last)
    BY DEF BInv, Lodged, Snapshot, Idle
  <1>3. Lodged(saved.task, saved.last)
    BY DEF BInv
  <1> QED
    BY <1>1, <1>2, <1>3 DEF Run

\* What is counted is finite, and more of it does not make a round less whole.
LEMMA RootsCount ==
  ASSUME NEW d, NEW n \in Nat, NEW j, NEW r
  PROVE  IsFiniteSet(Roots(d, n, j, r)) /\ Cardinality(Roots(d, n, j, r)) \in Nat
  <1>1. IsFiniteSet(1 .. n) /\ Roots(d, n, j, r) \subseteq 1 .. n
    BY FS_Interval DEF Roots
  <1> QED
    BY <1>1, FS_Subset, FS_CardinalityType

LEMMA DueCount ==
  ASSUME NEW j, NEW w \in Seq(WorkItem)
  PROVE  IsFiniteSet(Due(j, w)) /\ Cardinality(Due(j, w)) \in Nat
  <1>1. IsFiniteSet(1 .. Len(w)) /\ Due(j, w) \subseteq 1 .. Len(w)
    BY FS_Interval DEF Due
  <1> QED
    BY <1>1, FS_Subset, FS_CardinalityType

LEMMA WholeMore ==
  ASSUME NEW d, NEW n \in Nat, NEW w \in Seq(WorkItem), NEW j, NEW r, NEW f \in Node,
         NEW e, NEW m \in Nat, NEW x \in Seq(WorkItem),
         Roots(d, n, j, r) \subseteq Roots(e, m, j, r), Due(j, w) \subseteq Due(j, x),
         Whole(d, n, w, j, r, f)
  PROVE  Whole(e, m, x, j, r, f)
  <1>1. /\ Cardinality(Roots(d, n, j, r)) <= Cardinality(Roots(e, m, j, r))
        /\ Cardinality(Due(j, w)) <= Cardinality(Due(j, x))
    BY RootsCount, DueCount, FS_Subset
  <1>2. /\ Cardinality(Roots(d, n, j, r)) \in Nat /\ Cardinality(Roots(e, m, j, r)) \in Nat
        /\ Cardinality(Due(j, w)) \in Nat /\ Cardinality(Due(j, x)) \in Nat
        /\ Len(Flow.succ[f]) \in Nat
    BY RootsCount, DueCount, PropTyped
  <1> QED
    BY <1>1, <1>2 DEF Whole

\* A round starts at an older row than those that lie in it, and a command adds
\* roots only with new rows.
LEMMA RootsKept ==
  ASSUME JInv({}), Evolves({}, task', last'), NEW j \in Join, NEW r
  PROVE  /\ Roots(task, last, j, r) \subseteq Roots(task', last', j, r)
         /\ \A i \in Roots(task', last', j, r) :
              i \in Roots(task, last, j, r) \/ i \in last+1 .. last'
         /\ r \in Nat /\ r > last => Roots(task, last, j, r) = {}
  <1>1. /\ last \in Nat /\ last' \in Nat /\ last <= last'
        /\ \A i \in Id : task'[i].scopes = task[i].scopes
    BY DEF Evolves, JInv, IInv, TypeOK
  <1>2. ASSUME NEW i \in Roots(task, last, j, r), r \in Nat
        PROVE  r < i /\ i \in 1 .. last
    <2>1. i \in 1 .. last /\ ScopeOK(task, i, j, task[i].scopes[j])
      BY DEF Roots, JInv, IInv, Sound, ScopesOK
    <2> QED
      BY <2>1 DEF ScopeOK, Roots
  <1>3. r \in Nat /\ r > last => Roots(task, last, j, r) = {}
    BY <1>1, <1>2
  <1>4. Roots(task, last, j, r) \subseteq Roots(task', last', j, r)
    BY <1>1 DEF Roots, Id
  <1>5. \A i \in Roots(task', last', j, r) : i \in Roots(task, last, j, r) \/ i \in last+1 .. last'
    BY <1>1 DEF Roots, Id
  <1> QED
    BY <1>3, <1>4, <1>5

\* New rows start branches of the round of row p alone.
LEMMA CountedNext ==
  ASSUME JInv({}), Evolves({}, task', last'), NEW p \in Nat, Counted(task, last,
         0) \/ Counted(task, last, p),
         \A x \in last+1 .. last', j \in Join :
           task'[x].scopes[j].root = x => task'[x].scopes[j].round = p
  PROVE  Counted(task', last', p)
  <1> SUFFICES ASSUME NEW j \in Join, NEW r \in 1 .. last', r # p, Roots(task', last', j, r) # {},
                      NEW f \in ForkOf[j]
               PROVE  Whole(task', last', << >>, j, r, f)
    BY DEF Counted
  <1>1. /\ Roots(task, last, j, r) \subseteq Roots(task', last', j, r)
        /\ \A i \in Roots(task', last', j, r) :
             i \in Roots(task, last, j, r) \/ i \in last+1 .. last'
        /\ r \in Nat /\ r > last => Roots(task, last, j, r) = {}
    BY RootsKept
  <1>2. \A i \in Roots(task', last', j, r) : i \notin last+1 .. last'
    BY DEF Roots
  <1>3. Roots(task', last', j, r) = Roots(task, last, j, r)
    BY <1>1, <1>2
  <1>4. last \in Nat /\ r \in 1 .. last
    BY <1>1, <1>3 DEF JInv, IInv, TypeOK, Evolves
  <1>5. Whole(task, last, << >>, j, r, f)
    BY <1>3, <1>4 DEF Counted
  <1> QED
    BY <1>3, <1>5 DEF Whole

\* A command that executes no node: its rows start no branch.
NoRoot == \A x \in last+1 .. last', j \in Join : task'[x].scopes[j].root # x

LEMMA StayBInv ==
  ASSUME BInv, Idle, JInv({})', Evolves({}, task', last'), NewSeated, NoRoot,
         work' = work, saved' = saved
  PROVE  BInv'
  <1>1. IInv({}) /\ JInv({}) /\ AllSeated(task, last) /\ Counted(task, last, 0)
    BY DEF BInv, JInv, Idle
  <1>2. AllSeated(task', last')
    BY <1>1, SeatedNext DEF NewSeated
  <1>3. Counted(task', last', 0)
    BY <1>1, CountedNext DEF NoRoot
  <1>4. Lodged(saved'.task, saved'.last) /\ work' = << >>
    BY DEF BInv, Idle
  <1> QED
    BY <1>2, <1>3, <1>4, BInvNext

\* A command that sends tokens on their way, from row t, which it has completed.
LEMMA GoBInv ==
  ASSUME BInv, Idle, JInv({})', Evolves({}, task', last'), last' = last,
         NEW t \in Id, task[t].st = "DOING", NEW w \in Seq(WorkItem), NEW c, Run(w, c),
         \A a \in 1 .. Len(w) : w[a].parent = t,
         \A j \in Join : task[t].scopes[j].root = 0 =>
           \A f \in ForkOf[j], a \in 1 .. Len(w) : ByFork(j, f, w[a].node)
  PROVE  BInv'
  <1>1. /\ IInv({}) /\ JInv({}) /\ AllSeated(task, last) /\ Counted(task, last, 0) /\ last \in Nat
        /\ t # 0 /\ t \in Nat
    BY CommandRow DEF BInv, JInv, Idle, Id
  <1>2. last+1 .. last' = {}
    BY <1>1
  <1>3. AllSeated(task', last')
    BY <1>1, <1>2, SeatedNext
  <1>4. Counted(task', last', t) /\ Counted(task', last', 0)
    BY <1>1, <1>2, CountedNext
  <1>5. \A j \in Join : Roots(task', last', j, t) = {}
    <2> SUFFICES ASSUME NEW j \in Join, NEW i \in Roots(task', last', j, t) PROVE FALSE
      OBVIOUS
    <2>1. i \in Roots(task, last, j, t)
      BY <1>1, <1>2, RootsKept
    <2>2. i \in Id /\ Suits(task, task[i])
      BY <1>1, <2>1 DEF Roots, Id, JInv, AllSuit
    <2>3. task[i].scopes[j].root = i /\ task[i].scopes[j].round = t /\ i # 0
      BY <1>1, <2>1, <2>2 DEF Roots, Id
    <2>4. Handled(task[t])
      BY <1>1, <2>2, <2>3 DEF Suits
    <2> QED
      BY <2>4 DEF Handled
  <1>6. ASSUME NEW j \in Join PROVE Filled(task', last', w, t, j)
    <2>1. Outside(task', t, j) => task[t].scopes[j].root = 0
      BY <1>1, OldRow DEF Outside
    <2>2. ASSUME Outside(task', t, j), NEW f \in ForkOf[j], NEW a \in 1 .. Len(w)
          PROVE  ByFork(j, f, w[a].node)
      BY <2>1, <2>2
    <2>3. ASSUME Outside(task', t, j), NEW f \in ForkOf[j]
          PROVE  ~ Begins(task', last', w, j, t, f)
      BY <1>5, <2>2, <2>3 DEF Begins
    <2> QED
      BY <1>5, <2>2, <2>3 DEF Filled
  <1>7. Filling(task', last', w, t)
    BY <1>4, <1>6 DEF Filling
  <1>8. w # << >> => Head(w).parent = t
    <2> SUFFICES ASSUME w # << >> PROVE Head(w).parent = t
      OBVIOUS
    <2>1. Len(w) \in Nat \ {0} /\ Head(w) = w[1]
      OBVIOUS
    <2> QED
      BY <2>1
  <1>9. Lodged(saved'.task, saved'.last) /\ work' = w
    BY RunLodged
  <1> QED
    BY <1>3, <1>4, <1>7, <1>8, <1>9, BInvNext

\* When the walk is over all rounds are whole.
LEMMA FilledWhole ==
  ASSUME NEW d, NEW n \in Nat, NEW p, Filling(d, n, << >>, p)
  PROVE  Counted(d, n, 0)
  <1> SUFFICES ASSUME NEW j \in Join, NEW r \in 1 .. n, Roots(d, n, j, r) # {}, NEW f \in ForkOf[j]
               PROVE  Whole(d, n, << >>, j, r, f)
    BY DEF Counted
  <1>1. CASE r # p
    BY <1>1 DEF Filling, Counted
  <1>2. CASE r = p
    <2>1. p # 0
      BY <1>2
    <2>2. Filled(d, n, << >>, p, j) /\ Begins(d, n, << >>, j, p, f)
      BY <1>2, <2>1 DEF Filling, Begins
    <2> QED
      BY <1>2, <2>2 DEF Filled
  <1> QED
    BY <1>1, <1>2

\* A step of the walk, which leaves the tokens s.
LEMMA StepOnBInv ==
  ASSUME BInv, ~ Idle, JInv({})', Evolves({}, task', last'), NewSeated,
         NEW s \in Seq(WorkItem), \A a \in 1 .. Len(s) : s[a].parent = Current.parent, Run(s, cmd),
         Filling(task', last', s, Current.parent)
  PROVE  BInv'
  <1>1. IInv({}) /\ AllSeated(task, last) /\ last' \in Nat
    BY DEF BInv, JInv, Evolves
  <1>2. AllSeated(task', last')
    BY <1>1, SeatedNext DEF NewSeated
  <1>3. s = << >> => Counted(task', last', 0)
    BY <1>1, FilledWhole
  <1>4. s # << >> => Head(s).parent = Current.parent
    <2> SUFFICES ASSUME s # << >> PROVE Head(s).parent = Current.parent
      OBVIOUS
    <2>1. Len(s) \in Nat \ {0} /\ Head(s) = s[1]
      OBVIOUS
    <2> QED
      BY <2>1
  <1>5. Lodged(saved'.task, saved'.last) /\ work' = s
    BY RunLodged
  <1> QED
    BY <1>2, <1>3, <1>4, <1>5, BInvNext

-----------------------------------------------------------------------------
(* The steps of the walk. *)

LEMMA TokenComes ==
  ASSUME NEW m \in Node, NEW x \in outgoingTargets(Flow, m), Flow.type[m] # "task", NEW j, NEW f
  PROVE  /\ Comes(j, m) => Comes(j, x)
         /\ m # f /\ ByFork(j, f, m) => ByFork(j, f, x)
  <1>1. Met({x}) \subseteq Met({m})
    BY MetFrom
  <1>2. Comes(j, m) => Comes(j, x)
    BY <1>1, EntersOn DEF Comes
  <1>3. m # f /\ ByFork(j, f, m) => ByFork(j, f, x)
    BY MetBeforeFrom DEF ByFork
  <1> QED
    BY <1>2, <1>3

LEMMA DueHere ==
  ASSUME work \in Seq(WorkItem), work # << >>, NEW j
  PROVE  /\ Due(j, Tail(work)) = Due(j, work) \ {Len(work)}
         /\ Len(work) \in Due(j, work) <=> Comes(j, Current.node)
  <1>1. /\ Len(work) \in Nat \ {0} /\ Current = work[1] /\ Tail(work) \in Seq(WorkItem)
        /\ Len(Tail(work)) = Len(work) - 1
        /\ \A k \in 1 .. Len(work) - 1 : Tail(work)[k] = work[k+1]
    BY DEF Current
  <1> DEFINE L == Len(work)
             v == Tail(work)
  <1> HIDE DEF v
  <1>2. \A h \in 1 .. L - 1 : v[Len(v) + 1 - h] = work[L + 1 - h]
    <2> SUFFICES ASSUME NEW h \in 1 .. L - 1 PROVE v[L - h] = work[L + 1 - h]
      BY <1>1 DEF v
    <2>1. L - h \in 1 .. L - 1 /\ (L - h) + 1 = L + 1 - h
      BY <1>1
    <2> QED
      BY <1>1, <2>1 DEF v
  <1>3. Len(v) = L - 1 /\ L \in Nat \ {0}
    BY <1>1 DEF v
  <1>4. L + 1 - L = 1 /\ L \in 1 .. L
    BY <1>1
  <1>5. L \in Due(j, work) <=> Comes(j, Current.node)
    BY <1>1, <1>4 DEF Due
  <1> HIDE DEF L
  <1>6. Due(j, v) = Due(j, work) \ {L}
    <2>1. Due(j, v) = { h \in 1 .. L - 1 : Comes(j, work[L + 1 - h].node) }
      BY <1>2, <1>3 DEF Due
    <2>2. Due(j, work) = { h \in 1 .. L : Comes(j, work[L + 1 - h].node) }
      BY DEF Due, L
    <2>3. 1 .. L - 1 = (1 .. L) \ {L}
      BY <1>3
    <2> QED
      BY <2>1, <2>2, <2>3
  <1> QED
    BY <1>5, <1>6 DEF v, L

LEMMA DueOn ==
  ASSUME work \in Seq(WorkItem), work # << >>, NEW w \in Seq(WorkItem), NEW j
  PROVE  LET s == w \o Tail(work)
         IN  /\ Due(j, Tail(work)) \subseteq Due(j, s)
             /\ (\A b \in 1 .. Len(w) : Comes(j, w[b].node)) =>
                  Len(work) .. Len(work) + Len(w) - 1 \subseteq Due(j, s)
  <1> DEFINE v == Tail(work)
             s == w \o v
             L == Len(v)
             K == Len(w)
  <1>1. v \in Seq(WorkItem) /\ L \in Nat /\ K \in Nat /\ Len(work) = L + 1
    OBVIOUS
  <1> HIDE DEF v
  <1>2. Len(s) = K + L /\ \A i \in 1 .. K + L : s[i] = IF i <= K THEN w[i] ELSE v[i - K]
    BY <1>1, ConcatProperties
  <1> HIDE DEF s
  <1>3. ASSUME NEW h \in 1 .. L
        PROVE  h \in 1 .. Len(s) /\ s[Len(s) + 1 - h] = v[L + 1 - h]
    <2> HIDE DEF L, K
    <2>1. K + L + 1 - h \in 1 .. K + L /\ ~ (K + L + 1 - h <= K) /\ (K + L + 1 - h) - K = L + 1 - h
          /\ h \in 1 .. K + L
      BY <1>1
    <2> QED
      BY <1>2, <2>1
  <1>4. ASSUME NEW h \in L + 1 .. L + K
        PROVE  h \in 1 .. Len(s) /\ \E b \in 1 .. K : s[Len(s) + 1 - h] = w[b]
    <2> HIDE DEF L, K
    <2>1. /\ K + L + 1 - h \in 1 .. K + L /\ K + L + 1 - h <= K /\ K + L + 1 - h \in 1 .. K
          /\ h \in 1 .. K + L
      BY <1>1
    <2> QED
      BY <1>2, <2>1
  <1>5. Due(j, v) \subseteq Due(j, s)
    BY <1>3 DEF Due
  <1>6. (\A b \in 1 .. K : Comes(j, w[b].node)) => L + 1 .. L + K \subseteq Due(j, s)
    BY <1>4 DEF Due
  <1>7. Len(work) .. Len(work) + Len(w) - 1 = L + 1 .. L + K
    BY <1>1
  <1> QED
    BY <1>5, <1>6, <1>7 DEF v, s

LEMMA Between ==
  ASSUME NEW a \in Int, NEW k \in Nat
  PROVE  Cardinality(a .. a + k - 1) = k
  <1> DEFINE b == a + k - 1
  <1>1. b \in Int /\ b - a + 1 = k /\ (a > b => k = 0)
    OBVIOUS
  <1> HIDE DEF b
  <1>2. Cardinality(a .. b) = IF a > b THEN 0 ELSE b - a + 1
    BY <1>1, FS_Interval
  <1>3. Cardinality(a .. b) = k
    BY <1>1, <1>2
  <1> QED
    BY <1>3 DEF b

\* The walk goes on with the tokens w and starts no branch by the way.
LEMMA WalkFilling ==
  ASSUME ForksBegin, BInv, ~ Idle, Evolves({}, task', last'), NoRoot,
         NEW w \in Seq(WorkItem), Onward(w),
         \A j \in Join : Comes(j, Current.node) => w # << >>,
         \A j \in Join : Current.node \in ForkOf[j] => Len(w) = Len(Flow.succ[Current.node])
  PROVE  Filling(task', last', w \o Tail(work), Current.parent)
  <1> DEFINE p == Current.parent
             m == Current.node
             v == Tail(work)
             s == w \o v
  <1>0. /\ m \in Node /\ p \in 0 .. last /\ IInv({}) /\ last \in Nat /\ last' \in Nat /\ JInv({})
        /\ \A b \in 1 .. Len(w) : w[b].node \in outgoingTargets(Flow, m) /\ Flow.type[m] # "task"
        /\ work \in Seq(WorkItem) /\ work # << >> /\ Filling(task, last, work, p)
    BY Underway DEF Onward, BInv, Evolves, JInv, IInv, TypeOK, Idle
  <1>1. /\ \A a \in 1 .. Len(s) : \/ \E b \in 1 .. Len(w) : s[a] = w[b]
                                  \/ \E b \in 2 .. Len(work) : s[a] = work[b]
        /\ Len(work) \in Nat \ {0} /\ Current = work[1] /\ 1 \in 1 .. Len(work) /\ Len(w) \in Nat
    <2>1. /\ \A a \in 1 .. Len(s) : \/ \E b \in 1 .. Len(w) : s[a] = w[b]
                                    \/ \E b \in 2 .. Len(work) : s[a] = work[b]
          /\ Len(work) \in Nat \ {0} /\ Current = work[1]
      BY <1>0, Tokens
    <2>2. 1 \in 1 .. Len(work) /\ Len(w) \in Nat
      BY <2>1
    <2> QED
      BY <2>1, <2>2
  <1>2. v \in Seq(WorkItem) /\ s \in Seq(WorkItem)
    <2>1. v \in Seq(WorkItem)
      BY <1>0
    <2> HIDE DEF v
    <2> QED
      BY <2>1, ConcatProperties
  <1>3. Counted(task', last', p)
    <2>1. p \in Nat /\ Counted(task, last, p)
      BY <1>0 DEF Filling
    <2> QED
      BY <1>0, <2>1, CountedNext DEF NoRoot
  <1>4. ASSUME NEW j \in Join PROVE Roots(task', last', j, p) = Roots(task, last, j, p)
    <2>1. \A i \in Roots(task', last', j, p) : i \notin last+1 .. last'
      BY DEF NoRoot, Roots
    <2> QED
      BY <1>0, <2>1, RootsKept
  <1>5. ASSUME NEW j \in Join
        PROVE  /\ Due(j, v) = Due(j, work) \ {Len(work)}
               /\ Len(work) \in Due(j, work) <=> Comes(j, m)
               /\ Due(j, v) \subseteq Due(j, s)
               /\ (\A b \in 1 .. Len(w) : Comes(j, w[b].node)) =>
                    Len(work) .. Len(work) + Len(w) - 1 \subseteq Due(j, s)
    BY <1>0, DueHere, DueOn
  <1> HIDE DEF v, s
  <1>6. ASSUME NEW j \in Join, p # 0, Outside(task', p, j), NEW f \in ForkOf[j]
        PROVE  /\ \A a \in 1 .. Len(s) : ByFork(j, f, s[a].node) \/ Comes(j, s[a].node)
               /\ Begins(task', last', s, j, p, f) => Whole(task', last', s, j, p, f)
    <2>1. Outside(task, p, j) /\ Filled(task, last, work, p, j)
      BY <1>0, <1>6, OldWay DEF Filling
    <2>2. /\ \A a \in 1 .. Len(work) : ByFork(j, f, work[a].node) \/ Comes(j, work[a].node)
          /\ Begins(task, last, work, j, p, f) => Whole(task, last, work, j, p, f)
      BY <2>1 DEF Filled
    <2>3. f \in OfType(Flow, "fork") /\ f \in Node /\ \A x \in outgoingTargets(Flow, f) : Comes(j, x)
      BY DEF ForksBegin, OfType, Node
    <2>4. ASSUME NEW b \in 1 .. Len(w)
          PROVE  /\ ByFork(j, f, w[b].node) \/ Comes(j, w[b].node)
                 /\ m # f /\ ByFork(j, f, m) => ByFork(j, f, w[b].node)
                 /\ m = f \/ Comes(j, m) => Comes(j, w[b].node)
      <3>1. ByFork(j, f, m) \/ Comes(j, m)
        BY <1>1, <2>2
      <3> QED
        BY <1>0, <2>3, <3>1, TokenComes
    <2>5. \A a \in 1 .. Len(s) : ByFork(j, f, s[a].node) \/ Comes(j, s[a].node)
      BY <1>1, <2>2, <2>4, SMTT(30)
    <2>6. CASE m = f
      <3>1. Len(work) .. Len(work) + Len(w) - 1 \subseteq Due(j, s) /\ Len(w) = Len(Flow.succ[f])
        BY <1>5, <2>4, <2>6
      <3>2. IsFiniteSet(Due(j, s)) /\ Cardinality(Due(j, s)) \in Nat
        BY <1>2, DueCount
      <3>3. Cardinality(Len(work) .. Len(work) + Len(w) - 1) = Len(w)
        <4>1. Len(work) \in Int /\ Len(w) \in Nat
          BY <1>1
        <4> QED
          BY <4>1, Between
      <3>4. Cardinality(Due(j, s)) >= Len(w)
        BY <3>1, <3>2, <3>3, FS_Subset
      <3>5. Cardinality(Roots(task', last', j, p)) \in Nat
        BY <1>0, RootsCount
      <3>6. Whole(task', last', s, j, p, f)
        BY <1>1, <3>1, <3>2, <3>4, <3>5 DEF Whole
      <3> QED
        BY <2>5, <3>6
    <2>7. CASE m # f
      <3>1. Begins(task', last', s, j, p, f) => Begins(task, last, work, j, p, f)
        BY <1>1, <1>4, <2>4, <2>7 DEF Begins
      <3>2. Due(j, work) \subseteq Due(j, s)
        <4>1. CASE Comes(j, m)
          <5>1. w # << >> /\ Len(work) .. Len(work) + Len(w) - 1 \subseteq Due(j, s)
            BY <1>5, <2>4, <4>1
          <5>2. Len(w) > 0
            BY <5>1
          <5>3. Len(work) \in Len(work) .. Len(work) + Len(w) - 1
            BY <1>1, <5>2
          <5> QED
            BY <1>5, <5>1, <5>3
        <4>2. CASE ~ Comes(j, m)
          BY <1>5, <4>2
        <4> QED
          BY <4>1, <4>2
      <3>3. Whole(task, last, work, j, p, f) => Whole(task', last', s, j, p, f)
        BY <1>0, <1>2, <1>4, <2>3, <3>2, WholeMore
      <3> QED
        BY <2>2, <2>5, <3>1, <3>3
    <2> QED
      BY <2>6, <2>7
  <1>7. ASSUME NEW j \in Join, p # 0, ~ Outside(task', p, j)
        PROVE  Roots(task', last', j, p) = {}
    <2>1. ~ Outside(task, p, j) /\ Filled(task, last, work, p, j)
      BY <1>0, <1>7, OldWay DEF Filling
    <2> QED
      BY <1>4, <2>1 DEF Filled
  <1>8. p # 0 => \A j \in Join : Filled(task', last', s, p, j)
    BY <1>6, <1>7 DEF Filled
  <1> QED
    BY <1>3, <1>8 DEF Filling, s, v

\* A token that is to start a branch does not end and does not come to a join.
LEMMA ComesNode ==
  ASSUME NEW m \in Node, NEW j, Comes(j, m)
  PROVE  /\ m \notin Join /\ Flow.type[m] \in Serving /\ Flow.type[m] # "end"
         /\ Flow.succ[m] = << >> => Flow.type[m] \in {"task", "decision"}
  <1>1. m \in Met({m})
    BY MetHas
  <1>2. m \notin Join /\ m \notin OfType(Flow, "end")
    BY <1>1 DEF Comes, Enters, Within
  <1> QED
    BY <1>1, <1>2 DEF Comes, OfType, Node

LEMMA ForkIsFork ==
  ASSUME ForksBegin, NEW j \in Join, NEW f \in ForkOf[j]
  PROVE  f \in Node /\ Flow.type[f] = "fork"
  BY DEF ForksBegin, OfType, Node

LEMMA WalkBInv ==
  ASSUME ForksBegin, BInv, ~ Idle, JInv({})', Evolves({}, task', last'), NewSeated, NoRoot,
         NEW w \in Seq(WorkItem), Onward(w),
         \A j \in Join : Comes(j, Current.node) => w # << >>,
         Flow.type[Current.node] = "fork" => Len(w) = Len(Flow.succ[Current.node]),
         Run(w \o Tail(work), cmd)
  PROVE  BInv'
  <1> DEFINE s == w \o Tail(work)
  <1>1. JInv({})
    BY DEF BInv
  <1>2. \A a \in 1 .. Len(s) : s[a].parent = Current.parent
    BY <1>1, WalkJoinless
  <1>3. s \in Seq(WorkItem)
    BY <1>1, CurrentTyped, ConcatProperties DEF JInv
  <1>4. \A j \in Join : Current.node \in ForkOf[j] => Len(w) = Len(Flow.succ[Current.node])
    BY ForkIsFork
  <1>5. Filling(task', last', s, Current.parent)
    BY <1>4, WalkFilling
  <1>6. Run(s, cmd)
    OBVIOUS
  <1> HIDE DEF s
  <1> QED
    BY <1>2, <1>3, <1>5, <1>6, StepOnBInv

\* A step that leaves the table alone.
LEMMA PassBInv ==
  ASSUME ForksBegin, BInv, ~ Idle, JInv({})', UNCHANGED <<task, last>>,
         NEW w \in Seq(WorkItem), Onward(w),
         \A j \in Join : Comes(j, Current.node) => w # << >>,
         Flow.type[Current.node] = "fork" => Len(w) = Len(Flow.succ[Current.node]),
         Run(w \o Tail(work), cmd)
  PROVE  BInv'
  <1>1. IInv({}) /\ last \in Nat
    BY Underway DEF BInv
  <1>2. Evolves({}, task', last') /\ last+1 .. last' = {}
    BY <1>1, SameTable
  <1> QED
    BY <1>2, WalkBInv DEF NewSeated, NoRoot

LEMMA ChildrenCount ==
  ASSUME NEW n \in Node, NEW p
  PROVE  /\ Len(Children(n, p)) = Len(Flow.succ[n])
         /\ Children(n, p) = << >> => Flow.succ[n] = << >>
  <1>1. Len(Flow.succ[n]) \in Nat /\ Flow.succ[n] \in Seq(Node)
    BY PropTyped
  <1>2. Len(Children(n, p)) = Len(Flow.succ[n])
    BY <1>1 DEF Children
  <1>3. Children(n, p) = << >> => Len(Children(n, p)) = 0
    OBVIOUS
  <1> QED
    BY <1>1, <1>2, <1>3

LEMMA PushBInv ==
  ASSUME ForksBegin, BInv, ~ Idle, JInv({})', UNCHANGED <<task, last>>,
         Flow.type[Current.node] \notin {"task", "decision"},
         Current.node \in Join => mergeReady(Current.node, Current.parent),
         PushChildren(Current.node, Current.parent)
  PROVE  BInv'
  <1> DEFINE w == Children(Current.node, Current.parent)
  <1>1. JInv({}) /\ Current.node \in Node /\ BranchesMeet
    BY Underway DEF BInv, ForksBegin
  <1>2. w \in Seq(WorkItem) /\ Onward(w)
    BY <1>1, ChildrenOnward
  <1>3. /\ Len(w) = Len(Flow.succ[Current.node])
        /\ w = << >> => Flow.succ[Current.node] = << >>
    BY <1>1, ChildrenCount
  <1>4. Run(w \o Tail(work), cmd)
    BY DEF PushChildren
  <1> HIDE DEF w
  <1>5. \A j \in Join : Comes(j, Current.node) => w # << >>
    BY <1>1, <1>3, ComesNode
  <1> QED
    BY <1>2, <1>3, <1>4, <1>5, PassBInv

LEMMA UnwindBInv ==
  ASSUME ForksBegin, BInv, ~ Idle, JInv({})', UNCHANGED <<task, last>>, Unwind,
         Current.node \in Join \/ Flow.type[Current.node] \notin Serving \ {"end"},
         Flow.type[Current.node] # "fork"
  PROVE  BInv'
  <1>1. IInv({}) /\ Current.node \in Node
    BY Underway DEF BInv
  <1>2. Run(<< >> \o Tail(work), cmd)
    BY <1>1, UnwindIsRun
  <1>3. \A j \in Join : ~ Comes(j, Current.node)
    BY <1>1, ComesNode
  <1> QED
    BY <1>1, <1>2, <1>3, NoneOnward, PassBInv

LEMMA execCustomNodeBInv ==
  ASSUME ForksBegin, BInv, execCustomNode
  PROVE  BInv'
  <1> DEFINE n == Current.node
             p == Current.parent
             r == [NewRow(n, p, {cmd.user}) EXCEPT !.st = "DONE", !.by = cmd.user]
             w == Children(n, p)
  <1>0. /\ ~ Idle /\ IInv({}) /\ Flow.type[n] = "custom" /\ JInv({}) /\ BranchesMeet
        /\ Evolves({}, task', last') /\ JInv({})'
    BY execCustomNodeKeeps, execCustomNodeJInv DEF execCustomNode, Executing, BInv, JInv, ForksBegin
  <1>1. n \in Node /\ last \in Nat
    BY <1>0, Underway
  <1>2. task' = Appended(task, << r >>) /\ last' = last + 1 /\ Run(w \o Tail(work), cmd)
    BY DEF execCustomNode, PushChildren
  <1>3. r.node = n /\ r.back = NoBack /\ r.scopes = NoScopes
    BY DEF NewRow
  <1> HIDE DEF r
  <1>4. \A x \in last+1 .. last' : task'[x] = r /\ x # 0
    BY <1>1, <1>2, AppendedRow
  <1>5. NewSeated
    BY <1>0, <1>3, <1>4, BareSeated DEF NewSeated
  <1>6. NoRoot
    BY <1>3, <1>4 DEF NoRoot, NoScopes, NoScope
  <1>7. /\ w \in Seq(WorkItem) /\ Onward(w) /\ Len(w) = Len(Flow.succ[n])
        /\ w = << >> => Flow.succ[n] = << >>
    <2>1. n \notin Join
      BY <1>0 DEF Join, OfType
    <2> QED
      BY <1>0, <1>1, <2>1, ChildrenOnward, ChildrenCount
  <1> HIDE DEF w
  <1>8. \A j \in Join : Comes(j, n) => w # << >>
    BY <1>0, <1>1, <1>7, ComesNode
  <1> QED
    BY <1>0, <1>2, <1>5, <1>6, <1>7, <1>8, WalkBInv

LEMMA evaluateDecisionBInv ==
  ASSUME ForksBegin, BInv, evaluateDecision
  PROVE  BInv'
  <1>0. /\ ~ Idle /\ Flow.type[Current.node] = "decision" /\ JInv({}) /\ JInv({})'
        /\ UNCHANGED <<task, last>>
    BY evaluateDecisionJInv DEF evaluateDecision, Executing, BInv, ForksBegin
  <1>2. Current.node \in Node /\ Current.parent \in Nat
    BY <1>0, Underway
  <1>3. PICK m \in Node : /\ m \in outgoingTargets(Flow, Current.node)
                          /\ Run(<<[node |-> m, parent |-> Current.parent]>> \o Tail(work), cmd)
    BY <1>2, RoutedBranch
  <1> DEFINE item == [node |-> m, parent |-> Current.parent]
             w == << item >>
  <1>4. item.node = m /\ item.parent = Current.parent /\ item \in WorkItem
    BY <1>2, <1>3 DEF WorkItem
  <1>5. Run(w \o Tail(work), cmd)
    BY <1>3
  <1> HIDE DEF item
  <1>6. w \in Seq(WorkItem) /\ Len(w) = 1 /\ w[1] = item /\ w # << >>
    BY <1>4
  <1> HIDE DEF w
  <1>7. Onward(w)
    <2>1. \A a \in 1 .. Len(w) : a = 1
      BY <1>6
    <2>2. Current.node \notin Join
      BY <1>0 DEF Join, OfType
    <2> QED
      BY <1>0, <1>3, <1>4, <1>6, <2>1, <2>2 DEF Onward
  <1> QED
    BY <1>0, <1>5, <1>6, <1>7, PassBInv

LEMMA abortBInv ==
  ASSUME ForksBegin, BInv, JInv({})', abort
  PROVE  BInv'
  <1>1. Run(<< >>, NoCmd) /\ ~ Idle /\ Current.node \in Node
    BY Underway DEF abort, Executing, BInv
  <1>2. Lodged(saved'.task, saved'.last) /\ work' = << >>
    BY <1>1, RunLodged
  <1>3. Transactional
    BY <1>1 DEF abort, Executing, ForksBegin, OfType, Node
  <1>4. Lodged(task', last')
    BY <1>3 DEF abort, BInv
  <1> QED
    BY <1>2, <1>4, BInvNext DEF Lodged


LEMMA TeamsSome ==
  ASSUME NEW n \in Node, NEW roster \in Roster
  PROVE  Len(Teams(n, roster)) > 0
  <1>1. CASE roster = << >> \/ Props[n].countersign \in {"none", "SEQUENTIAL"}
    <2>1. PICK S : Teams(n, roster) = <<S>>
      BY <1>1 DEF Teams
    <2>2. Len(<<S>>) = 1
      OBVIOUS
    <2> QED
      BY <2>1, <2>2
  <1>2. CASE roster # << >> /\ Props[n].countersign \notin {"none", "SEQUENTIAL"}
    <2>1. roster \in Seq(User) /\ Len(roster) \in Nat
      BY DEF Roster
    <2>2. Len(roster) > 0
      BY <1>2, <2>1
    <2>3. Len(Teams(n, roster)) = Len(roster)
      BY <1>2, <2>1 DEF Teams
    <2> QED
      BY <2>2, <2>3
  <1> QED
    BY <1>1, <1>2

\* A new row starts a branch of the round of its parent, or none.
LEMMA BuiltRoot ==
  ASSUME JInv({}), NEW n, NEW p \in 0 .. last, NEW x \in Nat, NEW y, NEW j \in Join,
         x > last, y.scopes = buildScopes(n, p, x), y.scopes[j].root = x
  PROVE  Outside(task, p, j) /\ j \in ScopesOfNode[n] /\ y.scopes[j].round = p
  <1>1. y.scopes[j] = IF j \notin ScopesOfNode[n] THEN NoScope
                      ELSE IF p # 0 /\ task[p].scopes[j].root # 0 THEN task[p].scopes[j]
                      ELSE [round |-> p, root |-> x]
    BY DEF buildScopes
  <1>2. last \in Nat /\ x # 0
    BY DEF JInv, IInv, TypeOK
  <1>3. j \in ScopesOfNode[n]
    BY <1>1, <1>2 DEF NoScope
  <1>4. ASSUME p # 0, task[p].scopes[j].root # 0
        PROVE  FALSE
    <2>1. p \in 1 .. last
      BY <1>2, <1>4
    <2>2. ScopeOK(task, p, j, task[p].scopes[j])
      BY <2>1 DEF JInv, IInv, Sound, ScopesOK
    <2>3. task[p].scopes[j].root <= p
      BY <1>4, <2>2 DEF ScopeOK
    <2>4. task[p].scopes[j].root = x
      BY <1>1, <1>3, <1>4
    <2> QED
      BY <1>2, <2>3, <2>4
  <1>5. y.scopes[j] = [round |-> p, root |-> x]
    BY <1>1, <1>3, <1>4
  <1> QED
    BY <1>3, <1>4, <1>5 DEF Outside

\* A new task of a branch counts in the place of its token.
LEMMA StepWhole ==
  ASSUME NEW d, NEW n \in Nat, NEW e, NEW m \in Nat, n < m, NEW j, NEW r, NEW f \in Node,
         NEW w \in Seq(WorkItem), NEW s \in Seq(WorkItem),
         Roots(d, n, j, r) \subseteq Roots(e, m, j, r), NEW h \in Due(j, w),
         Due(j, s) = Due(j, w) \ {h}, n + 1 \in Roots(e, m, j, r),
         Whole(d, n, w, j, r, f)
  PROVE  Whole(e, m, s, j, r, f)
  <1>1. /\ IsFiniteSet(Due(j, w)) /\ Cardinality(Due(j, w)) \in Nat
        /\ IsFiniteSet(Roots(d, n, j, r)) /\ Cardinality(Roots(d, n, j, r)) \in Nat
        /\ IsFiniteSet(Roots(e, m, j, r)) /\ Cardinality(Roots(e, m, j, r)) \in Nat
        /\ Len(Flow.succ[f]) \in Nat
    BY RootsCount, DueCount, PropTyped
  <1>2. Cardinality(Due(j, s)) = Cardinality(Due(j, w)) - 1
    BY <1>1, FS_RemoveElement, ZenonT(40)
  <1>3. n + 1 \notin Roots(d, n, j, r)
    BY DEF Roots
  <1>4. Cardinality(Roots(d, n, j, r) \cup {n + 1}) = Cardinality(Roots(d, n, j, r)) + 1
    BY <1>1, <1>3, FS_AddElement
  <1>5. Roots(d, n, j, r) \cup {n + 1} \subseteq Roots(e, m, j, r)
    OBVIOUS
  <1>6. Cardinality(Roots(d, n, j, r) \cup {n + 1}) <= Cardinality(Roots(e, m, j, r))
    BY <1>1, <1>5, FS_Subset
  <1> QED
    BY <1>1, <1>2, <1>4, <1>6, SMTT(30) DEF Whole


\* The new tasks of node n, which the first token has come to.
LEMMA BuiltFilling ==
  ASSUME ForksBegin, BInv, ~ Idle, Evolves({}, task', last'), last < last',
         Flow.type[Current.node] = "task",
         \A x \in last+1 .. last' :
           task'[x].scopes = buildScopes(Current.node, Current.parent, x)
  PROVE  Filling(task', last', Tail(work), Current.parent)
  <1> DEFINE n == Current.node
             p == Current.parent
             s == Tail(work)
  <1>0. /\ n \in Node /\ p \in 0 .. last /\ IInv({}) /\ last \in Nat /\ last' \in Nat /\ JInv({})
        /\ work \in Seq(WorkItem) /\ work # << >> /\ Filling(task, last, work, p)
    BY Underway DEF BInv, Evolves, JInv, IInv, TypeOK, Idle
  <1>1. /\ s \in Seq(WorkItem) /\ Len(s) = Len(work) - 1 /\ Len(work) \in Nat \ {0}
        /\ \A a \in 1 .. Len(s) : s[a] = work[a + 1] /\ a + 1 \in 1 .. Len(work)
        /\ Current = work[1] /\ 1 \in 1 .. Len(work)
    BY <1>0 DEF Current
  <1>2. ASSUME NEW j \in Join
        PROVE  Due(j, s) = Due(j, work) \ {Len(work)} /\ (Len(work) \in Due(j, work) <=> Comes(j, n))
    BY <1>0, DueHere
  <1> HIDE DEF s
  <1>3. ASSUME NEW x \in last+1 .. last', NEW j \in Join, task'[x].scopes[j].root = x
        PROVE  Outside(task, p, j) /\ j \in ScopesOfNode[n] /\ task'[x].scopes[j].round = p
    <2> DEFINE y == task'[x]
    <2>1. y.scopes = buildScopes(n, p, x) /\ x \in Nat /\ x > last /\ y.scopes[j].root = x
      BY <1>0, <1>3
    <2> HIDE DEF y, n, p
    <2>2. JInv({}) /\ p \in 0 .. last
      BY <1>0
    <2>3. Outside(task, p, j) /\ j \in ScopesOfNode[n] /\ y.scopes[j].round = p
      BY <2>1, <2>2, BuiltRoot, SMTT(30)
    <2> QED
      BY <2>3 DEF y
  <1>4. Counted(task', last', p)
    <2>1. p \in Nat /\ Counted(task, last, p)
      BY <1>0 DEF Filling
    <2> QED
      BY <1>0, <1>3, <2>1, CountedNext
  <1>5. n \in Met({n}) /\ (\A f : n \in MetBefore(f, n)) /\ n \in OfType(Flow, "task")
    BY <1>0, MetHas DEF MetBefore, OfType, Node
  <1>6. ASSUME NEW j \in Join
        PROVE  /\ Roots(task, last, j, p) \subseteq Roots(task', last', j, p)
               /\ Roots(task', last', j, p) # {} =>
                    \/ Roots(task, last, j, p) # {}
                    \/ Outside(task, p, j) /\ j \in ScopesOfNode[n]
    <2>1. /\ Roots(task, last, j, p) \subseteq Roots(task', last', j, p)
          /\ \A i \in Roots(task', last', j, p) :
               i \in Roots(task, last, j, p) \/ i \in last+1 .. last'
      BY <1>0, RootsKept
    <2>2. \A i \in Roots(task', last', j, p) : task'[i].scopes[j].root = i
      BY DEF Roots
    <2> QED
      BY <1>3, <2>1, <2>2
  <1>7. ASSUME NEW j \in Join, p # 0, Outside(task', p, j), NEW f \in ForkOf[j]
        PROVE  /\ \A a \in 1 .. Len(s) : ByFork(j, f, s[a].node) \/ Comes(j, s[a].node)
               /\ Begins(task', last', s, j, p, f) => Whole(task', last', s, j, p, f)
    <2>1. Outside(task, p, j) /\ Filled(task, last, work, p, j)
      BY <1>0, <1>7, OldWay DEF Filling
    <2>2. /\ \A a \in 1 .. Len(work) : ByFork(j, f, work[a].node) \/ Comes(j, work[a].node)
          /\ Begins(task, last, work, j, p, f) => Whole(task, last, work, j, p, f)
      BY <2>1 DEF Filled
    <2>3. \A a \in 1 .. Len(s) : ByFork(j, f, s[a].node) \/ Comes(j, s[a].node)
      BY <1>1, <2>2
    <2>4. j \in ScopesOfNode[n] => ~ ByFork(j, f, n)
      BY <1>5 DEF ByFork
    <2>5. Begins(task', last', s, j, p, f) => Begins(task, last, work, j, p, f)
      BY <1>1, <1>6, <2>4 DEF Begins
    <2>6. ASSUME Whole(task, last, work, j, p, f)
          PROVE  Whole(task', last', s, j, p, f)
      <3>0. f \in Node
        BY ForkIsFork
      <3>1. CASE Comes(j, n)
        <4>1. j \in ScopesOfNode[n]
          BY <1>5, <3>1 DEF Comes, Enters, Within, Recorded
        <4>2. last + 1 \in last+1 .. last' /\ last + 1 \in 1 .. last' /\ last + 1 \in Nat \ {0}
          BY <1>0
        <4> DEFINE y == task'[last + 1]
        <4>3. y.scopes = buildScopes(n, p, last + 1)
          BY <4>2
        <4> HIDE DEF y, n, p
        <4>4. y.scopes[j] = IF j \notin ScopesOfNode[n] THEN NoScope
                            ELSE IF p # 0 /\ task[p].scopes[j].root # 0 THEN task[p].scopes[j]
                            ELSE [round |-> p, root |-> last + 1]
          BY <4>3 DEF buildScopes
        <4>5. y.scopes[j] = [round |-> p, root |-> last + 1]
          BY <2>1, <4>1, <4>4 DEF Outside
        <4>6. last + 1 \in Roots(task', last', j, p)
          BY <4>2, <4>5 DEF Roots, y
        <4>7. Len(work) \in Due(j, work) /\ Due(j, s) = Due(j, work) \ {Len(work)}
          BY <1>2, <3>1 DEF n
        <4> QED
          BY <1>0, <1>1, <1>6, <2>6, <3>0, <4>6, <4>7, StepWhole DEF p
      <3>2. CASE ~ Comes(j, n)
        <4>1. Due(j, work) \subseteq Due(j, s)
          BY <1>2, <3>2
        <4> QED
          BY <1>0, <1>1, <1>6, <2>6, <3>0, <4>1, WholeMore
      <3> QED
        BY <3>1, <3>2
    <2> QED
      BY <2>2, <2>3, <2>5, <2>6
  <1>8. ASSUME NEW j \in Join, p # 0, ~ Outside(task', p, j)
        PROVE  Roots(task', last', j, p) = {}
    <2>1. ~ Outside(task, p, j) /\ Filled(task, last, work, p, j)
      BY <1>0, <1>8, OldWay DEF Filling
    <2> QED
      BY <1>6, <2>1 DEF Filled
  <1>9. p # 0 => \A j \in Join : Filled(task', last', s, p, j)
    BY <1>7, <1>8 DEF Filled
  <1> QED
    BY <1>4, <1>9 DEF Filling, s

LEMMA createTaskBInv ==
  ASSUME ForksBegin, BInv, createTask
  PROVE  BInv'
  <1> DEFINE n == Current.node
             p == Current.parent
             roster == resolveActors(n)
             len == Len(Teams(n, roster))
             s == Tail(work)
  <1>0. /\ ~ Idle /\ last \in Nat /\ IInv({}) /\ Flow.type[n] = "task" /\ JInv({})
        /\ Evolves({}, task', last') /\ JInv({})'
    BY createTaskKeeps, createTaskJInv DEF createTask, Executing, BInv, JInv, IInv, TypeOK, ForksBegin
  <1>1. n \in Node /\ roster \in Roster
    BY <1>0, Underway, resolveActorsTyped
  <1>2. len \in Nat /\ len > 0
    BY <1>0, <1>1, TeamsTyped, TeamsSome
  <1>4. last' = last + len /\ Run(s, cmd)
    BY <1>0, <1>1, createTaskRows DEF createTask, Unwind
  <1>6. ASSUME NEW x \in last+1 .. last'
        PROVE  /\ task'[x].node = n /\ task'[x].back = NoBack
               /\ task'[x].scopes = buildScopes(n, p, x) /\ x \in Nat \ {0}
    BY <1>0, <1>1, createTaskRows
  <1> HIDE DEF len, roster
  <1>7. ASSUME NEW x \in last+1 .. last' PROVE Seated(task', task'[x])
    <2> DEFINE y == task'[x]
    <2>1. y.node = n /\ y.back = NoBack /\ y.scopes = buildScopes(n, p, x) /\ x \in Nat \ {0}
      BY <1>6
    <2> HIDE DEF y, n, p
    <2>2. Seated(task', y)
      BY <2>1, BuiltSeated
    <2> QED
      BY <2>2 DEF y
  <1>8. NewSeated
    BY <1>7 DEF NewSeated
  <1>9. last < last'
    BY <1>0, <1>2, <1>4
  <1>10. Filling(task', last', s, p)
    BY <1>0, <1>6, <1>9, BuiltFilling
  <1>11. /\ s \in Seq(WorkItem) /\ Len(s) = Len(work) - 1 /\ Len(work) \in Nat \ {0}
         /\ \A a \in 1 .. Len(s) : s[a] = work[a + 1] /\ a + 1 \in 1 .. Len(work)
    BY <1>0 DEF Idle, JInv, IInv, TypeOK
  <1> HIDE DEF s
  <1>12. \A a \in 1 .. Len(s) : s[a].parent = p
    BY <1>0, <1>11 DEF JInv, Walks, Idle
  <1> QED
    BY <1>0, <1>4, <1>8, <1>10, <1>11, <1>12, StepOnBInv

LEMMA StepBInv ==
  ASSUME ForksBegin, BInv, Step
  PROVE  BInv'
  <1>0. JInv({})'
    BY StepJInv DEF BInv, ForksBegin
  <1>1. CASE executeFork
    BY <1>0, <1>1, PushBInv DEF executeFork, Executing, Join, OfType
  <1>2. CASE joinReleases
    BY <1>0, <1>2, PushBInv DEF joinReleases, Executing
  <1>3. CASE joinWaits
    <2>1. Current.node \in Node
      BY <1>3, Underway DEF joinWaits, Executing, BInv
    <2>2. Current.node \in Join
      BY <1>3, <2>1 DEF joinWaits, Executing, Join, OfType, Node
    <2> QED
      BY <1>0, <1>3, <2>2, UnwindBInv DEF joinWaits, Executing
  <1>4. CASE executeEnd
    BY <1>0, <1>4, UnwindBInv DEF executeEnd, Executing, Serving
  <1>5. CASE executeUnknown
    BY <1>0, <1>5, UnwindBInv DEF executeUnknown, Serving
  <1> QED
    BY <1>0, <1>1, <1>2, <1>3, <1>4, <1>5, createTaskBInv, execCustomNodeBInv,
       evaluateDecisionBInv, abortBInv DEF Step


-----------------------------------------------------------------------------
(* The commands. *)

\* The row a command is about has a scope in each range of its node, and no other.
LEMMA CommandB ==
  ASSUME BInv, NEW t \in Id, NEW u \in User, Allowed(t, u)
  PROVE  /\ task[t].node \in OfType(Flow, "task") /\ task[t].node \in Node
         /\ Flow.type[task[t].node] = "task" /\ task[t].st = "DOING"
         /\ t \in Nat /\ t # 0 /\ t \in 0 .. last /\ last \in Nat
         /\ \A j \in Join : task[t].scopes[j].root = 0 <=> j \notin ScopesOfNode[task[t].node]
  <1>1. JInv({}) /\ task[t].st = "DOING" /\ AllSeated(task, last)
    BY DEF BInv, Allowed
  <1>2. /\ task[t].node \in Node /\ last \in Nat /\ t \in 1 .. last /\ Asks(task[t]) /\ t # 0
        /\ t \in 0 .. last
    BY <1>1, CommandRow
  <1>3. Flow.type[task[t].node] = "task"
    BY <1>1, <1>2 DEF Asks
  <1>4. task[t].node \in OfType(Flow, "task")
    BY <1>2, <1>3 DEF OfType, Node
  <1>5. \A j \in Join : task[t].scopes[j].root # 0 => j \in ScopesOfNode[task[t].node]
    BY <1>1, RowFacts
  <1>6. \A j \in Join : task[t].scopes[j].root = 0 => j \notin ScopesOfNode[task[t].node]
    BY <1>1, <1>2, <1>3 DEF AllSeated, Seated
  <1> QED
    BY <1>1, <1>2, <1>3, <1>4, <1>5, <1>6

\* The scopes there are have their roots among the rows there are.
LEMMA OldRoots ==
  ASSUME JInv({}), NEW i \in Id, NEW j \in Join
  PROVE  task[i].scopes[j].root # last + 1 /\ task[i].back.branch[j].root # last + 1
  <1>1. /\ i \in 1 .. last /\ last \in Nat /\ ScopeOK(task, i, j, task[i].scopes[j])
        /\ ScopeOK(task, i, j, task[i].back.branch[j])
    BY CommandRow DEF JInv, IInv, Sound, ScopesOK
  <1> QED
    BY <1>1 DEF ScopeOK

LEMMA SettleBInv ==
  ASSUME BInv, Idle, JInv({})', Evolves({}, task', last'), last' = last, work' = work,
         saved' = saved
  PROVE  BInv'
  <1>1. last \in Nat
    BY DEF BInv, JInv, IInv, TypeOK
  <1>2. last+1 .. last' = {}
    BY <1>1
  <1>3. NewSeated /\ NoRoot
    BY <1>2 DEF NewSeated, NoRoot
  <1> QED
    BY <1>3, StayBInv

LEMMA OneRowBInv ==
  ASSUME BInv, Idle, JInv({})', Evolves({}, task', last'), work' = work, saved' = saved,
         NEW e, NEW r, task' = Appended(e, << r >>), last' = last + 1, Seated(task', r),
         \A j \in Join : r.scopes[j].root # last + 1
  PROVE  BInv'
  <1>1. last \in Nat
    BY DEF BInv, JInv, IInv, TypeOK
  <1>2. \A x \in last+1 .. last' : task'[x] = r /\ x = last + 1
    BY <1>1, AppendedRow
  <1>3. NewSeated /\ NoRoot
    BY <1>2 DEF NewSeated, NoRoot
  <1> QED
    BY <1>3, StayBInv

\* A new row without scopes.
LEMMA BareBInv ==
  ASSUME BInv, Idle, JInv({})', Evolves({}, task', last'), work' = work, saved' = saved,
         NEW e, NEW r, task' = Appended(e, << r >>), last' = last + 1, Seated(task', r),
         r.scopes = NoScopes
  PROVE  BInv'
  <1>1. last \in Nat
    BY DEF BInv, JInv, IInv, TypeOK
  <1>2. \A j \in Join : r.scopes[j].root # last + 1
    BY <1>1 DEF NoScopes, NoScope
  <1> QED
    BY <1>2, OneRowBInv

LEMMA StartProcessInstanceBInv ==
  ASSUME ForksBegin, BInv, StartProcessInstance
  PROVE  BInv'
  <1> DEFINE n == startNode(Flow)
             w == Children(n, 0)
             c == [NoCmd EXCEPT !.user = Initiator]
  <1>1. JInv({}) /\ JInv({})' /\ last = 0 /\ BranchesMeet
    BY StartProcessInstanceJInv DEF BInv, JInv, Unstarted, StartProcessInstance, ForksBegin
  <1>2. UNCHANGED <<task, last>> /\ Run(w, c)
    BY DEF StartProcessInstance
  <1>3. 1 .. last' = {}
    BY <1>1, <1>2
  <1>4. n \in Node /\ Flow.type[n] # "decision"
    BY StartTyped, StartIsStart
  <1>5. w \in Seq(WorkItem) /\ \A a \in 1 .. Len(w) : w[a].parent = 0
    BY <1>1, <1>4, Leaves
  <1> HIDE DEF w, c, n
  <1>6. Counted(task', last', 0)
    BY <1>3 DEF Counted
  <1>7. w # << >> => Head(w).parent = 0
    <2> SUFFICES ASSUME w # << >> PROVE Head(w).parent = 0
      OBVIOUS
    <2>1. Len(w) \in Nat \ {0} /\ Head(w) = w[1]
      BY <1>5
    <2> QED
      BY <1>5, <2>1
  <1>8. w # << >> => Filling(task', last', w, Head(w).parent)
    BY <1>6, <1>7 DEF Filling
  <1>9. AllSeated(task', last')
    BY <1>3 DEF AllSeated
  <1>10. Lodged(saved'.task, saved'.last) /\ work' = w
    BY <1>2, RunLodged
  <1> QED
    BY <1>1, <1>6, <1>8, <1>9, <1>10, BInvNext

LEMMA ExecuteWaitBInv ==
  ASSUME BInv, NEW t \in Id, NEW u \in User, NEW submit \in Submit, ExecuteWait(t, u, submit)
  PROVE  BInv'
  <1>1. Idle /\ IInv({}) /\ JInv({})
    BY DEF ExecuteWait, Executes, BInv, JInv
  <1>2. Evolves({}, task', last') /\ JInv({})'
    BY <1>1, ExecuteWaitKeeps, ExecuteWaitJInv
  <1>3. last' = last /\ work' = work /\ saved' = saved
    BY DEF ExecuteWait
  <1> QED
    BY <1>1, <1>2, <1>3, SettleBInv

LEMMA ExecuteAndJumpToEndBInv ==
  ASSUME BInv, NEW t \in Id, NEW u \in User, ExecuteAndJumpToEnd(t, u)
  PROVE  BInv'
  <1>1. Idle /\ IInv({}) /\ JInv({})
    BY DEF ExecuteAndJumpToEnd, BInv, JInv
  <1>2. Evolves({}, task', last') /\ JInv({})'
    BY <1>1, ExecuteAndJumpToEndKeeps, ExecuteAndJumpToEndJInv
  <1>3. last' = last /\ work' = work /\ saved' = saved
    BY DEF ExecuteAndJumpToEnd
  <1> QED
    BY <1>1, <1>2, <1>3, SettleBInv

LEMMA ReturnFailsBInv ==
  ASSUME BInv, NEW t \in Id, NEW u \in User, ReturnFails(t, u)
  PROVE  BInv'
  <1>1. Idle /\ IInv({}) /\ JInv({})
    BY DEF ReturnFails, BInv, JInv
  <1>2. Evolves({}, task', last') /\ JInv({})'
    BY <1>1, ReturnFailsKeeps, ReturnFailsJInv
  <1>3. last' = last /\ work' = work /\ saved' = saved
    BY DEF ReturnFails
  <1> QED
    BY <1>1, <1>2, <1>3, SettleBInv

LEMMA withdrawBInv ==
  ASSUME BInv, NEW u \in User, withdraw(u)
  PROVE  BInv'
  <1>1. Idle /\ IInv({}) /\ JInv({})
    BY DEF withdraw, BInv, JInv
  <1>2. Evolves({}, task', last') /\ JInv({})'
    BY <1>1, withdrawKeeps, withdrawJInv
  <1>3. last' = last /\ work' = work /\ saved' = saved
    BY DEF withdraw
  <1> QED
    BY <1>1, <1>2, <1>3, SettleBInv

\* A token that leaves a task outside a range comes to its fork first.
LEMMA ExecuteAdvanceBInv ==
  ASSUME ForksBegin, BInv, NEW t \in Id, NEW u \in User, NEW submit \in Submit,
         NEW next \in Roster, ExecuteAdvance(t, u, submit, next)
  PROVE  BInv'
  <1> DEFINE n == task[t].node
             w == Children(n, t)
             c == [user |-> u, next |-> next, home |-> {}]
  <1>1. Idle /\ Allowed(t, u) /\ IInv({}) /\ JInv({}) /\ BranchesMeet
    BY DEF ExecuteAdvance, Executes, BInv, JInv, ForksBegin
  <1>2. Evolves({}, task', last') /\ JInv({})'
    BY <1>1, ExecuteAdvanceKeeps, ExecuteAdvanceJInv
  <1>3. /\ Flow.type[n] = "task" /\ n \in Node /\ t \in Nat /\ n \in OfType(Flow, "task")
        /\ task[t].st = "DOING"
        /\ \A j \in Join : task[t].scopes[j].root = 0 <=> j \notin ScopesOfNode[n]
    BY <1>1, CommandB
  <1>4. last' = last /\ Run(w, c)
    BY DEF ExecuteAdvance
  <1>5. /\ w \in Seq(WorkItem)
        /\ \A a \in 1 .. Len(w) : w[a].parent = t /\ w[a].node \in outgoingTargets(Flow, n)
    BY <1>1, <1>3, Leaves
  <1> HIDE DEF w, c, n
  <1>6. ASSUME NEW j \in Join, task[t].scopes[j].root = 0, NEW f \in ForkOf[j],
               NEW a \in 1 .. Len(w)
        PROVE  ByFork(j, f, w[a].node)
    BY <1>3, <1>5, <1>6 DEF ForksBegin
  <1> QED
    BY <1>1, <1>2, <1>3, <1>4, <1>5, <1>6, GoBInv

LEMMA ExecuteAndJumpToFirstTaskNodeBInv ==
  ASSUME ForksBegin, BInv, NEW t \in Id, NEW u \in User, ExecuteAndJumpToFirstTaskNode(t, u)
  PROVE  BInv'
  <1>1. Idle /\ Allowed(t, u) /\ IInv({}) /\ JInv({}) /\ BranchesMeet
    BY DEF ExecuteAndJumpToFirstTaskNode, BInv, JInv, ForksBegin
  <1>2. Evolves({}, task', last') /\ JInv({})'
    BY <1>1, ExecuteAndJumpToFirstTaskNodeKeeps, ExecuteAndJumpToFirstTaskNodeJInv
  <1>3. t \in Nat /\ task[t].st = "DOING"
    BY <1>1, CommandB
  <1>4. PICK n \in firstAfterStart(Flow, {"task", "custom"}) :
          Run(<<[node |-> n, parent |-> t]>>, [user |-> u, next |-> << >>, home |-> {n}])
    BY DEF ExecuteAndJumpToFirstTaskNode
  <1>5. n \in Node /\ n \in FirstTaskNode /\ Flow.type[n] = "task"
    BY <1>1, <1>4, FirstAfterStart DEF BranchesMeet, OfType
  <1> DEFINE item == [node |-> n, parent |-> t]
             w == << item >>
             c == [user |-> u, next |-> << >>, home |-> {n}]
  <1>6. item.node = n /\ item.parent = t /\ item \in WorkItem /\ Run(w, c)
    BY <1>3, <1>4, <1>5 DEF WorkItem
  <1> HIDE DEF item, c
  <1>7. w \in Seq(WorkItem) /\ Len(w) = 1 /\ w[1] = item
    BY <1>6
  <1> HIDE DEF w
  <1>8. \A a \in 1 .. Len(w) : w[a].parent = t /\ w[a].node = n
    BY <1>6, <1>7
  <1>9. last' = last
    BY DEF ExecuteAndJumpToFirstTaskNode
  <1>10. \A j \in Join : \A f : ByFork(j, f, n)
    <2>1. {n} \in SUBSET Node /\ \A f : ClosedBefore(f, {n})
      BY <1>5 DEF ClosedBefore
    <2>2. \A f : MetBefore(f, n) \subseteq {n}
      BY <2>1 DEF MetBefore
    <2>3. ScopesOfNode[n] = {}
      BY <1>1, <1>5 DEF BranchesMeet
    <2> QED
      BY <2>2, <2>3 DEF ByFork
  <1> QED
    BY <1>1, <1>2, <1>3, <1>6, <1>7, <1>8, <1>9, <1>10, GoBInv


LEMMA ExecuteNextMemberBInv ==
  ASSUME ForksBegin, BInv, NEW t \in Id, NEW u \in User, NEW submit \in Submit,
         ExecuteNextMember(t, u, submit)
  PROVE  BInv'
  <1> DEFINE d == Completed(t, u, submit)
             n == task[t].node
             s == d[t].cs[n]
             r == [NewRow(n, t, {s.members[s.idx + 2]}) EXCEPT
                     !.cs[n] = [s EXCEPT !.idx = s.idx + 1]]
  <1>1. Idle /\ Allowed(t, u) /\ IInv({}) /\ JInv({}) /\ SequentialGate(d, t, submit) /\ BranchesMeet
    BY DEF ExecuteNextMember, Executes, BInv, JInv, ForksBegin
  <1>2. Evolves({}, task', last') /\ JInv({})'
    BY <1>1, ExecuteNextMemberKeeps, ExecuteNextMemberJInv
  <1>3. n \in Sequential
    <2>1. d[t].node = n /\ n \in Node
      BY <1>1, CompletedSource, CommandRow DEF Settles
    <2> QED
      BY <1>1, <2>1 DEF SequentialGate, Sequential
  <1>4. task' = Appended(d, << r >>) /\ last' = last + 1 /\ work' = work /\ saved' = saved
    BY DEF ExecuteNextMember
  <1>5. r.node = n /\ r.scopes = NoScopes /\ r.back = NoBack
    BY DEF NewRow
  <1> HIDE DEF d, r
  <1>6. Seated(task', r)
    <2>1. ScopesOfNode[r.node] = {}
      BY <1>3, <1>5 DEF ForksBegin
    <2> QED
      BY <1>5, <2>1, BareSeated
  <1> QED
    BY <1>1, <1>2, <1>4, <1>5, <1>6, BareBInv

\* Added signers are in the branches of the signer who names them.
LEMMA ExecuteAddSignBInv ==
  ASSUME BranchesMeet, BInv, NEW t \in Id, NEW u \in User, NEW submit \in Submit,
         NEW ops \in Roster, ExecuteAddSign(t, u, submit, ops)
  PROVE  BInv'
  <1> DEFINE n == task[t].node
  <1>1. Idle /\ Allowed(t, u) /\ IInv({}) /\ JInv({})
    BY DEF ExecuteAddSign, Executes, BInv, JInv
  <1>2. Evolves({}, task', last') /\ JInv({})'
    BY <1>1, ExecuteAddSignKeeps, ExecuteAddSignJInv
  <1>3. work' = work /\ saved' = saved
    BY DEF ExecuteAddSign
  <1>4. \A x \in last+1 .. last' :
          /\ task'[x].node = n /\ task'[x].back = NoBack
          /\ task'[x].scopes = buildScopes(n, t, x) /\ x \in Nat \ {0} /\ x > last
    BY <1>1, AddSignRows
  <1>5. /\ t \in 0 .. last /\ t # 0
        /\ \A j \in Join : task[t].scopes[j].root = 0 <=> j \notin ScopesOfNode[n]
    BY <1>1, CommandB
  <1>6. ASSUME NEW x \in last+1 .. last'
        PROVE  Seated(task', task'[x]) /\ \A j \in Join : task'[x].scopes[j].root # x
    <2> DEFINE y == task'[x]
    <2>1. /\ y.node = n /\ y.back = NoBack /\ y.scopes = buildScopes(n, t, x) /\ x \in Nat \ {0}
          /\ x \in Nat /\ x > last
      BY <1>4
    <2> HIDE DEF y, n
    <2>2. Seated(task', y)
      BY <2>1, BuiltSeated
    <2>3. ASSUME NEW j \in Join, y.scopes[j].root = x
          PROVE  Outside(task, t, j) /\ j \in ScopesOfNode[n]
      <3>1. JInv({}) /\ t \in 0 .. last
        BY <1>1, <1>5
      <3>2. y.scopes = buildScopes(n, t, x) /\ x \in Nat /\ x > last /\ y.scopes[j].root = x
        BY <2>1, <2>3
      <3> QED
        BY <3>1, <3>2, BuiltRoot, SMTT(30)
    <2>4. \A j \in Join : y.scopes[j].root # x
      BY <1>5, <2>3 DEF Outside
    <2> QED
      BY <2>2, <2>4 DEF y
  <1>7. NewSeated /\ NoRoot
    BY <1>6 DEF NewSeated, NoRoot
  <1> QED
    BY <1>1, <1>2, <1>3, <1>7, StayBInv

LEMMA executeReapplyBInv ==
  ASSUME BranchesMeet, BInv, NEW t \in Id, NEW u \in User, executeReapply(t, u)
  PROVE  BInv'
  <1> DEFINE d == Completed(t, u, "reapply")
             src == task[t].back.src
             n == task[src].node
             r == [NewRow(n, t, FlowRange(Props[n].assignee)) EXCEPT
                     !.scopes = task[t].back.branch]
  <1>1. Idle /\ Allowed(t, u) /\ IInv({}) /\ JInv({})
    BY DEF executeReapply, BInv, JInv
  <1>2. Evolves({}, task', last') /\ JInv({})'
    BY <1>1, executeReapplyKeeps, executeReapplyJInv
  <1>3. /\ task' = Appended(d, << r >>) /\ last' = last + 1 /\ src # 0
        /\ work' = work /\ saved' = saved
    BY DEF executeReapply
  <1>4. r.node = n /\ r.scopes = task[t].back.branch /\ r.back = NoBack /\ r.back.src = 0
    BY DEF NewRow, NoBack
  <1>5. src \in 1 .. last /\ t \in 1 .. last
    <2>1. task[t].back.src \in 0 .. last /\ t \in 1 .. last /\ last \in Nat
      BY <1>1, RowRefs, CommandRow
    <2> HIDE DEF src
    <2>2. src \in 0 .. last
      BY <2>1 DEF src
    <2> QED
      BY <1>3, <2>1, <2>2
  <1>6. Seated(task, task[t]) /\ Seated(task, task[src])
    <2>1. AllSeated(task, last)
      BY DEF BInv
    <2> HIDE DEF src
    <2> QED
      BY <1>5, <2>1 DEF AllSeated
  <1>7. r.scopes = task[src].scopes
    BY <1>3, <1>4, <1>6 DEF Seated
  <1> HIDE DEF d, r
  <1>8. Seated(task', r)
    <2> HIDE DEF src
    <2> QED
      BY <1>4, <1>6, <1>7 DEF Seated, n
  <1>9. \A j \in Join : r.scopes[j].root # last + 1
    BY <1>1, <1>4, OldRoots
  <1> QED
    BY <1>1, <1>2, <1>3, <1>8, <1>9, OneRowBInv

LEMMA ReturnForChangeBInv ==
  ASSUME BranchesMeet, BInv, NEW t \in Id, NEW u \in User, ReturnForChange(t, u)
  PROVE  BInv'
  <1> DEFINE e == DropOpenAt(Completed(t, u, "return"), task[t].node)
             row(n) == [NewRow(n, t, {Initiator}) EXCEPT
                          !.back = [src |-> t, branch |-> task[t].scopes]]
  <1>1. Idle /\ IInv({}) /\ JInv({})
    BY DEF ReturnForChange, BInv, JInv
  <1>2. Evolves({}, task', last') /\ JInv({})'
    BY <1>1, ReturnForChangeKeeps, ReturnForChangeJInv
  <1>3. PICK n \in firstAfterStart(Flow, {"task"}) : task' = Appended(e, << row(n) >>)
    BY DEF ReturnForChange
  <1>4. last' = last + 1 /\ work' = work /\ saved' = saved
    BY DEF ReturnForChange
  <1>5. n \in FirstTaskNode /\ ScopesOfNode[n] = {}
    BY <1>1, <1>3, FirstAfterStart DEF BranchesMeet
  <1> DEFINE r == row(n)
  <1>6. r.node = n /\ r.scopes = NoScopes /\ r.back.src = t /\ r.back.branch = task[t].scopes
    BY DEF NewRow
  <1>7. task' = Appended(e, << r >>)
    BY <1>3
  <1> HIDE DEF e, r, row
  <1>8. task'[t].scopes = task[t].scopes
    BY <1>2, OldRow
  <1>9. Seated(task', r)
    BY <1>5, <1>6, <1>8 DEF Seated, NoScopes
  <1> QED
    BY <1>1, <1>2, <1>4, <1>6, <1>7, <1>9, BareBInv

LEMMA rollbackToParentBInv ==
  ASSUME BranchesMeet, BInv, NEW t \in Id, NEW u \in User, rollbackToParent(t, u)
  PROVE  BInv'
  <1> DEFINE d == Completed(t, u, "rollback")
             p == task[t].parent
             his == task[p]
             actor == IF his.node \in FirstTaskNode THEN his.owner ELSE his.by
             r == [NewRow(his.node, his.parent, {actor}) EXCEPT
                     !.owner = his.owner, !.scopes = his.scopes,
                     !.back = his.back, !.round = his.round]
  <1>1. Idle /\ IInv({}) /\ JInv({}) /\ p # 0
    BY DEF rollbackToParent, BInv, JInv
  <1>2. Evolves({}, task', last') /\ JInv({})'
    BY <1>1, rollbackToParentKeeps, rollbackToParentJInv DEF NoWayBack
  <1>3. task' = Appended(d, << r >>) /\ last' = last + 1 /\ work' = work /\ saved' = saved
    BY DEF rollbackToParent
  <1>4. r.node = his.node /\ r.scopes = his.scopes /\ r.back = his.back
    BY DEF NewRow
  <1> HIDE DEF d, r, actor
  <1>5. p \in 1 .. last /\ p \in Id /\ last \in Nat
    <2>1. task[t].parent \in 0 .. last /\ last \in Nat
      BY <1>1, RowRefs, CommandRow
    <2> HIDE DEF p
    <2>2. p \in 0 .. last
      BY <2>1 DEF p
    <2> QED
      BY <1>1, <2>1, <2>2 DEF Id
  <1> HIDE DEF p
  <1>6. Seated(task, his) /\ (his.back.src # 0 => his.back.src \in Id)
    <2>1. AllSeated(task, last)
      BY DEF BInv
    <2>2. his.back.src \in 0 .. last
      BY <1>1, <1>5, RowRefs
    <2> HIDE DEF his
    <2>3. his.back.src # 0 => his.back.src \in 1 .. last
      BY <1>5, <2>2
    <2> QED
      BY <1>5, <2>1, <2>3 DEF AllSeated, Id, his
  <1>7. Seated(task', r)
    <2>1. his.back.src # 0 => task'[his.back.src].scopes = task[his.back.src].scopes
      BY <1>2, <1>6, OldRow
    <2> HIDE DEF his
    <2> QED
      BY <1>4, <1>6, <2>1 DEF Seated
  <1>8. \A j \in Join : r.scopes[j].root # last + 1
    BY <1>1, <1>4, <1>5, OldRoots
  <1> HIDE DEF his
  <1> QED
    BY <1>1, <1>2, <1>3, <1>7, <1>8, OneRowBInv

LEMMA RecallTaskBInv ==
  ASSUME BranchesMeet, BInv, NEW t \in Id, NEW u \in User, RecallTask(t, u)
  PROVE  BInv'
  <1> DEFINE D == recallDescendants(t) \cap DoingIn(task)
             e == [i \in Id |-> IF i \in D THEN [task[i] EXCEPT !.st = "ABANDONED"] ELSE task[i]]
             r == NewRow(task[t].node, task[t].parent, task[t].actors)
  <1>1. Idle /\ IInv({}) /\ JInv({}) /\ task[t].node \in RecallNode
    <2>1. task[t].node \in Node
      BY CommandRow DEF BInv
    <2> QED
      BY <2>1 DEF RecallTask, BInv, JInv, RecallNode, OfType, Node
  <1>2. Evolves({}, task', last') /\ JInv({})'
    BY <1>1, RecallTaskKeeps, RecallTaskJInv
  <1>3. task' = Appended(e, << r >>) /\ last' = last + 1 /\ work' = work /\ saved' = saved
    BY DEF RecallTask
  <1>4. r.node = task[t].node /\ r.scopes = NoScopes /\ r.back = NoBack
    BY DEF NewRow
  <1> HIDE DEF e, r, D
  <1>5. Seated(task', r)
    <2>1. ScopesOfNode[r.node] = {}
      BY <1>1, <1>4 DEF BranchesMeet
    <2> QED
      BY <1>4, <2>1, BareSeated
  <1> QED
    BY <1>1, <1>2, <1>3, <1>4, <1>5, BareBInv

LEMMA ExecuteBInv ==
  ASSUME ForksBegin, BInv, NEW t \in Id, NEW u \in User, Execute(t, u)
  PROVE  BInv'
  <1>1. BranchesMeet /\ \A submit \in Submits : submit \in Submit
    BY InputAssumption DEF Submit, ForksBegin
  <1>2. \A roster \in NextOps \cup SignOps : roster \in Roster
    BY InputAssumption
  <1>3. CASE executeReapply(t, u)
    BY <1>1, <1>3, executeReapplyBInv
  <1>4. ASSUME NEW submit \in Submits, ExecuteWait(t, u, submit)
        PROVE  BInv'
    BY <1>1, <1>4, ExecuteWaitBInv
  <1>5. ASSUME NEW submit \in Submits, ExecuteNextMember(t, u, submit)
        PROVE  BInv'
    BY <1>1, <1>5, ExecuteNextMemberBInv
  <1>6. ASSUME NEW submit \in Submits, NEW ops \in SignOps, ExecuteAddSign(t, u, submit, ops)
        PROVE  BInv'
    BY <1>1, <1>2, <1>6, ExecuteAddSignBInv
  <1>7. ASSUME NEW submit \in Submits, NEW next \in NextOps, ExecuteAdvance(t, u, submit, next)
        PROVE  BInv'
    BY <1>1, <1>2, <1>7, ExecuteAdvanceBInv
  <1> QED
    BY <1>3, <1>4, <1>5, <1>6, <1>7 DEF Execute

LEMMA RowCommandBInv ==
  ASSUME ForksBegin, BInv, NEW t \in Id, NEW u \in User, RowCommand(t, u)
  PROVE  BInv'
  <1>0. BranchesMeet /\ "jump" \notin Commands
    BY DEF ForksBegin, BranchesMeet
  <1>1. CASE Execute(t, u)
    BY <1>1, ExecuteBInv
  <1>2. CASE ExecuteAndJumpToEnd(t, u)
    BY <1>2, ExecuteAndJumpToEndBInv
  <1>3. CASE rollbackToParent(t, u)
    BY <1>0, <1>3, rollbackToParentBInv
  <1>4. CASE Return(t, u)
    BY <1>0, <1>4, ReturnForChangeBInv, ExecuteAndJumpToFirstTaskNodeBInv, ReturnFailsBInv DEF Return
  <1>5. CASE RecallTask(t, u)
    BY <1>0, <1>5, RecallTaskBInv
  <1> QED
    BY <1>0, <1>1, <1>2, <1>3, <1>4, <1>5 DEF RowCommand

LEMMA NextBInv ==
  ASSUME ForksBegin, BInv, [Next]_vars
  PROVE  BInv'
  <1>1. CASE Next
    BY <1>1, StepBInv, StartProcessInstanceBInv, RowCommandBInv, withdrawBInv DEF Next
  <1>2. CASE UNCHANGED vars
    <2>1. BranchesMeet /\ JInv({})
      BY DEF ForksBegin, BInv
    <2>2. JInv({})'
      BY <1>2, <2>1, NextJInv DEF NoWayBack
    <2>3. last' = last /\ task' = task /\ work' = work /\ saved' = saved
      BY <1>2 DEF vars
    <2> QED
      BY <2>2, <2>3, BInvNext DEF BInv, Current
  <1> QED
    BY <1>1, <1>2

LEMMA InitBInv ==
  ASSUME Init
  PROVE  BInv
  <1>1. JInv({})
    BY InitJInv
  <1>2. last = 0 /\ work = << >> /\ saved = NoSnapshot
    BY DEF Init
  <1>3. AllSeated(task, last) /\ Counted(task, last, 0)
    BY <1>2 DEF AllSeated, Counted
  <1>4. Lodged(NoSnapshot.task, NoSnapshot.last)
    BY DEF Lodged, AllSeated, Counted, NoSnapshot
  <1> QED
    BY <1>1, <1>2, <1>3, <1>4 DEF BInv

\* Whatever is completed, returned, rolled back, recalled or aborted, a round has
\* a branch, or a token that is to start one, for every edge of its fork.
THEOREM BranchesBegun == ASSUME ForksBegin PROVE Spec => []BInv
  <1>1. Init => BInv
    BY InitBInv
  <1>2. BInv /\ [Next]_vars => BInv'
    BY NextBInv
  <1> QED
    BY <1>1, <1>2, PTL DEF Spec

\* A join lets no round through that has fewer branches than its fork has edges:
\* none is missing because it was not yet begun when the join counted.
THEOREM LetThroughCounted == ASSUME ForksBegin PROVE Spec => []AllBranchesCounted
  <1>1. BInv => AllBranchesCounted
    <2> SUFFICES ASSUME BInv, NEW j \in Join, NEW r \in Id, ReleasedBy(j, r) # {},
                        NEW f \in ForkOf[j]
                 PROVE  Cardinality({ task[i].scopes[j].root : i \in { k \in Id :
                           task[k].scopes[j].root # 0 /\ task[k].scopes[j].round = r } })
                          >= Len(Flow.succ[f])
      BY DEF AllBranchesCounted
    <2> DEFINE S == { k \in Id : task[k].scopes[j].root # 0 /\ task[k].scopes[j].round = r }
               R == { task[i].scopes[j].root : i \in S }
    <2>1. JInv({}) /\ last \in Nat /\ r \in 1 .. last /\ r # 0
      BY CommandRow DEF BInv
    <2>2. PICK q \in Id : q \in S
      BY DEF ReleasedBy
    <2>3. Roots(task, last, j, r) # {}
      <3>1. ScopeOK(task, q, j, task[q].scopes[j]) /\ q \in 1 .. last
        BY <2>1 DEF JInv, IInv, Sound, ScopesOK, Id
      <3>2. task[q].scopes[j] \in Scope
        BY <2>1 DEF JInv, IInv, TypeOK, Row
      <3> DEFINE x == task[q].scopes[j].root
      <3>3. /\ x # 0 /\ x <= q /\ task[x].scopes[j] = task[q].scopes[j] /\ x \in Nat
            /\ task[q].scopes[j].round = r
        BY <2>2, <3>1, <3>2 DEF ScopeOK, Scope
      <3> HIDE DEF x
      <3>4. x \in 1 .. last
        BY <2>1, <3>1, <3>3
      <3>5. task[x].scopes[j].root = x /\ task[x].scopes[j].round = r
        BY <3>3 DEF x
      <3> QED
        BY <3>4, <3>5 DEF Roots
    <2>4. Whole(task, last, << >>, j, r, f)
      <3>1. CASE work = << >>
        BY <2>1, <2>3, <3>1 DEF BInv, Counted
      <3>2. CASE work # << >> /\ r # Current.parent
        BY <2>1, <2>3, <3>2 DEF BInv, Filling, Counted
      <3>3. CASE work # << >> /\ r = Current.parent
        <4>1. q \in 1 .. last /\ InRound(task, q, j, r)
          BY <2>2 DEF InRound, Id
        <4>2. task[q].st = "DOING"
          BY <2>1, <3>3, <4>1 DEF JInv, Walks
        <4>3. PICK p \in 1 .. last : Through(task, last, j, r, p)
          BY <2>1, ReleasedThrough DEF Id
        <4>4. PICK p2 : PassedBy(task, last, j, r, p2)
          BY <2>1, <4>3, ReleasedThrough DEF JInv, PassedOnce, Passes, Unpassed
        <4> QED
          BY <4>1, <4>2, <4>4 DEF PassedBy, Hampers
      <3> QED
        BY <3>1, <3>2, <3>3
    <2>5. Cardinality(Roots(task, last, j, r)) >= Len(Flow.succ[f])
      <3>1. Due(j, << >>) = {}
        BY DEF Due
      <3>2. Cardinality(Due(j, << >>)) = 0
        BY <3>1, FS_EmptySet
      <3> QED
        BY <2>1, <2>4, <3>2, RootsCount DEF Whole
    <2>6. Roots(task, last, j, r) \subseteq R
      BY <2>1 DEF Roots, Id
    <2>7. IsFiniteSet(R)
      <3>1. ASSUME NEW i \in S PROVE task[i].scopes[j].root \in 1 .. last
        <4>1. i \in 1 .. last /\ ScopeOK(task, i, j, task[i].scopes[j])
          BY <2>1 DEF JInv, IInv, Sound, ScopesOK, Id
        <4>2. task[i].scopes[j] \in Scope
          BY <2>1 DEF JInv, IInv, TypeOK, Row
        <4>3. task[i].scopes[j].root \in Nat \ {0} /\ task[i].scopes[j].root <= i
          BY <4>1, <4>2 DEF ScopeOK, Scope
        <4> QED
          BY <2>1, <4>1, <4>3
      <3>2. R \subseteq 1 .. last
        BY <3>1
      <3>3. IsFiniteSet(1 .. last)
        BY <2>1, FS_Interval
      <3> HIDE DEF R
      <3> QED
        BY <3>2, <3>3, FS_Subset
    <2>8. Cardinality(Roots(task, last, j, r)) <= Cardinality(R) /\ Cardinality(R) \in Nat
      BY <2>6, <2>7, FS_Subset, FS_CardinalityType
    <2>9. Len(Flow.succ[f]) \in Nat /\ Cardinality(Roots(task, last, j, r)) \in Nat
      <3>1. f \in Node
        BY ForkIsFork
      <3> QED
        BY <2>1, <3>1, PropTyped, RootsCount
    <2> QED
      BY <2>5, <2>8, <2>9
  <1> QED
    BY <1>1, BranchesBegun, PTL


===============================================================================
